--------------------------- MODULE HttpServerProofs ---------------------------
(***************************************************************************)
(* Theorems about HttpServer for every number of connections, middlewares  *)
(* and requests: what the two counters count, when the server may stop,    *)
(* and what every answered request has gone through.                       *)
(***************************************************************************)
EXTENDS HttpServer, HttpWire, Routing, FiniteSetTheorems, WellFoundedInduction, SequenceTheorems, TLAPS

-----------------------------------------------------------------------------
(* The parts of the inductive invariant about the counters.                 *)

(* The connections active_connections of ignite() counts: an unwound task   *)
(* never lowers it.                                                         *)
Counted == {c \in Conns : standing[c] \notin {"unborn", "gone"}}

(* The connections telemetry.active_connections counts while the server     *)
(* serves, and those it may ever have counted.                              *)
Gauged == {c \in Conns : \/ standing[c] \in Serving \cup {"closing", "unwound"}
                         \/ socket[c] \in {"open", "panicked"}}
Opened == {c \in Conns : standing[c] \notin {"unborn", "accepted"}}

StateOK ==
  /\ server \in {"serving", "draining", "stopped"}
  /\ standing \in [Conns -> States]
  /\ notified \in [Conns -> BOOLEAN]
  /\ requests \in [Conns -> 0..MaxRequests]
  /\ kind \in [Conns -> Kind]
  /\ mw \in [Conns -> 0..Middlewares]
  /\ socket \in [Conns -> {"none", "open", "over", "panicked"}]

(* A session has its connection only once the task has let go of it.        *)
SessionsApart == \A c \in Conns : socket[c] # "none" => standing[c] \in {"returned", "gone"}

(* Nobody is told to stop while the server serves.                          *)
Untold == server = "serving" => \A c \in Conns : ~ notified[c]

Counters ==
  /\ active \in Nat /\ active = Cardinality(Counted)
  /\ gauge \in Nat /\ gauge <= Cardinality(Opened)
  /\ server = "serving" => gauge = Cardinality(Gauged)

Counting == StateOK /\ SessionsApart /\ Untold /\ Counters /\ StopsLast

-----------------------------------------------------------------------------
(* Sets of connections                                                      *)

(* There are finitely many connections, and no set of them has more.        *)
LEMMA Bounded ==
  ASSUME NEW S, S \subseteq Conns
  PROVE  IsFiniteSet(S) /\ Cardinality(S) \in Nat /\ Cardinality(S) <= Cardinality(Conns)
         /\ Cardinality(Conns) \in Nat
BY FS_Subset, FS_CardinalityType, HttpServerAssumption

LEMMA OneMore ==
  ASSUME NEW S, S \subseteq Conns, NEW c, c \notin S
  PROVE  Cardinality(S \cup {c}) = Cardinality(S) + 1
BY Bounded, FS_AddElement

LEMMA OneLess ==
  ASSUME NEW S, S \subseteq Conns, NEW c, c \in S
  PROVE  Cardinality(S \ {c}) = Cardinality(S) - 1 /\ Cardinality(S) > 0
<1>1. Cardinality(S \ {c}) = Cardinality(S) - 1
  BY Bounded, FS_RemoveElement
<1>2. Cardinality(S \ {c}) \in Nat
  BY Bounded
<1> QED
  BY <1>1, <1>2, Bounded

(* A larger set of connections has no fewer elements.                       *)
LEMMA NoFewer ==
  ASSUME NEW S, NEW T, S \subseteq T, T \subseteq Conns
  PROVE  Cardinality(S) <= Cardinality(T)
BY Bounded, FS_Subset

-----------------------------------------------------------------------------
(* Counters                                                                 *)

LEMMA CountingInit == ServerInit => Counting
<1> SUFFICES ASSUME ServerInit PROVE Counting
  OBVIOUS
<1>1. StateOK /\ SessionsApart /\ Untold /\ StopsLast
  BY HttpServerAssumption DEF ServerInit, StateOK, SessionsApart, Untold, StopsLast, States, Kind
<1>2. Counted = {} /\ Gauged = {} /\ Opened = {}
  BY DEF ServerInit, Counted, Gauged, Opened, Serving
<1>3. Cardinality(Counted) = 0 /\ Cardinality(Gauged) = 0 /\ Cardinality(Opened) = 0
  BY <1>2, FS_EmptySet
<1>4. Counters
  BY <1>3 DEF ServerInit, Counters
<1> QED
  BY <1>1, <1>4 DEF Counting

(* Every step keeps the states what they may be.                            *)
LEMMA StateNext == StateOK /\ [ServerNext]_serverVars => StateOK'
<1> SUFFICES ASSUME StateOK, [ServerNext]_serverVars PROVE StateOK'
  OBVIOUS
<1> USE HttpServerAssumption DEF StateOK, States, Serving, Goto
<1>1. CASE Shutdown
  BY <1>1 DEF Shutdown, Subscribed
<1>2. CASE Drained
  BY <1>2 DEF Drained, conn
<1>3. ASSUME NEW c \in Conns, Accept(c) \/ Cancel(c) \/ Leave(c) \/ Open(c)
      PROVE  StateOK'
  BY <1>3 DEF Accept, Cancel, Leave, Open
<1>4. ASSUME NEW c \in Conns, NEW k \in Kinds, Receive(c, k)
      PROVE  StateOK'
  BY <1>4 DEF Receive
<1>5. ASSUME NEW c \in Conns, ParseFails(c) \/ Handle(c) \/ Reject(c) \/ Record(c)
      PROVE  StateOK'
  BY <1>5 DEF ParseFails, Handle, Reject, Record
<1>6. ASSUME NEW c \in Conns, OnRequest(c) \/ OnResponse(c)
      PROVE  StateOK'
  BY <1>6 DEF OnRequest, OnResponse
<1>7. ASSUME NEW c \in Conns, Upgrade(c) \/ Write(c)
      PROVE  StateOK'
  BY <1>7 DEF Upgrade, Write
<1>8. ASSUME NEW c \in Conns, StreamEnds(c) \/ Close(c) \/ Unwind(c)
      PROVE  StateOK'
  BY <1>8 DEF StreamEnds, Close, Unwind
<1>9. ASSUME NEW c \in Conns, SessionEnds(c) \/ SessionPanics(c)
      PROVE  StateOK'
  BY <1>9 DEF SessionEnds, SessionPanics
<1>10. CASE UNCHANGED serverVars
  BY <1>10 DEF serverVars, conn
<1> QED
  BY <1>1, <1>2, <1>3, <1>4, <1>5, <1>6, <1>7, <1>8, <1>9, <1>10 DEF ServerNext, ConnStep, Pipeline

(* A task that goes on serving, begins to close or is unwound changes       *)
(* nothing that is counted.                                                 *)
LEMMA StillCounted ==
  ASSUME Counting, StateOK', NEW c \in Conns,
         standing[c] \in Serving, standing'[c] \in Serving \cup {"closing", "unwound"},
         \A d \in Conns \ {c} : standing'[d] = standing[d],
         UNCHANGED <<server, active, gauge, notified, socket>>
  PROVE  Counting'
<1>1. Counted' = Counted /\ Gauged' = Gauged /\ Opened' = Opened
  BY DEF Counted, Gauged, Opened, Serving
<1>2. Counters'
  BY <1>1 DEF Counting, Counters
<1>3. SessionsApart' /\ Untold' /\ StopsLast'
  BY DEF Counting, SessionsApart, Untold, StopsLast, Serving
<1> QED
  BY <1>2, <1>3 DEF Counting

LEMMA CountingAccept ==
  ASSUME Counting, StateOK', NEW c \in Conns, Accept(c)
  PROVE  Counting'
<1>1. /\ server = "serving" /\ standing[c] = "unborn" /\ active' = active + 1
      /\ standing'[c] = "accepted" /\ \A d \in Conns \ {c} : standing'[d] = standing[d]
      /\ UNCHANGED <<server, gauge, notified, socket>>
  BY DEF Accept, Goto, Counting, StateOK
<1>2. Counted' = Counted \cup {c} /\ c \notin Counted /\ Counted \subseteq Conns
  BY <1>1 DEF Counted
<1>3. Gauged' = Gauged /\ Opened' = Opened
  BY <1>1 DEF Gauged, Opened, Serving
<1>4. Counters'
  BY <1>1, <1>2, <1>3, OneMore DEF Counting, Counters
<1>5. SessionsApart' /\ Untold' /\ StopsLast'
  BY <1>1 DEF Counting, SessionsApart, Untold, StopsLast
<1> QED
  BY <1>4, <1>5 DEF Counting

LEMMA CountingLeave ==
  ASSUME Counting, StateOK', NEW c \in Conns, Leave(c)
  PROVE  Counting'
<1>1. /\ standing[c] = "returned" /\ active' = active - 1
      /\ standing'[c] = "gone" /\ \A d \in Conns \ {c} : standing'[d] = standing[d]
      /\ UNCHANGED <<server, gauge, notified, socket>>
  BY DEF Leave, Goto, Counting, StateOK
<1>2. Counted' = Counted \ {c} /\ c \in Counted /\ Counted \subseteq Conns
  BY <1>1 DEF Counted
<1>3. Gauged' = Gauged /\ Opened' = Opened
  BY <1>1 DEF Gauged, Opened, Serving
<1>4. Counters'
  BY <1>1, <1>2, <1>3, OneLess DEF Counting, Counters
<1>5. SessionsApart' /\ Untold' /\ StopsLast'
  BY <1>1 DEF Counting, SessionsApart, Untold, StopsLast
<1> QED
  BY <1>4, <1>5 DEF Counting

(* Once the server stops serving, the gauge keeps what was cancelled.       *)
LEMMA CountingCancel ==
  ASSUME Counting, StateOK', NEW c \in Conns, Cancel(c)
  PROVE  Counting'
<1>1. /\ notified[c] /\ standing[c] \in Serving \cup {"accepted"}
      /\ standing'[c] = "returned" /\ \A d \in Conns \ {c} : standing'[d] = standing[d]
      /\ UNCHANGED <<server, active, gauge, notified, socket>>
  BY DEF Cancel, Goto, Counting, StateOK
<1>2. Counted' = Counted /\ Opened \subseteq Opened' /\ Opened' \subseteq Conns
  BY <1>1 DEF Counted, Opened, Serving
<1>3. /\ Cardinality(Opened) <= Cardinality(Opened')
      /\ Cardinality(Opened) \in Nat /\ Cardinality(Opened') \in Nat
  <2>1. Opened \subseteq Conns
    BY DEF Opened
  <2> QED
    BY <1>2, <2>1, NoFewer, Bounded
<1>4. server # "serving"
  BY <1>1 DEF Counting, Untold
<1>5. Counters'
  BY <1>1, <1>2, <1>3, <1>4 DEF Counting, Counters
<1>6. SessionsApart' /\ Untold' /\ StopsLast'
  BY <1>1 DEF Counting, SessionsApart, Untold, StopsLast, Serving
<1> QED
  BY <1>5, <1>6 DEF Counting

LEMMA CountingOpen ==
  ASSUME Counting, StateOK', NEW c \in Conns, Open(c)
  PROVE  Counting'
<1>1. /\ standing[c] = "accepted" /\ gauge' = gauge + 1
      /\ standing'[c] = "parse" /\ \A d \in Conns \ {c} : standing'[d] = standing[d]
      /\ UNCHANGED <<server, active, notified, socket>>
  BY DEF Open, Goto, Counting, StateOK
<1>2. Counted' = Counted
  BY <1>1 DEF Counted
<1>3. /\ Opened' = Opened \cup {c} /\ c \notin Opened /\ Opened \subseteq Conns
      /\ Gauged' = Gauged \cup {c} /\ c \notin Gauged /\ Gauged \subseteq Conns
  BY <1>1 DEF Opened, Gauged, Serving, Counting, StateOK, SessionsApart
<1>4. Cardinality(Opened') = Cardinality(Opened) + 1 /\ Cardinality(Opened) \in Nat
  BY <1>3, OneMore, Bounded
<1>5. Cardinality(Gauged') = Cardinality(Gauged) + 1
  BY <1>3, OneMore
<1>6. Counters'
  BY <1>1, <1>2, <1>4, <1>5 DEF Counting, Counters
<1>7. SessionsApart' /\ Untold' /\ StopsLast'
  BY <1>1 DEF Counting, SessionsApart, Untold, StopsLast
<1> QED
  BY <1>6, <1>7 DEF Counting

(* A connection that is closed, or a session that ends, leaves the gauge.   *)
LEMMA GaugeLowered ==
  ASSUME Counting, CloseConnection, NEW c \in Gauged,
         Gauged' = Gauged \ {c}, Counted' = Counted, Opened' = Opened,
         UNCHANGED <<server, active>>
  PROVE  Counters'
<1>1. Gauged \subseteq Conns /\ Opened \subseteq Conns
  BY DEF Gauged, Opened
<1>2. Cardinality(Gauged') = Cardinality(Gauged) - 1 /\ Cardinality(Gauged) > 0 /\ Cardinality(Gauged) \in Nat
  BY <1>1, OneLess, Bounded
<1>3. gauge' = IF gauge = 0 THEN 0 ELSE gauge - 1
  BY DEF CloseConnection
<1>4. gauge \in Nat /\ gauge <= Cardinality(Opened) /\ Cardinality(Opened) \in Nat
  BY <1>1, Bounded DEF Counting, Counters
<1>5. gauge' \in Nat /\ gauge' <= Cardinality(Opened')
  BY <1>3, <1>4
<1>6. server' = "serving" => gauge' = Cardinality(Gauged')
  BY <1>2, <1>3 DEF Counting, Counters
<1> QED
  BY <1>5, <1>6 DEF Counting, Counters

LEMMA CountingClose ==
  ASSUME Counting, StateOK', NEW c \in Conns, Close(c)
  PROVE  Counting'
<1>1. /\ standing[c] = "closing" /\ CloseConnection
      /\ standing'[c] = "returned" /\ \A d \in Conns \ {c} : standing'[d] = standing[d]
      /\ UNCHANGED <<server, active, notified, socket>>
  BY DEF Close, Goto, Counting, StateOK
<1>2. Counted' = Counted /\ Opened' = Opened
  BY <1>1 DEF Counted, Opened
<1>3. c \in Gauged /\ Gauged' = Gauged \ {c}
  BY <1>1 DEF Gauged, Serving, Counting, StateOK, SessionsApart
<1>4. Counters'
  BY <1>1, <1>2, <1>3, GaugeLowered
<1>5. SessionsApart' /\ Untold' /\ StopsLast'
  BY <1>1 DEF Counting, SessionsApart, Untold, StopsLast
<1> QED
  BY <1>4, <1>5 DEF Counting

LEMMA CountingSessionEnds ==
  ASSUME Counting, StateOK', NEW c \in Conns, SessionEnds(c)
  PROVE  Counting'
<1>1. /\ socket[c] = "open" /\ CloseConnection
      /\ socket'[c] = "over" /\ \A d \in Conns \ {c} : socket'[d] = socket[d]
      /\ UNCHANGED <<server, active, notified, standing>>
  BY DEF SessionEnds, Counting, StateOK
<1>2. Counted' = Counted /\ Opened' = Opened
  BY <1>1 DEF Counted, Opened
<1>3. c \in Gauged /\ Gauged' = Gauged \ {c}
  BY <1>1 DEF Gauged, Serving, Counting, StateOK, SessionsApart
<1>4. Counters'
  BY <1>1, <1>2, <1>3, GaugeLowered
<1>5. SessionsApart' /\ Untold' /\ StopsLast'
  BY <1>1 DEF Counting, SessionsApart, Untold, StopsLast
<1> QED
  BY <1>4, <1>5 DEF Counting

(* The connection lives on as a session, or its session panics.             *)
LEMMA CountingSession ==
  ASSUME Counting, StateOK', NEW c \in Conns,
         \/ /\ standing[c] \in Serving /\ standing'[c] = "returned" /\ socket'[c] = "open"
         \/ /\ standing'[c] = standing[c] /\ socket[c] = "open" /\ socket'[c] = "panicked",
         \A d \in Conns \ {c} : standing'[d] = standing[d] /\ socket'[d] = socket[d],
         UNCHANGED <<server, active, gauge, notified>>
  PROVE  Counting'
<1>1. Counted' = Counted /\ Gauged' = Gauged /\ Opened' = Opened
  BY DEF Counted, Gauged, Opened, Serving
<1>2. Counters'
  BY <1>1 DEF Counting, Counters
<1>3. SessionsApart' /\ Untold' /\ StopsLast'
  BY DEF Counting, SessionsApart, Untold, StopsLast, Serving
<1> QED
  BY <1>2, <1>3 DEF Counting

(* The server stops when nothing is counted, so when nothing is served.     *)
LEMMA CountingStops ==
  ASSUME Counting, StateOK', Shutdown \/ Drained
  PROVE  Counting'
<1>1. Counted' = Counted /\ Opened' = Opened /\ UNCHANGED <<active, gauge, standing, socket>> /\ server' # "serving"
  BY DEF Shutdown, Drained, conn, Counted, Opened
<1>2. Counters' /\ SessionsApart' /\ Untold'
  BY <1>1 DEF Counting, Counters, SessionsApart, Untold
<1>3. StopsLast'
  <2>1. CASE Shutdown
    BY <2>1 DEF Shutdown, StopsLast
  <2>2. CASE Drained
    <3>1. Cardinality(Counted) = 0 /\ Counted \subseteq Conns
      BY <2>2 DEF Drained, Counting, Counters, Counted
    <3>2. Counted = {}
      BY <3>1, Bounded, FS_EmptySet
    <3> QED
      BY <1>1, <3>2 DEF Counted, StopsLast
  <2> QED
    BY <2>1, <2>2
<1> QED
  BY <1>2, <1>3 DEF Counting

LEMMA CountingNext == Counting /\ [ServerNext]_serverVars => Counting'
<1> SUFFICES ASSUME Counting, [ServerNext]_serverVars PROVE Counting'
  OBVIOUS
<1>1. StateOK' /\ standing \in [Conns -> States] /\ socket \in [Conns -> {"none", "open", "over", "panicked"}]
  BY StateNext DEF Counting, StateOK
<1>2. CASE Shutdown \/ Drained
  BY <1>1, <1>2, CountingStops
<1>3. ASSUME NEW c \in Conns, Accept(c) \/ Cancel(c) \/ Leave(c) \/ Open(c) \/ Close(c) \/ SessionEnds(c)
      PROVE  Counting'
  BY <1>1, <1>3, CountingAccept, CountingCancel, CountingLeave, CountingOpen, CountingClose, CountingSessionEnds
<1>4. ASSUME NEW c \in Conns, SessionPanics(c)
      PROVE  Counting'
  <2>1. /\ standing' = standing /\ socket[c] = "open" /\ socket'[c] = "panicked"
        /\ \A d \in Conns \ {c} : socket'[d] = socket[d]
        /\ UNCHANGED <<server, active, gauge, notified>>
    BY <1>1, <1>4 DEF SessionPanics
  <2> QED
    BY <1>1, <2>1, CountingSession
<1>5. ASSUME NEW c \in Conns, Upgrade(c)
      PROVE  Counting'
  <2>1. /\ standing[c] \in Serving /\ \A d \in Conns \ {c} : standing'[d] = standing[d] /\ socket'[d] = socket[d]
        /\ UNCHANGED <<server, active, gauge, notified>>
        /\ \/ standing'[c] = "returned" /\ socket'[c] = "open"
           \/ standing'[c] = "closing" /\ socket' = socket
    BY <1>1, <1>5 DEF Upgrade, Passed, Goto, Serving
  <2> QED
    BY <1>1, <2>1, CountingSession, StillCounted
<1>6. ASSUME NEW c \in Conns,
             /\ standing[c] \in Serving /\ \E state \in Serving \cup {"closing", "unwound"} : Goto(c, state)
             /\ UNCHANGED <<server, active, gauge, notified, socket>>
      PROVE  Counting'
  <2>1. standing'[c] \in Serving \cup {"closing", "unwound"} /\ \A d \in Conns \ {c} : standing'[d] = standing[d]
    BY <1>1, <1>6 DEF Goto
  <2> QED
    BY <1>1, <1>6, <2>1, StillCounted
<1>7. ASSUME NEW c \in Conns, ParseFails(c) \/ OnRequest(c) \/ Handle(c) \/ Reject(c) \/ Record(c)
      PROVE  Counting'
  BY <1>6, <1>7 DEF ParseFails, OnRequest, Handle, Reject, Record, Passed, Serving
<1>8. ASSUME NEW c \in Conns, Write(c) \/ StreamEnds(c) \/ Unwind(c)
      PROVE  Counting'
  BY <1>6, <1>8 DEF Write, StreamEnds, Unwind, Serving
<1>9. ASSUME NEW c \in Conns, NEW k \in Kinds, Receive(c, k)
      PROVE  Counting'
  BY <1>6, <1>9 DEF Receive, Serving
<1>10. ASSUME NEW c \in Conns, OnResponse(c)
       PROVE  Counting'
  <2>1. Goto(c, "onResponse") /\ standing[c] \in Serving /\ UNCHANGED <<server, active, gauge, notified, socket>>
    BY <1>1, <1>10 DEF OnResponse, Goto, Serving
  <2> QED
    BY <1>6, <2>1 DEF Serving
<1>11. CASE UNCHANGED serverVars
  <2>1. Counted' = Counted /\ Gauged' = Gauged /\ Opened' = Opened
    BY <1>11 DEF serverVars, conn, Counted, Gauged, Opened
  <2> QED
    BY <1>1, <1>11, <2>1 DEF serverVars, conn, Counting, SessionsApart, Untold, StopsLast, Counters
<1> QED
  BY <1>2, <1>3, <1>4, <1>5, <1>7, <1>8, <1>9, <1>10, <1>11 DEF ServerNext, ConnStep, Pipeline

-----------------------------------------------------------------------------
(* What is done for a request                                               *)

(* The request phases of the first k middlewares, the handler, and the      *)
(* first j response phases after k middlewares ran.                         *)
Requested(k) == [i \in 1..k |-> <<"onRequest", i>>]
Served(handled) == IF handled THEN << <<"handler", 0>> >> ELSE << >>
Responded(k, j) == [i \in 1..j |-> <<"onResponse", k + 1 - i>>]

Inside(k, handled, j) == Requested(k) \o Served(handled) \o Responded(k, j)

Entry == Stages \X (0..Middlewares)

(* Where the request of c stands in its onion.                              *)
Layers(c) ==
  /\ trace[c] \in Seq(Entry)
  /\ standing[c] = "onRequest" => trace[c] = Requested(mw[c])
  /\ standing[c] = "onResponse" => \E k \in 0..Middlewares, handled \in BOOLEAN :
        /\ handled => k = Middlewares
        /\ mw[c] <= k
        /\ trace[c] = Inside(k, handled, k - mw[c])
  /\ standing[c] = "write" => \E k \in 0..Middlewares, handled \in BOOLEAN :
        /\ handled => k = Middlewares
        /\ trace[c] = Append(Inside(k, handled, k), <<"record", 0>>)
  /\ Answered(c) =>
       \/ CutShort(c)
       \/ \E k \in 0..Middlewares, handled \in BOOLEAN :
            (handled => k = Middlewares) /\ trace[c] = Onion(k, handled)

Layered == \A c \in Conns : Layers(c)

(* The stages of the middlewares that ran are entries of the trace.         *)
LEMMA Stagewise ==
  ASSUME NEW k \in 0..Middlewares, NEW handled \in BOOLEAN, NEW j \in 0..k
  PROVE  /\ Requested(k) \in Seq(Entry) /\ Served(handled) \in Seq(Entry) /\ Responded(k, j) \in Seq(Entry)
         /\ Inside(k, handled, j) \in Seq(Entry)
         /\ Len(Requested(k)) = k /\ Len(Responded(k, j)) = j
<1> USE HttpServerAssumption
<1>1. Requested(k) \in Seq(Entry) /\ Len(Requested(k)) = k
  <2>1. \A i \in 1..k : <<"onRequest", i>> \in Entry
    BY DEF Entry, Stages
  <2> QED
    BY <2>1 DEF Requested
<1>2. Responded(k, j) \in Seq(Entry) /\ Len(Responded(k, j)) = j
  <2>1. \A i \in 1..j : <<"onResponse", k + 1 - i>> \in Entry
    BY DEF Entry, Stages
  <2> QED
    BY <2>1 DEF Responded
<1>3. Served(handled) \in Seq(Entry)
  <2>1. <<"handler", 0>> \in Entry
    BY DEF Entry, Stages
  <2> QED
    BY <2>1 DEF Served
<1> QED
  BY <1>1, <1>2, <1>3 DEF Inside

LEMMA RequestedType ==
  ASSUME NEW k \in 0..Middlewares
  PROVE  Requested(k) \in Seq(Entry) /\ Served(FALSE) = << >> /\ Responded(k, 0) = << >>
<1>1. Requested(k) \in Seq(Entry)
  BY Stagewise, HttpServerAssumption
<1> QED
  BY <1>1 DEF Served, Responded

(* What has been appended, and what stays a sequence of entries.            *)
LEMMA Appended ==
  ASSUME NEW s \in Seq(Entry), NEW e \in Entry
  PROVE  Append(s, e) = s \o <<e>> /\ Append(s, e) \in Seq(Entry) /\ (s \o <<e>>) \o << >> = s \o <<e>>
OBVIOUS

LEMMA Unextended ==
  ASSUME NEW s \in Seq(Entry)
  PROVE  (s \o << >>) \o << >> = s
OBVIOUS

(* One request phase more.                                                  *)
LEMMA RequestPhase ==
  ASSUME NEW k \in Nat
  PROVE  Append(Requested(k), <<"onRequest", k + 1>>) = Requested(k + 1)
BY DEF Requested

(* One response phase more.                                                 *)
LEMMA ResponsePhase ==
  ASSUME NEW k \in 0..Middlewares, NEW handled \in BOOLEAN, NEW j \in 0..k, j < k
  PROVE  Append(Inside(k, handled, j), <<"onResponse", k - j>>) = Inside(k, handled, j + 1)
<1> USE HttpServerAssumption
<1>1. Append(Responded(k, j), <<"onResponse", k - j>>) = Responded(k, j + 1)
  BY DEF Responded
<1>2. PICK s : s = Requested(k) \o Served(handled)
  OBVIOUS
<1>3. PICK t : t = Responded(k, j)
  OBVIOUS
<1>4. PICK e : e = <<"onResponse", k - j>>
  OBVIOUS
<1>5. s \in Seq(Entry) /\ t \in Seq(Entry) /\ e \in Entry
  <2>1. e \in Entry
    BY <1>4 DEF Entry, Stages
  <2>2. Requested(k) \in Seq(Entry) /\ Served(handled) \in Seq(Entry) /\ t \in Seq(Entry)
    BY <1>3, Stagewise
  <2> QED
    BY <1>2, <2>1, <2>2
<1>6. Append(s \o t, e) = s \o Append(t, e)
  BY <1>5
<1> QED
  BY <1>1, <1>2, <1>3, <1>4, <1>6 DEF Inside

(* The log, the hooks and the counters, then the answer close the onion.    *)
LEMMA Closing ==
  ASSUME NEW k \in 0..Middlewares, NEW handled \in BOOLEAN
  PROVE  Append(Append(Inside(k, handled, k), <<"record", 0>>), <<"answer", 0>>) = Onion(k, handled)
<1> USE HttpServerAssumption
<1>1. PICK s : s = Inside(k, handled, k)
  OBVIOUS
<1>2. PICK d : d = <<"record", 0>>
  OBVIOUS
<1>3. PICK e : e = <<"answer", 0>>
  OBVIOUS
<1>4. s \in Seq(Entry) /\ d \in Entry /\ e \in Entry
  BY <1>1, <1>2, <1>3, Stagewise DEF Entry, Stages
<1>5. Append(Append(s, d), e) = s \o <<d, e>>
  BY <1>4
<1> QED
  BY <1>1, <1>2, <1>3, <1>5 DEF Onion, Inside, Requested, Served, Responded

(* What was done last tells whether the request is answered.                *)
LEMMA Latest ==
  ASSUME NEW c \in Conns, NEW s \in Seq(Entry), NEW e \in Entry, trace'[c] = Append(s, e)
  PROVE  Answered(c)' <=> e = <<"answer", 0>>
<1>1. Append(s, e) # << >> /\ Append(s, e)[Len(Append(s, e))] = e
  OBVIOUS
<1> QED
  BY <1>1 DEF Answered, Last

-----------------------------------------------------------------------------
(* Every step adds to the trace what comes next                             *)

LEMMA LayeredInit == ServerInit => Layered
BY DEF ServerInit, Layered, Layers, Answered

(* A step that does nothing for the request, and ends in no stage of the    *)
(* pipeline it was not in.                                                  *)
LEMMA LayersStay ==
  ASSUME NEW c \in Conns, Layers(c), trace'[c] = trace[c], kind'[c] = kind[c],
         \/ standing'[c] = standing[c] /\ mw'[c] = mw[c]
         \/ standing'[c] \notin {"onRequest", "onResponse", "write"}
  PROVE  Layers(c)'
BY DEF Layers, Answered, CutShort

(* The steps of the task of c that are about its request.                   *)
LEMMA LayersReceive ==
  ASSUME StateOK, NEW c \in Conns, trace \in [Conns -> Seq(Entry)], NEW k \in Kinds, Receive(c, k)
  PROVE  Layers(c)'
<1>1. trace'[c] = << >> /\ standing'[c] = "onRequest" /\ mw'[c] = 0
  BY DEF Receive, Goto, StateOK
<1>2. Requested(0) = << >>
  BY DEF Requested
<1> QED
  BY <1>1, <1>2 DEF Layers, Answered

LEMMA LayersOnRequest ==
  ASSUME StateOK, NEW c \in Conns, Layers(c), trace \in [Conns -> Seq(Entry)], OnRequest(c)
  PROVE  Layers(c)'
<1>1. /\ mw[c] \in 0..Middlewares /\ mw[c] < Middlewares /\ mw'[c] = mw[c] + 1
      /\ trace[c] = Requested(mw[c]) /\ trace'[c] = Append(trace[c], <<"onRequest", mw[c] + 1>>)
      /\ standing'[c] \in {"onRequest", "onResponse"}
  BY DEF OnRequest, Goto, Did, StateOK, Layers
<1>2. PICK k : k = mw[c] + 1
  OBVIOUS
<1>3. k \in 0..Middlewares /\ k \in 1..Middlewares /\ trace'[c] = Requested(k) /\ mw'[c] = k
  <2>1. Append(Requested(mw[c]), <<"onRequest", mw[c] + 1>>) = Requested(mw[c] + 1)
    <3>1. mw[c] \in Nat
      BY <1>1, HttpServerAssumption
    <3> QED
      BY <3>1, RequestPhase
  <2> QED
    BY <1>1, <1>2, <2>1, HttpServerAssumption
<1>4. ~ Answered(c)'
  <2>1. <<"onRequest", k>> \in Entry /\ <<"onRequest", k>> # <<"answer", 0>>
    BY <1>3, HttpServerAssumption DEF Entry, Stages
  <2>2. trace[c] \in Seq(Entry)
    OBVIOUS
  <2> QED
    BY <1>1, <1>2, <2>1, <2>2, Latest
<1>5. Requested(k) = Inside(k, FALSE, 0) /\ k - k = 0
  <2>1. PICK s : s = Requested(k)
    OBVIOUS
  <2>2. s \in Seq(Entry) /\ Inside(k, FALSE, 0) = (s \o << >>) \o << >>
    BY <1>3, <2>1, RequestedType DEF Inside
  <2>3. (s \o << >>) \o << >> = s
    BY <2>2, Unextended
  <2>4. k - k = 0
    BY <1>3, HttpServerAssumption
  <2> QED
    BY <2>1, <2>2, <2>3, <2>4
<1>6. Requested(k) \in Seq(Entry)
  BY <1>3, RequestedType
<1>7. /\ trace'[c] \in Seq(Entry) /\ mw'[c] <= k /\ k - mw'[c] = 0 /\ FALSE \in BOOLEAN
      /\ trace'[c] = Inside(k, FALSE, k - mw'[c])
  <2>1. mw'[c] = k /\ mw'[c] <= k /\ k - mw'[c] = 0
    BY <1>3, HttpServerAssumption
  <2> QED
    BY <1>3, <1>5, <1>6, <2>1
<1>8. standing'[c] # "write" /\ (standing'[c] = "onRequest" => trace'[c] = Requested(mw'[c]))
  BY <1>1, <1>3
<1>9. \E l \in 0..Middlewares, handled \in BOOLEAN :
        /\ handled => l = Middlewares
        /\ mw'[c] <= l
        /\ trace'[c] = Inside(l, handled, l - mw'[c])
  BY <1>3, <1>7
<1> QED
  BY <1>4, <1>7, <1>8, <1>9 DEF Layers

LEMMA LayersHandle ==
  ASSUME StateOK, NEW c \in Conns, Layers(c), trace \in [Conns -> Seq(Entry)], Handle(c)
  PROVE  Layers(c)'
<1>1. /\ mw[c] = Middlewares /\ mw'[c] = Middlewares /\ standing'[c] = "onResponse"
      /\ trace[c] = Requested(Middlewares) /\ trace'[c] = Append(trace[c], <<"handler", 0>>)
  BY DEF Handle, Passed, Goto, Did, StateOK, Layers
<1>2. <<"handler", 0>> \in Entry /\ <<"handler", 0>> # <<"answer", 0>> /\ Middlewares \in 0..Middlewares
  BY HttpServerAssumption DEF Entry, Stages
<1>3. ~ Answered(c)' /\ trace'[c] \in Seq(Entry)
  <2>1. trace[c] \in Seq(Entry)
    OBVIOUS
  <2> QED
    BY <1>1, <1>2, <2>1, Latest, Appended
<1>4. Append(Requested(Middlewares), <<"handler", 0>>) = Inside(Middlewares, TRUE, 0)
  <2>1. PICK s : s = Requested(Middlewares)
    OBVIOUS
  <2>2. PICK e : e = <<"handler", 0>>
    OBVIOUS
  <2>3. s \in Seq(Entry) /\ e \in Entry
    BY <1>2, <2>1, <2>2, RequestedType
  <2>4. Served(TRUE) = <<e>> /\ Responded(Middlewares, 0) = << >>
    BY <1>2, <2>2, RequestedType DEF Served
  <2>5. Inside(Middlewares, TRUE, 0) = (s \o <<e>>) \o << >>
    BY <2>1, <2>4 DEF Inside
  <2>6. Append(s, e) = s \o <<e>> /\ (s \o <<e>>) \o << >> = s \o <<e>>
    BY <2>3, Appended
  <2> QED
    BY <2>1, <2>2, <2>5, <2>6
<1>5. Middlewares - mw'[c] = 0 /\ mw'[c] <= Middlewares
  BY <1>1, HttpServerAssumption
<1> QED
  BY <1>1, <1>2, <1>3, <1>4, <1>5 DEF Layers

LEMMA LayersReject ==
  ASSUME StateOK, NEW c \in Conns, Layers(c), trace \in [Conns -> Seq(Entry)], Reject(c)
  PROVE  Layers(c)'
<1>1. /\ kind[c] = "rejected" /\ kind'[c] = "rejected" /\ standing'[c] = "closing"
      /\ trace[c] = Requested(Middlewares) /\ trace'[c] = Append(trace[c], <<"answer", 0>>)
  BY DEF Reject, Passed, Goto, Did, StateOK, Layers
<1>2. Requested(Middlewares) \in Seq(Entry) /\ <<"answer", 0>> \in Entry
  <2>1. Middlewares \in 0..Middlewares
    BY HttpServerAssumption
  <2>2. Requested(Middlewares) \in Seq(Entry)
    BY <2>1, RequestedType
  <2> QED
    BY <2>2, HttpServerAssumption DEF Entry, Stages
<1>3. trace'[c] = Requested(Middlewares) \o << <<"answer", 0>> >> /\ trace'[c] \in Seq(Entry)
  BY <1>1, <1>2, Appended
<1>4. CutShort(c)'
  BY <1>1, <1>3 DEF CutShort, Requested
<1> QED
  BY <1>1, <1>3, <1>4 DEF Layers

LEMMA LayersOnResponse ==
  ASSUME StateOK, NEW c \in Conns, Layers(c), trace \in [Conns -> Seq(Entry)], OnResponse(c)
  PROVE  Layers(c)'
<1>1. /\ mw[c] \in 0..Middlewares /\ mw[c] > 0 /\ mw'[c] = mw[c] - 1 /\ standing[c] = "onResponse" /\ standing'[c] = standing[c]
      /\ trace'[c] = Append(trace[c], <<"onResponse", mw[c]>>)
  BY DEF OnResponse, Did, StateOK
<1>2. PICK k \in 0..Middlewares, handled \in BOOLEAN :
        (handled => k = Middlewares) /\ mw[c] <= k /\ trace[c] = Inside(k, handled, k - mw[c])
  BY <1>1 DEF Layers
<1>3. PICK j : j = k - mw[c]
  OBVIOUS
<1>4. j \in 0..k /\ j < k /\ k - j = mw[c] /\ j + 1 = k - mw'[c] /\ mw'[c] <= k
  BY <1>1, <1>2, <1>3, HttpServerAssumption
<1>5. trace'[c] = Inside(k, handled, j + 1)
  BY <1>1, <1>2, <1>3, <1>4, ResponsePhase
<1>6. <<"onResponse", mw[c]>> \in Entry /\ <<"onResponse", mw[c]>> # <<"answer", 0>>
  BY <1>1 DEF Entry, Stages
<1>7. ~ Answered(c)' /\ trace'[c] \in Seq(Entry)
  <2>1. trace[c] \in Seq(Entry)
    OBVIOUS
  <2> QED
    BY <1>1, <1>6, <2>1, Latest, Appended
<1> QED
  BY <1>1, <1>2, <1>4, <1>5, <1>7 DEF Layers

LEMMA LayersRecord ==
  ASSUME StateOK, NEW c \in Conns, Layers(c), trace \in [Conns -> Seq(Entry)], Record(c)
  PROVE  Layers(c)'
<1>1. /\ mw[c] = 0 /\ standing[c] = "onResponse" /\ standing'[c] = "write"
      /\ trace'[c] = Append(trace[c], <<"record", 0>>)
  BY DEF Record, Goto, Did, StateOK
<1>2. PICK k \in 0..Middlewares, handled \in BOOLEAN :
        (handled => k = Middlewares) /\ trace[c] = Inside(k, handled, k - mw[c])
  BY <1>1 DEF Layers
<1>3. k - mw[c] = k
  BY <1>1, <1>2
<1>4. <<"record", 0>> \in Entry /\ <<"record", 0>> # <<"answer", 0>>
  BY HttpServerAssumption DEF Entry, Stages
<1>5. ~ Answered(c)' /\ trace'[c] \in Seq(Entry)
  <2>1. trace[c] \in Seq(Entry)
    OBVIOUS
  <2> QED
    BY <1>1, <1>4, <2>1, Latest, Appended
<1> QED
  BY <1>1, <1>2, <1>3, <1>5 DEF Layers

LEMMA LayersWrite ==
  ASSUME StateOK, NEW c \in Conns, Layers(c), trace \in [Conns -> Seq(Entry)], Write(c)
  PROVE  Layers(c)'
<1>1. /\ standing[c] = "write" /\ standing'[c] \in {"parse", "closing", "stream"}
      /\ trace'[c] = Append(trace[c], <<"answer", 0>>)
  BY DEF Write, Goto, Did, StateOK
<1>2. PICK k \in 0..Middlewares, handled \in BOOLEAN :
        (handled => k = Middlewares) /\ trace[c] = Append(Inside(k, handled, k), <<"record", 0>>)
  BY <1>1 DEF Layers
<1>3. trace'[c] = Onion(k, handled)
  BY <1>1, <1>2, Closing
<1>4. trace'[c] \in Seq(Entry)
  <2>1. <<"answer", 0>> \in Entry
    BY HttpServerAssumption DEF Entry, Stages
  <2> QED
    BY <1>1, <2>1
<1> QED
  BY <1>1, <1>2, <1>3, <1>4 DEF Layers

LEMMA LayeredNext == StateOK /\ Layered /\ trace \in [Conns -> Seq(Entry)] /\ [ServerNext]_serverVars => Layered' 
<1> SUFFICES ASSUME StateOK, Layered, trace \in [Conns -> Seq(Entry)], [ServerNext]_serverVars, NEW d \in Conns
             PROVE  Layers(d)'
  BY DEF Layered
<1>1. Layers(d) /\ standing \in [Conns -> States] /\ DOMAIN mw = Conns /\ DOMAIN kind = Conns
  BY DEF Layered, StateOK
<1>2. CASE Shutdown \/ Drained
  BY <1>1, <1>2, LayersStay DEF Shutdown, Drained, conn
<1>3. ASSUME NEW c \in Conns,
             UNCHANGED <<trace, kind, mw>>,
             standing' = standing \/ \E state \in States \ {"onRequest", "onResponse", "write"} : Goto(c, state)
      PROVE  Layers(d)'
  BY <1>1, <1>3, LayersStay DEF Goto
<1>4. ASSUME NEW c \in Conns, Accept(c) \/ Cancel(c) \/ Leave(c) \/ Open(c) \/ ParseFails(c)
      PROVE  Layers(d)'
  BY <1>3, <1>4 DEF Accept, Cancel, Leave, Open, ParseFails, States, Serving
<1>5. ASSUME NEW c \in Conns, Upgrade(c) \/ StreamEnds(c) \/ Close(c) \/ Unwind(c)
      PROVE  Layers(d)'
  BY <1>3, <1>5 DEF Upgrade, StreamEnds, Close, Unwind, States, Serving
<1>6. ASSUME NEW c \in Conns, SessionEnds(c) \/ SessionPanics(c)
      PROVE  Layers(d)'
  BY <1>3, <1>6 DEF SessionEnds, SessionPanics
<1>7. ASSUME NEW c \in Conns, NEW k \in Kinds, Receive(c, k)
      PROVE  Layers(d)'
  <2>1. d # c => trace'[d] = trace[d] /\ kind'[d] = kind[d] /\ standing'[d] = standing[d] /\ mw'[d] = mw[d]
    BY <1>1, <1>7 DEF Receive, Goto
  <2> QED
    BY <1>1, <1>7, <2>1, LayersStay, LayersReceive
<1>8. ASSUME NEW c \in Conns, OnRequest(c) \/ OnResponse(c)
      PROVE  Layers(d)'
  <2>1. d # c => trace'[d] = trace[d] /\ kind'[d] = kind[d] /\ standing'[d] = standing[d] /\ mw'[d] = mw[d]
    BY <1>1, <1>8 DEF OnRequest, OnResponse, Goto, Did
  <2> QED
    BY <1>1, <1>8, <2>1, LayersStay, LayersOnRequest, LayersOnResponse
<1>9. ASSUME NEW c \in Conns, Handle(c) \/ Reject(c) \/ Record(c) \/ Write(c)
      PROVE  Layers(d)'
  <2>1. d # c => trace'[d] = trace[d] /\ kind'[d] = kind[d] /\ standing'[d] = standing[d] /\ mw'[d] = mw[d]
    BY <1>1, <1>9 DEF Handle, Reject, Record, Write, Goto, Did
  <2> QED
    BY <1>1, <1>9, <2>1, LayersStay, LayersHandle, LayersReject, LayersRecord, LayersWrite
<1>10. CASE UNCHANGED serverVars
  BY <1>1, <1>10, LayersStay DEF serverVars, conn
<1> QED
  BY <1>2, <1>4, <1>5, <1>6, <1>7, <1>8, <1>9, <1>10 DEF ServerNext, ConnStep, Pipeline

(* The trace of a connection stays a sequence of entries, and another's as  *)
(* it was.                                                                  *)
LEMMA TraceNext == StateOK /\ trace \in [Conns -> Seq(Entry)] /\ [ServerNext]_serverVars => trace' \in [Conns -> Seq(Entry)]
<1> SUFFICES ASSUME StateOK, trace \in [Conns -> Seq(Entry)], [ServerNext]_serverVars
             PROVE  trace' \in [Conns -> Seq(Entry)]
  OBVIOUS
<1>1. ASSUME NEW c \in Conns, NEW e \in Entry, trace' = [trace EXCEPT ![c] = Append(@, e)]
      PROVE  trace' \in [Conns -> Seq(Entry)]
  BY <1>1
<1>2. CASE Shutdown \/ Drained
  BY <1>2 DEF Shutdown, Drained, conn
<1>3. ASSUME NEW c \in Conns, Accept(c) \/ Cancel(c) \/ Leave(c) \/ Open(c) \/ ParseFails(c) \/ Upgrade(c)
      PROVE  trace' \in [Conns -> Seq(Entry)]
  BY <1>3 DEF Accept, Cancel, Leave, Open, ParseFails, Upgrade
<1>4. ASSUME NEW c \in Conns, StreamEnds(c) \/ Close(c) \/ Unwind(c) \/ SessionEnds(c) \/ SessionPanics(c)
      PROVE  trace' \in [Conns -> Seq(Entry)]
  BY <1>4 DEF StreamEnds, Close, Unwind, SessionEnds, SessionPanics
<1>5. ASSUME NEW c \in Conns, NEW k \in Kinds, Receive(c, k)
      PROVE  trace' \in [Conns -> Seq(Entry)]
  BY <1>5 DEF Receive
<1>6. ASSUME NEW c \in Conns, OnRequest(c) \/ OnResponse(c)
      PROVE  trace' \in [Conns -> Seq(Entry)]
  <2>1. \E e \in Entry : trace' = [trace EXCEPT ![c] = Append(@, e)]
    <3>1. mw[c] \in 0..Middlewares /\ <<"onResponse", mw[c]>> \in Entry
      BY DEF StateOK, Entry, Stages
    <3>2. mw[c] < Middlewares => <<"onRequest", mw[c] + 1>> \in Entry
      BY <3>1, HttpServerAssumption DEF Entry, Stages
    <3> QED
      BY <1>6, <3>1, <3>2 DEF OnRequest, OnResponse, Did
  <2> QED
    BY <1>1, <2>1
<1>7. ASSUME NEW c \in Conns, Handle(c) \/ Reject(c) \/ Record(c) \/ Write(c)
      PROVE  trace' \in [Conns -> Seq(Entry)]
  <2>1. {<<"handler", 0>>, <<"answer", 0>>, <<"record", 0>>} \subseteq Entry
    BY HttpServerAssumption DEF Entry, Stages
  <2>2. \E e \in Entry : trace' = [trace EXCEPT ![c] = Append(@, e)]
    BY <1>7, <2>1 DEF Handle, Reject, Record, Write, Did
  <2> QED
    BY <1>1, <2>2
<1>8. CASE UNCHANGED serverVars
  BY <1>8 DEF serverVars, conn
<1> QED
  BY <1>2, <1>3, <1>4, <1>5, <1>6, <1>7, <1>8 DEF ServerNext, ConnStep, Pipeline

-----------------------------------------------------------------------------
(* Theorems                                                                 *)
IInv == Counting /\ trace \in [Conns -> Seq(Entry)] /\ Layered

(* The inductive invariant holds in every state of every behaviour.         *)
THEOREM Invariant == ServerSpec => []IInv
<1>1. ServerInit => IInv
  <2>1. ServerInit => trace \in [Conns -> Seq(Entry)]
    BY DEF ServerInit
  <2> QED
    BY <2>1, CountingInit, LayeredInit DEF IInv
<1>2. IInv /\ [ServerNext]_serverVars => IInv'
  BY CountingNext, LayeredNext, TraceNext DEF IInv, Counting
<1> QED
  BY <1>1, <1>2, PTL DEF ServerSpec

(* While the server serves, the gauge counts the connections it serves and  *)
(* the sessions they turned into, whatever way each of them goes; it stops  *)
(* only when no task is left that serves one; and both counters stay within *)
(* the number of connections, so neither ever wraps around.                 *)
THEOREM CountsSound == ServerSpec => []CountsAreTrue
<1>1. IInv => CountsAreTrue
  <2> SUFFICES ASSUME IInv PROVE CountsAreTrue
    OBVIOUS
  <2>1. Counted \subseteq Conns /\ Opened \subseteq Conns
    BY DEF Counted, Opened
  <2>2. active \in 0..Cardinality(Conns) /\ gauge \in 0..Cardinality(Conns)
    <3>1. /\ Cardinality(Counted) <= Cardinality(Conns) /\ Cardinality(Opened) <= Cardinality(Conns)
          /\ Cardinality(Counted) \in Nat /\ Cardinality(Opened) \in Nat /\ Cardinality(Conns) \in Nat
      BY <2>1, Bounded
    <3> QED
      BY <3>1 DEF IInv, Counting, Counters
  <2>3. ServerTypeOK
    BY <2>2 DEF IInv, Counting, StateOK, ServerTypeOK, Entry
  <2>4. GaugeExact
    BY DEF IInv, Counting, Counters, GaugeExact, Gauged
  <2> QED
    BY <2>3, <2>4 DEF CountsAreTrue, IInv, Counting
<1> QED
  BY <1>1, Invariant, PTL

(* An answered request has gone through on_response of the middlewares      *)
(* whose on_request ran, in reverse, before it was logged and counted; the  *)
(* one exception is the 400 or 426 at a WebSocket path.                     *)
THEOREM OnionSound == ServerSpec => []OnionOrder
<1>1. IInv => OnionOrder
  BY DEF IInv, Layered, Layers, OnionOrder
<1> QED
  BY <1>1, Invariant, PTL
-----------------------------------------------------------------------------
(***************************************************************************)
(* The messages on a connection (HttpWire)                                 *)
(***************************************************************************)
(* The wire: pieces arrive in the order of the stream.                      *)
Before(p, q) == p.req < q.req \/ (p.req = q.req /\ p.at < q.at)
Genuine(p) == p.req \in 1..Len(wire.script) /\ p.at \in 1..Size(p.req) /\ p = Piece(p.req, p.at)

Tokens == [req : Nat, at : Nat, part : {"head", "blank", "body"}]
Parses == [start : Nat, owner : Nat, body : Seq(Tokens), close : BOOLEAN, eof : BOOLEAN]
Answers == [status : {100, 200, 400}, to : Nat]
Wires ==
  [script : Seq(Shape), polite : BOOLEAN, next : [req : Nat \ {0}, at : Nat \ {0}], eof : BOOLEAN,
   inbound : Seq(Tokens), buf : Seq(Tokens), pc : {"read", "handle", "closed"}, request : Parses,
   out : Seq(Answers), handled : Seq(Parses)]

(* What the server has of the stream and has not yet parsed or dropped.     *)
Line == wire.buf \o wire.inbound

InLine ==
  /\ wire.next.req <= Len(wire.script) => wire.next.at <= Size(wire.next.req)
  /\ \A i \in 1..Len(Line) : Genuine(Line[i]) /\ Before(Line[i], wire.next)
  /\ \A i, j \in 1..Len(Line) : i < j => Before(Line[i], Line[j])

(* The blank line of request r is behind all pieces of s and all to come.   *)
BlankOf(r) == [req |-> r, at |-> wire.script[r].head + 1]
Past(r, s) ==
  /\ r \in 1..Len(wire.script)
  /\ Before(BlankOf(r), wire.next) /\ \A i \in 1..Len(s) : Before(BlankOf(r), s[i])

(* Nothing answered is to come again.                                       *)
Fresh ==
  /\ \A a, b \in Replies : a < b => wire.out[a].to < wire.out[b].to
  /\ \A a \in DOMAIN wire.out : wire.out[a].status = 400 => a = Len(wire.out) /\ wire.pc = "closed"
  /\ wire.pc = "read" => \A a \in Replies : Past(wire.out[a].to, Line)
  /\ wire.pc = "handle" =>
       Past(wire.request.owner, wire.inbound) /\ \A a \in Replies : wire.out[a].to \in 1..(wire.request.owner - 1)

(* A client that waits has sent the request that is read, as far as it has  *)
(* come, and nothing else.                                                  *)
Turn == Len(wire.handled) + 1
Waiting ==
  /\ {wire.out[a].to : a \in Replies} = 1..Cardinality(Replies)
  /\ wire.pc = "read" =>
       /\ Cardinality(Replies) = Len(wire.handled)
       /\ \A i \in 1..Len(Line) : Line[i] = Piece(Turn, i)
       /\ ~ wire.eof => \/ wire.next = [req |-> Turn, at |-> Len(Line) + 1]
                        \/ wire.next = [req |-> Turn + 1, at |-> 1] /\ Len(Line) = Size(Turn)
  /\ wire.pc = "handle" =>
       /\ Cardinality(Replies) + 1 = Len(wire.handled)
       /\ wire.request.owner = Len(wire.handled) /\ wire.inbound = << >>
       /\ ~ wire.eof => wire.next = [req |-> Len(wire.handled) + 1, at |-> 1]

WireInv ==
  /\ wire \in Wires
  /\ InLine /\ Fresh /\ WholeRequests
  /\ wire.polite => Waiting

-----------------------------------------------------------------------------
LEMMA WireTyped ==
  ASSUME wire \in Wires
  PROVE  /\ wire.script \in Seq(Shape) /\ wire.polite \in BOOLEAN /\ wire.eof \in BOOLEAN
         /\ wire.next.req \in Nat \ {0} /\ wire.next.at \in Nat \ {0}
         /\ wire.next = [req |-> wire.next.req, at |-> wire.next.at]
         /\ wire.inbound \in Seq(Tokens) /\ wire.buf \in Seq(Tokens)
         /\ wire.pc \in {"read", "handle", "closed"} /\ wire.request \in Parses
         /\ wire.out \in Seq(Answers) /\ wire.handled \in Seq(Parses)
BY DEF Wires

LEMMA ShapeTyped ==
  ASSUME wire \in Wires, NEW r \in 1..Len(wire.script)
  PROVE  /\ wire.script[r].head \in Nat \ {0} /\ wire.script[r].body \in Nat
         /\ wire.script[r].close \in BOOLEAN /\ wire.script[r].expect \in BOOLEAN
         /\ Size(r) \in Nat /\ Size(r) >= wire.script[r].head + 1 /\ Size(r) >= 2
<1>1. wire.script \in Seq(Shape)
  BY WireTyped
<1>2. wire.script[r] \in Shape
  BY <1>1
<1>3. wire.script[r].head \in Nat \ {0} /\ wire.script[r].body \in Nat
      /\ wire.script[r].close \in BOOLEAN /\ wire.script[r].expect \in BOOLEAN
  BY <1>2 DEF Shape
<1>4. Size(r) = wire.script[r].head + 1 + wire.script[r].body
  BY DEF Size
<1>5. \A head \in Nat \ {0}, body \in Nat :
        head + 1 + body \in Nat /\ head + 1 + body >= head + 1 /\ head + 1 + body >= 2
  OBVIOUS
<1>6. Size(r) \in Nat /\ Size(r) >= wire.script[r].head + 1 /\ Size(r) >= 2
  BY <1>3, <1>4, <1>5
<1> QED
  BY <1>3, <1>6

(* One sequence behind another.                                             *)
LEMMA Joined ==
  ASSUME NEW S, NEW s \in Seq(S), NEW t \in Seq(S)
  PROVE  /\ s \o t \in Seq(S) /\ Len(s \o t) = Len(s) + Len(t) /\ Len(s) \in Nat /\ Len(t) \in Nat
         /\ \A i \in 1..Len(s) : (s \o t)[i] = s[i]
         /\ \A i \in 1..Len(t) : (s \o t)[Len(s) + i] = t[i]
         /\ \A i \in 1..Len(s \o t) : (s \o t)[i] \in S
<1>1. s \o t \in Seq(S) /\ Len(s \o t) = Len(s) + Len(t) /\ Len(s) \in Nat /\ Len(t) \in Nat
  BY ConcatProperties
<1>2. \A i \in 1..Len(s) : (s \o t)[i] = s[i]
  OBVIOUS
<1>3. \A i \in 1..Len(t) : (s \o t)[Len(s) + i] = t[i]
  OBVIOUS
<1>4. \A i \in 1..Len(s \o t) : (s \o t)[i] \in S
  BY <1>1
<1> QED
  BY <1>1, <1>2, <1>3, <1>4

LEMMA OneAppended ==
  ASSUME NEW S, NEW s \in Seq(S), NEW e \in S
  PROVE  /\ Append(s, e) \in Seq(S) /\ Len(Append(s, e)) = Len(s) + 1 /\ Len(s) \in Nat
         /\ Append(s, e)[Len(s) + 1] = e
         /\ \A i \in 1..Len(s) : Append(s, e)[i] = s[i]
         /\ Append(s, e) = s \o <<e>>
OBVIOUS

LEMMA AppendedBehind ==
  ASSUME NEW S, NEW s \in Seq(S), NEW t \in Seq(S), NEW e \in S
  PROVE  s \o Append(t, e) = Append(s \o t, e)
<1>1. s \o (t \o <<e>>) = (s \o t) \o <<e>>
  BY ConcatAssociative
<1>2. s \o t \in Seq(S)
  BY Joined
<1> QED
  BY <1>1, <1>2, OneAppended

LEMMA LineTyped ==
  ASSUME wire \in Wires
  PROVE  /\ Line \in Seq(Tokens) /\ Len(Line) = Len(wire.buf) + Len(wire.inbound)
         /\ \A i \in 1..Len(wire.buf) : Line[i] = wire.buf[i]
         /\ \A i \in 1..Len(wire.inbound) : Line[Len(wire.buf) + i] = wire.inbound[i]
         /\ \A i \in 1..Len(Line) : Line[i] \in Tokens
<1>1. wire.buf \in Seq(Tokens) /\ wire.inbound \in Seq(Tokens)
  BY WireTyped
<1> DEFINE s == wire.buf
           t == wire.inbound
<1>2. s \in Seq(Tokens) /\ t \in Seq(Tokens)
  BY <1>1
<1>3. Line = s \o t
  BY DEF Line
<1> HIDE DEF s, t
<1>4. /\ s \o t \in Seq(Tokens) /\ Len(s \o t) = Len(s) + Len(t)
      /\ \A i \in 1..Len(s) : (s \o t)[i] = s[i]
      /\ \A i \in 1..Len(t) : (s \o t)[Len(s) + i] = t[i]
      /\ \A i \in 1..Len(s \o t) : (s \o t)[i] \in Tokens
  BY <1>2, Joined
<1> QED
  BY <1>3, <1>4 DEF s, t

LEMMA WireStarts ==
  ASSUME NEW script \in Seq(Shape), NEW polite \in BOOLEAN, WireInit(script, polite)
  PROVE  WireInv
<1>1. NoRequest \in Parses
  BY DEF NoRequest, Parses
<1>2. wire \in Wires
  BY <1>1 DEF WireInit, Wires
<1>3. /\ wire.script = script /\ wire.next = [req |-> 1, at |-> 1] /\ wire.out = << >> /\ wire.handled = << >>
      /\ wire.pc = "read" /\ wire.buf = << >> /\ wire.inbound = << >> /\ wire.eof = FALSE
  BY DEF WireInit
<1>4. Line = << >> /\ Len(Line) = 0 /\ Replies = {} /\ DOMAIN wire.out = {}
  BY <1>3 DEF Line, Replies, Finals
<1>5. InLine
  BY <1>2, <1>3, <1>4, ShapeTyped DEF InLine
<1>6. Fresh
  BY <1>3, <1>4 DEF Fresh
<1>7. WholeRequests
  BY <1>3 DEF WholeRequests
<1>8. Waiting
  BY <1>3, <1>4, FS_EmptySet DEF Waiting, Turn
<1> QED
  BY <1>2, <1>5, <1>6, <1>7, <1>8 DEF WireInv

(* Answers are only appended.                                               *)
LEMMA OneAnswerMore ==
  ASSUME wire \in Wires, wire' \in Wires, NEW answer \in Answers, wire'.out = Append(wire.out, answer)
  PROVE  /\ Replies \subseteq 1..Len(wire.out) /\ Replies' \subseteq 1..(Len(wire.out) + 1)
         /\ Len(wire'.out) = Len(wire.out) + 1 /\ DOMAIN wire'.out = 1..(Len(wire.out) + 1)
         /\ \A a \in 1..Len(wire.out) : wire'.out[a] = wire.out[a]
         /\ wire'.out[Len(wire.out) + 1] = answer
         /\ answer.status = 200 => Replies' = Replies \cup {Len(wire.out) + 1}
         /\ answer.status # 200 => Replies' = Replies
<1>1. wire.out \in Seq(Answers) /\ Len(wire.out) \in Nat
  BY WireTyped
<1>2. /\ Len(wire'.out) = Len(wire.out) + 1 /\ DOMAIN wire'.out = 1..(Len(wire.out) + 1)
      /\ \A a \in 1..Len(wire.out) : wire'.out[a] = wire.out[a]
      /\ wire'.out[Len(wire.out) + 1] = answer
      /\ DOMAIN wire.out = 1..Len(wire.out)
  BY <1>1
<1>3. Replies = {k \in 1..Len(wire.out) : wire.out[k].status = 200}
  BY <1>2 DEF Replies, Finals
<1>4. Replies' = {k \in 1..(Len(wire.out) + 1) : wire'.out[k].status = 200}
  BY <1>2 DEF Replies, Finals
<1> QED
  BY <1>1, <1>2, <1>3, <1>4

LEMMA FinitelyMany ==
  ASSUME wire \in Wires
  PROVE  IsFiniteSet(Replies) /\ Cardinality(Replies) \in Nat /\ Replies \subseteq 1..Len(wire.out)
         /\ DOMAIN wire.out = 1..Len(wire.out) /\ Len(wire.out) \in Nat
<1>1. wire.out \in Seq(Answers)
  BY WireTyped
<1>2. Len(wire.out) \in Nat /\ DOMAIN wire.out = 1..Len(wire.out)
  BY <1>1
<1>3. Replies \subseteq 1..Len(wire.out)
  BY <1>2 DEF Replies, Finals
<1>4. IsFiniteSet(1..Len(wire.out))
  BY <1>2, FS_Interval
<1>5. IsFiniteSet(Replies)
  BY <1>3, <1>4, FS_Subset
<1> QED
  BY <1>2, <1>3, <1>5, FS_CardinalityType

LEMMA Transitive ==
  ASSUME NEW p, NEW q, NEW r, p.req \in Nat, q.req \in Nat, r.req \in Nat, p.at \in Nat, q.at \in Nat, r.at \in Nat,
         Before(p, q), Before(q, r)
  PROVE  Before(p, r)
BY DEF Before

(* The client sends a piece.                                                *)
LEMMA WireSends == ASSUME WireInv, Send PROVE WireInv'
<1> DEFINE r == wire.next.req
           k == wire.next.at
<1>1. wire \in Wires /\ r \in Nat \ {0} /\ k \in Nat \ {0} /\ r \in 1..Len(wire.script)
      /\ wire.next = [req |-> r, at |-> k]
  BY WireTyped DEF WireInv, Send
<1>2. k \in 1..Size(r)
  BY <1>1, ShapeTyped DEF WireInv, InLine
<1>3. Piece(r, k) \in Tokens /\ Piece(r, k).req = r /\ Piece(r, k).at = k
  BY <1>1 DEF Piece, Tokens
<1> DEFINE n == IF k = Size(r) THEN [req |-> r + 1, at |-> 1] ELSE [req |-> r, at |-> k + 1]
<1>4. wire' = [wire EXCEPT !.inbound = Append(wire.inbound, Piece(r, k)), !.next = n]
  BY DEF Send
<1>5. n \in [req : Nat \ {0}, at : Nat \ {0}] /\ Append(wire.inbound, Piece(r, k)) \in Seq(Tokens)
  BY <1>1, <1>3, WireTyped
<1>6. wire' \in Wires
  BY <1>1, <1>4, <1>5 DEF Wires
<1>7. /\ wire'.script = wire.script /\ wire'.polite = wire.polite /\ wire'.eof = wire.eof /\ wire'.buf = wire.buf
      /\ wire'.pc = wire.pc /\ wire'.request = wire.request /\ wire'.out = wire.out /\ wire'.handled = wire.handled
      /\ wire'.inbound = Append(wire.inbound, Piece(r, k)) /\ wire'.next = n
  BY <1>1, <1>4 DEF Wires
<1> HIDE DEF n
<1>8. /\ \A x : Size(x)' = Size(x) /\ BlankOf(x)' = BlankOf(x) /\ (Genuine(x) <=> Genuine(x)')
      /\ \A x, y : Piece(x, y)' = Piece(x, y)
      /\ Replies' = Replies /\ Turn' = Turn
  BY <1>7 DEF Size, BlankOf, Genuine, Piece, Replies, Finals, Turn
<1>9. /\ Len(Line') = Len(Line) + 1 /\ \A i \in 1..Len(Line) : Line'[i] = Line[i]
      /\ Line'[Len(Line) + 1] = Piece(r, k)
      /\ Len(wire'.inbound) = Len(wire.inbound) + 1 /\ \A i \in 1..Len(wire.inbound) : wire'.inbound[i] = wire.inbound[i]
      /\ wire'.inbound[Len(wire.inbound) + 1] = Piece(r, k)
      /\ Len(Line) \in Nat /\ Len(wire.inbound) \in Nat
  <2>1. wire.buf \in Seq(Tokens) /\ wire.inbound \in Seq(Tokens)
    BY <1>1, WireTyped
  <2>2. Line' = wire.buf \o Append(wire.inbound, Piece(r, k))
    BY <1>7 DEF Line
  <2>3. wire'.inbound = Append(wire.inbound, Piece(r, k))
    BY <1>7
  <2> DEFINE p == Piece(r, k)
  <2>4. p \in Tokens
    BY <1>3
  <2> HIDE DEF p
  <2>5. Append(wire.inbound, p) \in Seq(Tokens) /\ Len(Append(wire.inbound, p)) = Len(wire.inbound) + 1
        /\ Len(wire.inbound) \in Nat /\ Append(wire.inbound, p)[Len(wire.inbound) + 1] = p
        /\ \A i \in 1..Len(wire.inbound) : Append(wire.inbound, p)[i] = wire.inbound[i]
    BY <2>1, <2>4, OneAppended
  <2>6. wire.buf \o Append(wire.inbound, p) = Append(wire.buf \o wire.inbound, p)
    <3> DEFINE s == wire.buf
               t == wire.inbound
    <3>1. s \in Seq(Tokens) /\ t \in Seq(Tokens)
      BY <2>1
    <3> HIDE DEF s, t
    <3>2. s \o Append(t, p) = Append(s \o t, p)
      BY <2>4, <3>1, AppendedBehind
    <3> QED
      BY <3>2 DEF s, t
  <2>7. Line' = Append(Line, p) /\ Line \in Seq(Tokens) /\ wire'.inbound = Append(wire.inbound, p)
    BY <2>1, <2>2, <2>3, <2>6, Joined DEF Line, p
  <2>8. Len(Line') = Len(Line) + 1 /\ (\A i \in 1..Len(Line) : Line'[i] = Line[i]) /\ Line'[Len(Line) + 1] = p
        /\ Len(Line) \in Nat
    BY <2>4, <2>7, OneAppended
  <2> QED
    BY <2>5, <2>7, <2>8 DEF p
<1>10. Before(Piece(r, k), n) /\ n.req \in Nat /\ n.at \in Nat /\ (n.req <= Len(wire.script) => n.at <= Size(n.req))
  BY <1>1, <1>2, <1>3, ShapeTyped DEF Before, n
<1>11. \A p \in Tokens : Before(p, wire.next) => Before(p, Piece(r, k)) /\ Before(p, n)
  <2>1. \A p \in Tokens : p.req \in Nat /\ p.at \in Nat
    BY DEF Tokens
  <2>2. \A p \in Tokens : Before(p, wire.next) => Before(p, Piece(r, k))
    BY <1>3 DEF Before
  <2> QED
    BY <2>1, <2>2, <1>1, <1>3, <1>10, Transitive
<1>12. \A i \in 1..Len(Line) : Line[i] \in Tokens
  BY <1>1, LineTyped
<1>13. InLine'
  <2>1. Genuine(Piece(r, k))
    BY <1>1, <1>2, <1>3 DEF Genuine
  <2>2. \A i \in 1..Len(Line') : Genuine(Line[i])' /\ Before(Line'[i], n)
    <3> SUFFICES ASSUME NEW i \in 1..Len(Line') PROVE Genuine(Line[i])' /\ Before(Line'[i], n)
      OBVIOUS
    <3>1. CASE i = Len(Line) + 1
      BY <3>1, <2>1, <1>8, <1>9, <1>10
    <3>2. CASE i \in 1..Len(Line)
      BY <3>2, <1>8, <1>9, <1>11, <1>12 DEF WireInv, InLine
    <3> QED
      BY <3>1, <3>2, <1>9
  <2>3. \A i, j \in 1..Len(Line') : i < j => Before(Line'[i], Line'[j])
    <3> SUFFICES ASSUME NEW i \in 1..Len(Line'), NEW j \in 1..Len(Line'), i < j PROVE Before(Line'[i], Line'[j])
      OBVIOUS
    <3>1. i \in 1..Len(Line)
      BY <1>9
    <3>2. CASE j = Len(Line) + 1
      BY <3>1, <3>2, <1>9, <1>11, <1>12 DEF WireInv, InLine
    <3>3. CASE j \in 1..Len(Line)
      BY <3>1, <3>3, <1>9 DEF WireInv, InLine
    <3> QED
      BY <3>2, <3>3, <1>9
  <2> QED
    BY <2>2, <2>3, <1>7, <1>8, <1>10 DEF InLine, Before
<1>14. Fresh'
  <2>1. ASSUME NEW x, Past(x, Line) PROVE Past(x, Line)'
    <3>1. x \in 1..Len(wire.script) /\ BlankOf(x).req \in Nat /\ BlankOf(x).at \in Nat
      BY <2>1, <1>1, ShapeTyped DEF Past, BlankOf
    <3>2. Before(BlankOf(x), Piece(r, k)) /\ Before(BlankOf(x), n)
      <4>1. Before(BlankOf(x), Piece(r, k))
        BY <2>1, <1>3 DEF Past, Before
      <4> QED
        BY <4>1, <3>1, <1>1, <1>3, <1>10, Transitive
    <3>3. \A i \in 1..Len(Line') : Before(BlankOf(x), Line'[i])
      <4> SUFFICES ASSUME NEW i \in 1..Len(Line') PROVE Before(BlankOf(x), Line'[i])
        OBVIOUS
      <4>1. CASE i = Len(Line) + 1
        BY <4>1, <3>2, <1>9
      <4>2. CASE i \in 1..Len(Line)
        BY <4>2, <2>1, <1>9 DEF Past
      <4> QED
        BY <4>1, <4>2, <1>9
    <3> QED
      BY <3>1, <3>2, <3>3, <1>7, <1>8 DEF Past
  <2>2. ASSUME NEW x, Past(x, wire.inbound) PROVE Past(x, wire.inbound)'
    <3>1. x \in 1..Len(wire.script) /\ BlankOf(x).req \in Nat /\ BlankOf(x).at \in Nat
      BY <2>2, <1>1, ShapeTyped DEF Past, BlankOf
    <3>2. Before(BlankOf(x), Piece(r, k)) /\ Before(BlankOf(x), n)
      <4>1. Before(BlankOf(x), Piece(r, k))
        BY <2>2, <1>3 DEF Past, Before
      <4> QED
        BY <4>1, <3>1, <1>1, <1>3, <1>10, Transitive
    <3>3. \A i \in 1..Len(wire'.inbound) : Before(BlankOf(x), wire'.inbound[i])
      <4> SUFFICES ASSUME NEW i \in 1..Len(wire'.inbound) PROVE Before(BlankOf(x), wire'.inbound[i])
        OBVIOUS
      <4>1. CASE i = Len(wire.inbound) + 1
        BY <4>1, <3>2, <1>9
      <4>2. CASE i \in 1..Len(wire.inbound)
        BY <4>2, <2>2, <1>9 DEF Past
      <4> QED
        BY <4>1, <4>2, <1>9
    <3> QED
      BY <3>1, <3>2, <3>3, <1>7, <1>8 DEF Past
  <2> QED
    BY <2>1, <2>2, <1>7, <1>8 DEF Fresh, WireInv
<1>15. WholeRequests'
  BY <1>7 DEF WholeRequests, WireInv
<1>16. wire.polite => Waiting'
  <2> SUFFICES ASSUME wire.polite PROVE Waiting'
    OBVIOUS
  <2>1. Waiting /\ ~ wire.eof /\ r <= Cardinality(Finals) + 1
    BY DEF WireInv, Send
  <2>2. Turn \in Nat /\ Len(wire.handled) \in Nat
    BY <1>1, WireTyped DEF Turn
  <2>3. wire.pc # "closed" => Finals = Replies
    <3>1. \A a \in 1..Len(wire.out) : wire.out[a] \in Answers
      BY <1>1, WireTyped
    <3>2. \A a \in 1..Len(wire.out) : wire.out[a].status \in {100, 200, 400}
      BY <3>1 DEF Answers
    <3> QED
      BY <3>2, <1>1, FinitelyMany DEF WireInv, Fresh, Replies, Finals
  <2>4. CASE wire.pc = "read"
    <3>1. wire.next = [req |-> Turn, at |-> Len(Line) + 1]
      BY <2>1, <2>2, <2>3, <2>4, <1>1 DEF Waiting, Turn
    <3>2. r = Turn /\ k = Len(Line) + 1
      BY <3>1
    <3>3. \A i \in 1..Len(Line') : Line'[i] = Piece(Turn, i)
      BY <3>2, <2>1, <2>4, <1>9 DEF Waiting
    <3>4. \/ n = [req |-> Turn, at |-> Len(Line') + 1]
          \/ n = [req |-> Turn + 1, at |-> 1] /\ Len(Line') = Size(Turn)
      BY <3>2, <1>9 DEF n
    <3> QED
      BY <3>3, <3>4, <2>1, <2>4, <1>7, <1>8 DEF Waiting
  <2>5. CASE wire.pc = "handle"
    BY <2>1, <2>2, <2>3, <2>5, <1>1, FinitelyMany DEF Waiting
  <2>6. CASE wire.pc = "closed"
    BY <2>1, <2>6, <1>7, <1>8 DEF Waiting
  <2> QED
    BY <2>4, <2>5, <2>6, <1>1, WireTyped
<1> QED
  BY <1>6, <1>7, <1>13, <1>14, <1>15, <1>16 DEF WireInv

(* The client's side, and the connection itself, end at any time.           *)
LEMMA SideCloses == ASSUME WireInv, CloseSide PROVE WireInv'
<1>1. wire \in Wires /\ wire' = [wire EXCEPT !.eof = TRUE]
  BY DEF WireInv, CloseSide
<1>2. wire' \in Wires
  BY <1>1 DEF Wires
<1>3. /\ wire'.script = wire.script /\ wire'.polite = wire.polite /\ wire'.next = wire.next /\ wire'.buf = wire.buf
      /\ wire'.pc = wire.pc /\ wire'.request = wire.request /\ wire'.out = wire.out /\ wire'.handled = wire.handled
      /\ wire'.inbound = wire.inbound /\ wire'.eof = TRUE
  BY <1>1 DEF Wires
<1>4. /\ \A x : Size(x)' = Size(x) /\ BlankOf(x)' = BlankOf(x) /\ (Genuine(x) <=> Genuine(x)')
      /\ \A x, y : Piece(x, y)' = Piece(x, y)
      /\ Replies' = Replies /\ Turn' = Turn /\ Line' = Line
  BY <1>3 DEF Size, BlankOf, Genuine, Piece, Replies, Finals, Turn, Line
<1>5. InLine'
  BY <1>3, <1>4 DEF WireInv, InLine
<1>6. Fresh'
  BY <1>3, <1>4 DEF WireInv, Fresh, Past
<1>7. WholeRequests'
  BY <1>3 DEF WireInv, WholeRequests
<1>8. wire.polite => Waiting'
  BY <1>3, <1>4 DEF WireInv, Waiting
<1> QED
  BY <1>2, <1>3, <1>5, <1>6, <1>7, <1>8 DEF WireInv

(* What a step adds to the answers without answering a request.             *)
OnlyNoted(out) ==
  /\ Len(out) >= Len(wire.out)
  /\ \A a \in 1..Len(wire.out) : out[a] = wire.out[a]
  /\ \A a \in 1..Len(out) : a > Len(wire.out) => out[a].status # 200

LEMMA RepliesStay ==
  ASSUME wire \in Wires, wire' \in Wires, OnlyNoted(wire'.out)
  PROVE  /\ Replies' = Replies /\ \A a \in Replies : wire'.out[a] = wire.out[a]
         /\ {wire'.out[a].to : a \in Replies'} = {wire.out[a].to : a \in Replies}
<1>1. wire.out \in Seq(Answers) /\ wire'.out \in Seq(Answers)
  <2>1. wire'.out \in Seq(Answers)
    BY DEF Wires
  <2> QED
    BY <2>1, WireTyped
<1>2. /\ DOMAIN wire.out = 1..Len(wire.out) /\ DOMAIN wire'.out = 1..Len(wire'.out)
      /\ Len(wire.out) \in Nat /\ Len(wire'.out) \in Nat
  BY <1>1
<1>3. Replies = {k \in 1..Len(wire.out) : wire.out[k].status = 200}
  BY <1>2 DEF Replies, Finals
<1>4. Replies' = {k \in 1..Len(wire'.out) : wire'.out[k].status = 200}
  BY <1>2 DEF Replies, Finals
<1>5. /\ Len(wire'.out) >= Len(wire.out)
      /\ \A a \in 1..Len(wire.out) : wire'.out[a] = wire.out[a]
      /\ \A a \in 1..Len(wire'.out) : a > Len(wire.out) => wire'.out[a].status # 200
  BY DEF OnlyNoted
<1>6. Replies' = Replies /\ \A a \in Replies : wire'.out[a] = wire.out[a]
  BY <1>2, <1>3, <1>4, <1>5
<1>7. {wire'.out[a].to : a \in Replies'} = {wire.out[a].to : a \in Replies}
  BY <1>6
<1> QED
  BY <1>6, <1>7

(* The server reads on, asks for the body, refuses or loses the connection: *)
(* nothing is answered, and nothing but the cut between what was read and   *)
(* what was not has moved.                                                  *)
LEMMA NothingAnswered ==
  ASSUME WireInv, wire.pc # "closed", wire' \in Wires,
         wire'.script = wire.script, wire'.polite = wire.polite, wire'.next = wire.next, wire'.eof = wire.eof,
         wire'.handled = wire.handled, Line' = Line, OnlyNoted(wire'.out),
         wire'.pc = "closed" \/ (wire.pc = "read" /\ wire'.pc = "read"),
         \A a \in 1..Len(wire'.out) : a > Len(wire.out) /\ wire'.out[a].status = 400
                                        => a = Len(wire'.out) /\ wire'.pc = "closed"
  PROVE  WireInv'
<1>1. wire \in Wires
  BY DEF WireInv
<1>2. /\ \A x : Size(x)' = Size(x) /\ BlankOf(x)' = BlankOf(x) /\ (Genuine(x) <=> Genuine(x)')
      /\ \A x, y : Piece(x, y)' = Piece(x, y)
      /\ Turn' = Turn
  BY DEF Size, BlankOf, Genuine, Piece, Turn
<1>3. Replies' = Replies /\ \A a \in Replies : wire'.out[a] = wire.out[a]
  BY <1>1, RepliesStay
<1>4. InLine'
  BY <1>2 DEF WireInv, InLine
<1>5. Fresh'
  <2>1. \A a, b \in Replies' : a < b => wire'.out[a].to < wire'.out[b].to
    BY <1>3 DEF WireInv, Fresh
  <2>2. \A a \in DOMAIN wire'.out : wire'.out[a].status = 400 => a = Len(wire'.out) /\ wire'.pc = "closed"
    <3>1. wire.out \in Seq(Answers) /\ wire'.out \in Seq(Answers)
      <4>1. wire'.out \in Seq(Answers)
        BY DEF Wires
      <4> QED
        BY <1>1, <4>1, WireTyped
    <3>2. /\ DOMAIN wire.out = 1..Len(wire.out) /\ DOMAIN wire'.out = 1..Len(wire'.out)
          /\ Len(wire.out) \in Nat /\ Len(wire'.out) \in Nat
      BY <3>1
    <3>3. \A a \in 1..Len(wire.out) : wire'.out[a] = wire.out[a]
      BY DEF OnlyNoted
    <3>4. \A a \in 1..Len(wire.out) : wire.out[a].status # 400
      BY <3>2 DEF WireInv, Fresh
    <3> QED
      BY <3>2, <3>3, <3>4
  <2>3. wire'.pc = "read" => \A a \in Replies' : Past(wire.out[a].to, Line)'
    BY <1>2, <1>3 DEF WireInv, Fresh, Past
  <2>4. wire'.pc # "handle"
    OBVIOUS
  <2> QED
    BY <2>1, <2>2, <2>3, <2>4 DEF Fresh
<1>6. WholeRequests'
  BY DEF WireInv, WholeRequests
<1>7. wire.polite => Waiting'
  <2> SUFFICES ASSUME wire.polite PROVE Waiting'
    OBVIOUS
  <2>1. {wire'.out[a].to : a \in Replies'} = {wire.out[a].to : a \in Replies}
    BY <1>3
  <2> QED
    BY <1>2, <1>3, <2>1 DEF WireInv, Waiting
<1> QED
  BY <1>4, <1>5, <1>6, <1>7 DEF WireInv

LEMMA HeadFound ==
  ASSUME NEW buf \in Seq(Tokens), Blanks(buf) # {}
  PROVE  /\ HeaderEnd(buf) \in 1..Len(buf) /\ Len(buf) \in Nat
         /\ buf[HeaderEnd(buf)].part = "blank"
         /\ Owner(buf) \in Nat /\ buf[1] \in Tokens
<1>1. Len(buf) \in Nat /\ DOMAIN buf = 1..Len(buf) /\ \A i \in 1..Len(buf) : buf[i] \in Tokens
  OBVIOUS
<1> DEFINE B == Blanks(buf)
<1>2. B \subseteq Nat /\ B # {} /\ B \subseteq 1..Len(buf) /\ \A k \in B : buf[k].part = "blank"
  BY <1>1 DEF Blanks
<1> HIDE DEF B
<1>3. PICK k \in B : \A j \in B : ~ (<<j, k>> \in OpToRel(<, Nat))
  BY <1>2, WFMin, NatLessThanWellFounded
<1>4. \A j \in B : k <= j
  <2> SUFFICES ASSUME NEW j \in B PROVE k <= j
    OBVIOUS
  <2>1. j \in Nat /\ k \in Nat
    BY <1>2
  <2>2. ~ (j < k)
    BY <1>3, <2>1 DEF OpToRel
  <2> QED
    BY <2>1, <2>2
<1>5. HeaderEnd(buf) = CHOOSE x \in B : \A j \in B : x <= j
  BY DEF HeaderEnd, B
<1>6. HeaderEnd(buf) \in B
  BY <1>4, <1>5
<1>7. HeaderEnd(buf) \in 1..Len(buf) /\ buf[HeaderEnd(buf)].part = "blank"
  BY <1>2, <1>6
<1> QED
  BY <1>1, <1>7 DEF Owner, Tokens

LEMMA FieldsTyped ==
  ASSUME wire \in Wires, NEW buf, Owner(buf) \in 1..Len(wire.script), NEW fields \in Fields(buf)
  PROVE  /\ fields.length \in Nat /\ fields.close \in BOOLEAN
         /\ Intact(buf) => fields.length = wire.script[Owner(buf)].body
<1>1. /\ wire.script[Owner(buf)].body \in Nat /\ wire.script[Owner(buf)].close \in BOOLEAN
  BY ShapeTyped
<1>2. CASE fields = [length |-> wire.script[Owner(buf)].body, close |-> wire.script[Owner(buf)].close,
                     expect |-> wire.script[Owner(buf)].expect]
  BY <1>1, <1>2
<1>3. CASE fields = [length |-> 0, close |-> FALSE, expect |-> FALSE] /\ ~ Intact(buf)
  BY <1>3
<1> QED
  BY <1>2, <1>3 DEF Fields

RequestOf(buf, fields) ==
  [start |-> buf[1].at, owner |-> Owner(buf), close |-> fields.close,
   body |-> SubSeq(buf, HeaderEnd(buf) + 1, Len(buf)), eof |-> wire.eof]
Takes(buf, inbound, fields, out) ==
  wire' = [wire EXCEPT !.buf = buf, !.inbound = inbound, !.out = out, !.pc = "handle",
                       !.request = RequestOf(buf, fields), !.handled = Append(wire.handled, RequestOf(buf, fields))]

(* A request is taken: its blank line is among what was read, and all that  *)
(* was read behind it is its body.                                          *)
LEMMA RequestParsed ==
  ASSUME WireInv, wire.pc = "read", NEW buf \in Seq(Tokens), NEW inbound \in Seq(Tokens), buf \o inbound = Line,
         Blanks(buf) # {}, NEW fields \in Fields(buf),
         Complete(buf, fields) \/ (wire.eof /\ inbound = << >>),
         NEW out \in Seq(Answers), OnlyNoted(out), \A a \in 1..Len(out) : a > Len(wire.out) => out[a].status # 400,
         Takes(buf, inbound, fields, out)
  PROVE  WireInv'
<1> DEFINE h == HeaderEnd(buf)
           o == Owner(buf)
           request == RequestOf(buf, fields)
<1>1. wire \in Wires /\ InLine /\ Fresh /\ WholeRequests
  BY DEF WireInv
<1>2. h \in 1..Len(buf) /\ Len(buf) \in Nat /\ buf[h].part = "blank" /\ o \in Nat /\ buf[1] \in Tokens /\ o = buf[h].req
  BY HeadFound DEF Owner
<1>3. /\ Len(Line) = Len(buf) + Len(inbound) /\ Line \in Seq(Tokens) /\ Len(Line) \in Nat /\ Len(inbound) \in Nat
      /\ \A i \in 1..Len(buf) : Line[i] = buf[i]
      /\ \A i \in 1..Len(inbound) : Line[Len(buf) + i] = inbound[i]
  <2>1. /\ Len(buf \o inbound) = Len(buf) + Len(inbound) /\ Len(inbound) \in Nat
        /\ \A i \in 1..Len(buf) : (buf \o inbound)[i] = buf[i]
        /\ \A i \in 1..Len(inbound) : (buf \o inbound)[Len(buf) + i] = inbound[i]
    BY Joined
  <2>2. Line \in Seq(Tokens)
    BY <1>1, LineTyped
  <2> QED
    BY <2>1, <2>2
<1>4. h \in 1..Len(Line) /\ Line[h] = buf[h] /\ Genuine(Line[h]) /\ Before(Line[h], wire.next)
  BY <1>1, <1>2, <1>3 DEF InLine
<1>5. o \in 1..Len(wire.script) /\ buf[h].at = wire.script[o].head + 1
  BY <1>2, <1>4 DEF Genuine, Piece
<1>6. /\ wire.script[o].head \in Nat \ {0} /\ wire.script[o].body \in Nat /\ Size(o) = wire.script[o].head + 1 + wire.script[o].body
  BY <1>1, <1>5, ShapeTyped DEF Size
<1>7. /\ fields.length \in Nat /\ fields.close \in BOOLEAN /\ (Intact(buf) => fields.length = wire.script[o].body)
  BY <1>1, <1>5, FieldsTyped
<1>8. SubSeq(buf, h + 1, Len(buf)) \in Seq(Tokens) /\ Len(SubSeq(buf, h + 1, Len(buf))) = Len(buf) - h
      /\ \A k \in 1..(Len(buf) - h) : SubSeq(buf, h + 1, Len(buf))[k] = buf[h + k]
  BY <1>2
<1>9. request \in Parses
  BY <1>1, <1>2, <1>7, <1>8, WireTyped DEF Parses, Tokens, RequestOf
<1>10. request.start = buf[1].at /\ request.owner = o /\ request.eof = wire.eof
       /\ request.body = SubSeq(buf, h + 1, Len(buf))
  BY DEF RequestOf
<1> HIDE DEF request
<1> HIDE DEF h, o
<1>11. wire' \in Wires
  <2>1. Append(wire.handled, request) \in Seq(Parses)
    BY <1>1, <1>9, WireTyped
  <2>2. wire' = [wire EXCEPT !.buf = buf, !.inbound = inbound, !.out = out, !.pc = "handle", !.request = request,
                             !.handled = Append(wire.handled, request)]
    BY DEF Takes, request
  <2>3. buf \in Seq(Tokens) /\ inbound \in Seq(Tokens) /\ out \in Seq(Answers) /\ wire \in Wires
    BY <1>1
  <2> HIDE DEF Answers, Tokens, Parses
  <2> QED
    BY <1>9, <2>1, <2>2, <2>3 DEF Wires
<1>12. /\ wire'.script = wire.script /\ wire'.polite = wire.polite /\ wire'.next = wire.next /\ wire'.eof = wire.eof
       /\ wire'.buf = buf /\ wire'.inbound = inbound /\ wire'.out = out /\ wire'.pc = "handle" /\ wire'.request = request
       /\ wire'.handled = Append(wire.handled, request)
  BY <1>1 DEF Wires, Takes, request
<1>13. /\ \A x : Size(x)' = Size(x) /\ BlankOf(x)' = BlankOf(x) /\ (Genuine(x) <=> Genuine(x)')
       /\ \A x, y : Piece(x, y)' = Piece(x, y)
       /\ Line' = Line
  <2>1. Line' = buf \o inbound
    BY <1>12 DEF Line
  <2> QED
    BY <2>1, <1>12 DEF Size, BlankOf, Genuine, Piece
<1>14. Replies' = Replies /\ \A a \in Replies : out[a] = wire.out[a]
  BY <1>1, <1>11, <1>12, RepliesStay
<1>15. InLine'
  BY <1>1, <1>12, <1>13 DEF InLine
<1>16. BlankOf(o).req = buf[h].req /\ BlankOf(o).at = buf[h].at
  BY <1>2, <1>5 DEF BlankOf
<1>17. Past(o, inbound)'
  <2>1. Before(BlankOf(o), wire.next)
    BY <1>4, <1>16 DEF Before
  <2>2. \A i \in 1..Len(inbound) : Before(BlankOf(o), inbound[i])
    <3> SUFFICES ASSUME NEW i \in 1..Len(inbound) PROVE Before(BlankOf(o), inbound[i])
      OBVIOUS
    <3>1. Len(buf) + i \in 1..Len(Line) /\ h < Len(buf) + i
      BY <1>2, <1>3
    <3>2. Before(Line[h], Line[Len(buf) + i])
      BY <1>1, <1>4, <3>1 DEF InLine
    <3>3. Before(buf[h], inbound[i])
      BY <1>3, <1>4, <3>2
    <3> QED
      BY <1>16, <3>3 DEF Before
  <2> QED
    BY <2>1, <2>2, <1>5, <1>12, <1>13 DEF Past
<1>18. \A a \in Replies : out[a].to \in 1..(o - 1)
  <2> SUFFICES ASSUME NEW a \in Replies PROVE wire.out[a].to \in 1..(o - 1)
    BY <1>14
  <2>1. Past(wire.out[a].to, Line)
    BY <1>1 DEF Fresh
  <2> DEFINE x == wire.out[a].to
  <2>2. x \in 1..Len(wire.script) /\ Before(BlankOf(x), buf[h])
    BY <2>1, <1>4 DEF Past
  <2> HIDE DEF x
  <2>3. BlankOf(x).req = x /\ BlankOf(x).at = wire.script[x].head + 1
    BY DEF BlankOf
  <2>4. x < o \/ (x = o /\ wire.script[x].head + 1 < wire.script[o].head + 1)
    BY <2>2, <2>3, <1>2, <1>5 DEF Before
  <2>5. x < o
    BY <2>4, <1>6
  <2> QED
    BY <2>2, <2>5, <1>2 DEF x
<1>19. Fresh'
  <2>1. \A a, b \in Replies' : a < b => out[a].to < out[b].to
    BY <1>1, <1>14 DEF Fresh
  <2>2. \A a \in DOMAIN out : out[a].status # 400
    <3>1. wire.out \in Seq(Answers)
      BY <1>1, WireTyped
    <3>2. /\ DOMAIN wire.out = 1..Len(wire.out) /\ DOMAIN out = 1..Len(out) /\ Len(wire.out) \in Nat /\ Len(out) \in Nat
      BY <3>1
    <3>3. \A a \in 1..Len(wire.out) : out[a] = wire.out[a]
      BY DEF OnlyNoted
    <3>4. \A a \in 1..Len(wire.out) : wire.out[a].status # 400
      <4>1. \A a \in DOMAIN wire.out : wire.out[a].status = 400 => wire.pc = "closed"
        BY <1>1 DEF Fresh
      <4> QED
        BY <3>2, <4>1
    <3> QED
      BY <3>2, <3>3, <3>4
  <2> QED
    BY <2>1, <2>2, <1>10, <1>12, <1>14, <1>17, <1>18 DEF Fresh
<1>20. ASSUME wire.polite
       PROVE  /\ o = Turn /\ request.start = 1 /\ Intact(buf)
              /\ \A k \in 1..Len(request.body) :
                   request.body[k] = [req |-> o, at |-> wire.script[o].head + 1 + k, part |-> "body"]
              /\ Len(request.body) = wire.script[o].body \/ request.eof
              /\ inbound = << >>
              /\ ~ wire.eof => wire.next = [req |-> Turn + 1, at |-> 1]
  <2>1. Waiting /\ \A i \in 1..Len(Line) : Line[i] = Piece(Turn, i)
    BY <1>20 DEF WireInv, Waiting
  <2>2. \A i \in 1..Len(buf) : buf[i] = Piece(Turn, i)
    <3> SUFFICES ASSUME NEW i \in 1..Len(buf) PROVE buf[i] = Piece(Turn, i)
      OBVIOUS
    <3>1. i \in 1..Len(Line) /\ Line[i] = buf[i]
      BY <1>2, <1>3
    <3> QED
      BY <3>1, <2>1
  <2>3. \A i \in 1..Len(buf) : buf[i].req = Turn /\ buf[i].at = i
    <3>1. \A x, y : Piece(x, y).req = x /\ Piece(x, y).at = y
      BY DEF Piece
    <3> QED
      BY <2>2, <3>1
  <2>4. o = Turn /\ h = wire.script[o].head + 1 /\ buf[1].at = 1
    <3>1. buf[h].req = Turn /\ buf[h].at = h
      BY <2>3, <1>2
    <3>2. 1 \in 1..Len(buf)
      BY <1>2
    <3>3. buf[1].at = 1
      BY <2>3, <3>2
    <3>4. buf[h].req = o /\ buf[h].at = wire.script[o].head + 1
      BY <1>2, <1>5
    <3> QED
      BY <3>1, <3>3, <3>4
  <2>5. Intact(buf)
    <3>1. buf[1].req = Turn /\ \A i \in 1..h : buf[i].req = Turn
      BY <2>3, <1>2
    <3> QED
      BY <3>1, <2>4 DEF Intact, h
  <2>6. Len(Line) <= Size(o)
    <3>1. Len(Line) \in 1..Len(Line)
      BY <1>3, <1>4
    <3>2. Genuine(Line[Len(Line)]) /\ Line[Len(Line)] = Piece(Turn, Len(Line))
      BY <3>1, <2>1, <1>1 DEF InLine
    <3>3. Piece(Turn, Len(Line)).at = Len(Line) /\ Piece(Turn, Len(Line)).req = Turn
      BY DEF Piece
    <3>4. Len(Line) \in 1..Size(Turn)
      BY <3>2, <3>3 DEF Genuine
    <3> QED
      BY <3>4, <2>4, <1>6
  <2>7. \A k \in 1..Len(request.body) :
          request.body[k] = [req |-> o, at |-> wire.script[o].head + 1 + k, part |-> "body"]
    <3> SUFFICES ASSUME NEW k \in 1..Len(request.body)
                 PROVE  request.body[k] = [req |-> o, at |-> wire.script[o].head + 1 + k, part |-> "body"]
      OBVIOUS
    <3>1. k \in 1..(Len(buf) - h) /\ request.body[k] = buf[h + k]
      BY <1>8, <1>10
    <3> DEFINE at == h + k
    <3>a. at \in 1..Len(buf) /\ at > wire.script[o].head + 1 /\ at \in Nat /\ wire.script[o].head \in Nat
      <4>1. k \in 1..(Len(buf) - h) /\ Len(buf) \in Nat /\ h \in 1..Len(buf)
        BY <3>1, <1>2
      <4>2. at \in 1..Len(buf) /\ at > h /\ at \in Nat
        BY <4>1
      <4> QED
        BY <4>2, <2>4, <1>6
    <3> HIDE DEF at
    <3>2. buf[at] = Piece(o, at)
      BY <3>a, <2>2, <2>4
    <3>3. Piece(o, at) = [req |-> o, at |-> at, part |-> "body"]
      BY <3>a DEF Piece
    <3>4. at = wire.script[o].head + 1 + k
      BY <2>4 DEF at
    <3>5. request.body[k] = buf[at]
      BY <3>1 DEF at
    <3> QED
      BY <3>2, <3>3, <3>4, <3>5
  <2>8. Len(request.body) = Len(buf) - h
    BY <1>8, <1>10
  <2>9. CASE Complete(buf, fields)
    <3>1. Len(buf) >= h + wire.script[o].body
      BY <2>5, <2>9, <1>7 DEF Complete, h
    <3>2. Len(buf) = Size(o) /\ Len(inbound) = 0 /\ Len(Line) = Size(o)
      <4>1. Len(buf) >= Size(o) /\ Size(o) \in Nat
        <5> DEFINE head == wire.script[o].head
                   body == wire.script[o].body
        <5>1. Len(buf) >= h + body
          BY <3>1
        <5>2. h = head + 1
          BY <2>4
        <5>3. Size(o) = head + 1 + body /\ head \in Nat /\ body \in Nat
          BY <1>6
        <5>4. h \in Nat /\ Len(buf) \in Nat
          BY <1>2
        <5> HIDE DEF head, body
        <5> QED
          BY <5>1, <5>2, <5>3, <5>4
      <4>2. Len(Line) = Len(buf) + Len(inbound) /\ Len(Line) \in Nat /\ Len(buf) \in Nat /\ Len(inbound) \in Nat
        BY <1>2, <1>3
      <4> QED
        BY <4>1, <4>2, <2>6
    <3>3. inbound = << >>
      BY <3>2
    <3>4. Len(request.body) = wire.script[o].body
      BY <3>2, <2>8, <2>4, <1>6
    <3>5. ASSUME ~ wire.eof, wire.next = [req |-> Turn, at |-> Len(Line) + 1] PROVE FALSE
      <4>1. wire.next.req = o /\ wire.next.at = Size(o) + 1
        BY <3>2, <3>5, <2>4
      <4>2. wire.next.at <= Size(wire.next.req)
        BY <4>1, <1>1, <1>5 DEF InLine
      <4> QED
        BY <4>1, <4>2, <1>6
    <3>6. ~ wire.eof => wire.next = [req |-> Turn + 1, at |-> 1]
      BY <3>5, <2>1 DEF Waiting
    <3> QED
      BY <3>3, <3>4, <3>6, <2>4, <2>5, <2>7, <1>10
  <2>10. CASE wire.eof /\ inbound = << >>
    BY <2>10, <2>4, <2>5, <2>7, <1>10
  <2> QED
    BY <2>9, <2>10
<1>21. /\ Len(wire'.handled) = Len(wire.handled) + 1 /\ Len(wire.handled) \in Nat
       /\ wire'.handled[Len(wire.handled) + 1] = request
       /\ \A i \in 1..Len(wire.handled) : wire'.handled[i] = wire.handled[i]
  <2>1. wire.handled \in Seq(Parses)
    BY <1>1, WireTyped
  <2> QED
    BY <2>1, <1>9, <1>12
<1>22. WholeRequests'
  <2> DEFINE Whole(q, i) ==
               /\ q.owner = i /\ q.start = 1
               /\ \A k \in DOMAIN q.body :
                    q.body[k] = [req |-> i, at |-> wire.script[q.owner].head + 1 + k, part |-> "body"]
               /\ Len(q.body) = wire.script[q.owner].body \/ q.eof
  <2>0. wire'.script = wire.script /\ wire'.polite = wire.polite
    BY <1>12
  <2> SUFFICES ASSUME wire.polite, NEW i \in 1..Len(wire'.handled) PROVE Whole(wire'.handled[i], i)
    BY <2>0 DEF WholeRequests
  <2>1. CASE i \in 1..Len(wire.handled)
    <3>1. wire'.handled[i] = wire.handled[i]
      BY <2>1, <1>21
    <3>2. Whole(wire.handled[i], i)
      BY <2>1, <1>1 DEF WholeRequests
    <3> QED
      BY <3>1, <3>2
  <2>2. CASE i = Len(wire.handled) + 1
    <3>1. wire'.handled[i] = request /\ i = Turn
      BY <2>2, <1>21 DEF Turn
    <3>2. DOMAIN request.body = 1..Len(request.body)
      BY <1>8, <1>10
    <3>3. wire.script[request.owner] = wire.script[o] /\ request.owner = i /\ request.owner = o
      BY <3>1, <1>10, <1>20
    <3>4. Whole(request, i)
      BY <3>2, <3>3, <1>20
    <3> QED
      BY <3>1, <3>4
  <2>3. i \in 1..(Len(wire.handled) + 1) /\ Len(wire.handled) \in Nat
    BY <1>21
  <2> HIDE DEF Whole
  <2> QED
    BY <2>1, <2>2, <2>3
<1>23. wire.polite => Waiting'
  <2> SUFFICES ASSUME wire.polite PROVE Waiting'
    OBVIOUS
  <2>1. Waiting
    BY DEF WireInv
  <2>2. {wire'.out[a].to : a \in Replies'} = {wire.out[a].to : a \in Replies}
    <3>1. OnlyNoted(wire'.out)
      BY <1>12
    <3> QED
      BY <3>1, <1>1, <1>11, RepliesStay
  <2>3. Cardinality(Replies') + 1 = Len(wire'.handled)
    BY <2>1, <1>14, <1>21 DEF Waiting
  <2>4. request.owner = Len(wire'.handled)
    BY <1>10, <1>20, <1>21 DEF Turn
  <2>5. ~ wire.eof => wire.next = [req |-> Len(wire'.handled) + 1, at |-> 1]
    BY <1>20, <1>21 DEF Turn
  <2>6. {wire'.out[a].to : a \in Replies'} = 1..Cardinality(Replies')
    BY <2>1, <2>2, <1>14 DEF Waiting
  <2> QED
    BY <2>3, <2>4, <2>5, <2>6, <1>12, <1>20 DEF Waiting
<1> QED
  BY <1>11, <1>12, <1>15, <1>19, <1>22, <1>23 DEF WireInv

LEMMA AnsweredTyped ==
  ASSUME NEW w \in Wires, NEW phase \in {"read", "handle", "closed"}, NEW out \in Seq(Answers)
  PROVE  [w EXCEPT !.pc = phase, !.out = out] \in Wires
BY DEF Wires

(* Whatever the server does not understand is refused with a 400.           *)
LEMMA Refused ==
  ASSUME WireInv, wire.pc = "read", NEW before \in Wires,
         before.script = wire.script, before.polite = wire.polite, before.next = wire.next, before.eof = wire.eof,
         before.handled = wire.handled, before.buf \o before.inbound = Line, OnlyNoted(before.out),
         \A a \in 1..Len(before.out) : a > Len(wire.out) => before.out[a].status # 400,
         wire' = BadRequest(before)
  PROVE  WireInv'
<1> DEFINE no == [status |-> 400, to |-> 0]
<1>1. wire' = [before EXCEPT !.pc = "closed", !.out = Append(before.out, no)]
  BY DEF BadRequest
<1>2. no \in Answers /\ no.status = 400
  BY DEF Answers
<1> HIDE DEF no
<1>3. before.out \in Seq(Answers) /\ before.buf \in Seq(Tokens) /\ before.inbound \in Seq(Tokens) /\ wire \in Wires
  BY DEF Wires, WireInv
<1>4. Append(before.out, no) \in Seq(Answers)
  BY <1>2, <1>3
<1>5. wire' \in Wires
  <2> DEFINE out == Append(before.out, no)
  <2>1. out \in Seq(Answers) /\ wire' = [before EXCEPT !.pc = "closed", !.out = out]
    BY <1>1, <1>4
  <2> HIDE DEF out
  <2>2. [before EXCEPT !.pc = "closed", !.out = out] \in Wires
    BY <2>1, AnsweredTyped
  <2> QED
    BY <2>1, <2>2
<1>6. /\ wire'.script = wire.script /\ wire'.polite = wire.polite /\ wire'.next = wire.next /\ wire'.eof = wire.eof
      /\ wire'.handled = wire.handled /\ wire'.buf = before.buf /\ wire'.inbound = before.inbound
      /\ wire'.pc = "closed" /\ wire'.out = Append(before.out, no)
  BY <1>1 DEF Wires
<1>7. /\ Len(wire'.out) = Len(before.out) + 1 /\ Len(before.out) \in Nat
      /\ \A a \in 1..Len(before.out) : wire'.out[a] = before.out[a]
      /\ wire'.out[Len(before.out) + 1] = no
  BY <1>2, <1>3, <1>6
<1>8. Line' = Line
  BY <1>6 DEF Line
<1>9. Len(wire.out) \in Nat /\ Len(wire.out) <= Len(before.out)
  <2>1. wire.out \in Seq(Answers)
    BY <1>3, WireTyped
  <2> QED
    BY <2>1 DEF OnlyNoted
<1>10. OnlyNoted(wire'.out)
  <2>1. \A a \in 1..Len(wire.out) : wire'.out[a] = wire.out[a]
    BY <1>7, <1>9 DEF OnlyNoted
  <2>2. \A a \in 1..Len(wire'.out) : a > Len(wire.out) => wire'.out[a].status # 200
    <3> SUFFICES ASSUME NEW a \in 1..Len(wire'.out), a > Len(wire.out) PROVE wire'.out[a].status # 200
      OBVIOUS
    <3>1. CASE a \in 1..Len(before.out)
      BY <3>1, <1>7 DEF OnlyNoted
    <3>2. CASE a = Len(before.out) + 1
      BY <3>2, <1>2, <1>7
    <3> QED
      BY <3>1, <3>2, <1>7
  <2> QED
    BY <2>1, <2>2, <1>7, <1>9 DEF OnlyNoted
<1>11. \A a \in 1..Len(wire'.out) : a > Len(wire.out) /\ wire'.out[a].status = 400
                                      => a = Len(wire'.out) /\ wire'.pc = "closed"
  <2> SUFFICES ASSUME NEW a \in 1..Len(wire'.out), a > Len(wire.out), wire'.out[a].status = 400
               PROVE  a = Len(wire'.out)
    BY <1>6
  <2>1. CASE a \in 1..Len(before.out)
    BY <2>1, <1>7
  <2>2. CASE a = Len(before.out) + 1
    BY <2>2, <1>7
  <2> QED
    BY <2>1, <2>2, <1>7
<1>12. wire.pc # "closed"
  OBVIOUS
<1> QED
  BY <1>5, <1>6, <1>8, <1>10, <1>11, <1>12, NothingAnswered

LEMMA Regrouped ==
  ASSUME NEW S, NEW s \in Seq(S), NEW u \in Seq(S), NEW v \in Seq(S)
  PROVE  s \o (u \o v) = (s \o u) \o v
BY ConcatAssociative

(* What stands in the read buffer is a prefix of what stood in the line.    *)
LEMMA CutMoves ==
  ASSUME wire \in Wires, NEW n \in 1..Len(wire.inbound)
  PROVE  /\ wire.buf \o SubSeq(wire.inbound, 1, n) \in Seq(Tokens)
         /\ SubSeq(wire.inbound, n + 1, Len(wire.inbound)) \in Seq(Tokens)
         /\ (wire.buf \o SubSeq(wire.inbound, 1, n)) \o SubSeq(wire.inbound, n + 1, Len(wire.inbound)) = Line
<1> DEFINE s == wire.buf
           t == wire.inbound
<1>1. s \in Seq(Tokens) /\ t \in Seq(Tokens) /\ n \in 1..Len(t)
  BY WireTyped
<1>2. Line = s \o t
  BY DEF Line
<1> HIDE DEF s, t
<1>3. SubSeq(t, 1, n) \in Seq(Tokens) /\ SubSeq(t, n + 1, Len(t)) \in Seq(Tokens)
  BY <1>1
<1>4. SubSeq(t, 1, n) \o SubSeq(t, n + 1, Len(t)) = t
  <2>1. SubSeq(t, 1, n) \o SubSeq(t, n + 1, Len(t)) = SubSeq(t, 1, Len(t))
    BY <1>1, ConcatAdjacentSubSeq
  <2>2. SubSeq(t, 1, Len(t)) = t
    BY <1>1
  <2> QED
    BY <2>1, <2>2
<1>5. (s \o SubSeq(t, 1, n)) \o SubSeq(t, n + 1, Len(t)) = s \o t
  <2> DEFINE u == SubSeq(t, 1, n)
             v == SubSeq(t, n + 1, Len(t))
  <2>1. u \in Seq(Tokens) /\ v \in Seq(Tokens) /\ s \in Seq(Tokens)
    BY <1>1, <1>3
  <2>2. u \o v = t
    BY <1>4
  <2> HIDE DEF u, v
  <2>3. s \o (u \o v) = (s \o u) \o v
    BY <2>1, Regrouped
  <2>4. (s \o u) \o v = s \o t
    BY <2>2, <2>3
  <2> QED
    BY <2>4 DEF u, v
<1>6. s \o SubSeq(t, 1, n) \in Seq(Tokens)
  BY <1>1, <1>3, Joined
<1> QED
  BY <1>2, <1>3, <1>5, <1>6 DEF s, t

(* The answer is written: what was read is gone, what is to come is behind. *)
LEMMA AnswerWritten == ASSUME WireInv, SendResponse PROVE WireInv'
<1> DEFINE o == wire.request.owner
           yes == [status |-> 200, to |-> o]
<1>1. wire \in Wires /\ InLine /\ Fresh /\ WholeRequests /\ wire.pc = "handle"
  BY DEF WireInv, SendResponse
<1>2. o \in Nat /\ NoRequest \in Parses
  <2>1. wire.request \in Parses
    BY <1>1, WireTyped
  <2> QED
    BY <2>1 DEF Parses, NoRequest
<1>3. yes \in Answers /\ yes.status = 200 /\ yes.to = o
  BY <1>2 DEF Answers
<1> DEFINE phase == IF wire.request.close THEN "closed" ELSE "read"
<1>4. wire' = [wire EXCEPT !.out = Append(wire.out, yes), !.pc = phase, !.request = NoRequest, !.buf = << >>]
  BY DEF SendResponse
<1>5. phase \in {"read", "closed"} /\ << >> \in Seq(Tokens)
  OBVIOUS
<1> HIDE DEF yes, phase
<1>6. Append(wire.out, yes) \in Seq(Answers)
  BY <1>1, <1>3, WireTyped
<1>7. wire' \in Wires
  <2> HIDE DEF Answers, Tokens, Parses
  <2> QED
    BY <1>1, <1>2, <1>4, <1>5, <1>6 DEF Wires
<1>8. /\ wire'.script = wire.script /\ wire'.polite = wire.polite /\ wire'.next = wire.next /\ wire'.eof = wire.eof
      /\ wire'.handled = wire.handled /\ wire'.inbound = wire.inbound /\ wire'.buf = << >>
      /\ wire'.out = Append(wire.out, yes) /\ wire'.pc = phase
  BY <1>1, <1>4 DEF Wires
<1> HIDE DEF o
<1>9. wire.inbound \in Seq(Tokens) /\ Len(wire.inbound) \in Nat
  BY <1>1, WireTyped
<1>10. Line' = wire.inbound
  BY <1>8, <1>9 DEF Line
<1>11. /\ \A x : Size(x)' = Size(x) /\ BlankOf(x)' = BlankOf(x) /\ (Genuine(x) <=> Genuine(x)')
       /\ \A x, y : Piece(x, y)' = Piece(x, y)
       /\ Turn' = Turn
  BY <1>8 DEF Size, BlankOf, Genuine, Piece, Turn
<1>12. /\ Len(wire.buf) \in Nat /\ Len(Line) = Len(wire.buf) + Len(wire.inbound)
       /\ \A i \in 1..Len(wire.inbound) : Line[Len(wire.buf) + i] = wire.inbound[i]
  <2>1. wire.buf \in Seq(Tokens)
    BY <1>1, WireTyped
  <2>2. Len(wire.buf) \in Nat
    BY <2>1
  <2>3. /\ Len(Line) = Len(wire.buf) + Len(wire.inbound)
        /\ \A i \in 1..Len(wire.inbound) : Line[Len(wire.buf) + i] = wire.inbound[i]
    BY <1>1, LineTyped
  <2> QED
    BY <2>2, <2>3
<1> DEFINE was == Len(wire.buf)
           more == Len(wire.inbound)
<1>a. /\ was \in Nat /\ more \in Nat /\ Len(Line) = was + more
      /\ \A i \in 1..more : Line[was + i] = wire.inbound[i]
  BY <1>9, <1>12
<1>b. more = Len(wire.inbound)
  OBVIOUS
<1> HIDE DEF was, more
<1>13. \A i \in 1..more : Genuine(wire.inbound[i]) /\ Before(wire.inbound[i], wire.next)
  <2> SUFFICES ASSUME NEW i \in 1..more PROVE Genuine(wire.inbound[i]) /\ Before(wire.inbound[i], wire.next)
    OBVIOUS
  <2>1. was + i \in 1..Len(Line)
    BY <1>a
  <2>2. Genuine(Line[was + i]) /\ Before(Line[was + i], wire.next)
    BY <2>1, <1>1 DEF InLine
  <2> QED
    BY <2>2, <1>a
<1>14. \A i, j \in 1..more : i < j => Before(wire.inbound[i], wire.inbound[j])
  <2> SUFFICES ASSUME NEW i \in 1..more, NEW j \in 1..more, i < j PROVE Before(wire.inbound[i], wire.inbound[j])
    OBVIOUS
  <2>1. was + i \in 1..Len(Line) /\ was + j \in 1..Len(Line) /\ was + i < was + j
    BY <1>a
  <2>2. Before(Line[was + i], Line[was + j])
    BY <2>1, <1>1 DEF InLine
  <2> QED
    BY <2>2, <1>a
<1>15. InLine'
  <2>1. wire'.next.req <= Len(wire'.script) => wire'.next.at <= Size(wire.next.req)'
    BY <1>1, <1>8, <1>11 DEF InLine
  <2>2. \A i \in 1..Len(Line') : Genuine(Line[i])' /\ Before(Line'[i], wire'.next)
    BY <1>8, <1>10, <1>11, <1>13, <1>b
  <2>3. \A i, j \in 1..Len(Line') : i < j => Before(Line'[i], Line'[j])
    BY <1>10, <1>14, <1>b
  <2> QED
    BY <2>1, <2>2, <2>3, <1>8 DEF InLine
<1>16. /\ Replies \subseteq 1..Len(wire.out) /\ Len(wire.out) \in Nat
       /\ Len(wire'.out) = Len(wire.out) + 1 /\ DOMAIN wire'.out = 1..(Len(wire.out) + 1)
       /\ \A a \in 1..Len(wire.out) : wire'.out[a] = wire.out[a]
       /\ wire'.out[Len(wire.out) + 1] = yes
       /\ Replies' = Replies \cup {Len(wire.out) + 1}
  BY <1>1, <1>3, <1>7, <1>8, OneAnswerMore, FinitelyMany
<1>17. Past(o, wire.inbound) /\ \A a \in Replies : wire.out[a].to \in 1..(o - 1)
  BY <1>1 DEF Fresh, o
<1>18. o \in 1..Len(wire.script) /\ wire.next.req \in Nat /\ wire.next.at \in Nat
  BY <1>1, <1>17, WireTyped DEF Past
<1>19. \A a \in Replies : Past(wire.out[a].to, wire.inbound)
  <2> SUFFICES ASSUME NEW a \in Replies PROVE Past(wire.out[a].to, wire.inbound)
    OBVIOUS
  <2> DEFINE x == wire.out[a].to
  <2>1. x \in 1..(o - 1)
    BY <1>17
  <2> HIDE DEF x
  <2>2. x \in 1..Len(wire.script) /\ x < o /\ x \in Nat
    <3>1. Len(wire.script) \in Nat
      BY <1>1, WireTyped
    <3> QED
      BY <2>1, <3>1, <1>18
  <2>3. Before(BlankOf(x), BlankOf(o))
    BY <2>2 DEF Before, BlankOf
  <2>4. /\ BlankOf(x).req \in Nat /\ BlankOf(x).at \in Nat /\ BlankOf(o).req \in Nat /\ BlankOf(o).at \in Nat
    <3>1. wire.script[x].head \in Nat /\ wire.script[o].head \in Nat
      BY <2>2, <1>1, <1>18, ShapeTyped
    <3> QED
      BY <3>1, <2>2, <1>2 DEF BlankOf
  <2>5. Before(BlankOf(x), wire.next)
    BY <2>3, <2>4, <1>17, <1>18, Transitive DEF Past
  <2>6. \A i \in 1..Len(wire.inbound) : Before(BlankOf(x), wire.inbound[i])
    <3> SUFFICES ASSUME NEW i \in 1..Len(wire.inbound) PROVE Before(BlankOf(x), wire.inbound[i])
      OBVIOUS
    <3>1. wire.inbound[i] \in Tokens
      BY <1>9
    <3>2. wire.inbound[i].req \in Nat /\ wire.inbound[i].at \in Nat
      BY <3>1 DEF Tokens
    <3>3. Before(BlankOf(o), wire.inbound[i])
      BY <1>17 DEF Past
    <3> QED
      BY <3>2, <3>3, <2>3, <2>4, Transitive
  <2>7. Past(x, wire.inbound)
    BY <2>2, <2>5, <2>6 DEF Past
  <2> QED
    BY <2>7 DEF x
<1>20. Fresh'
  <2>1. \A a, b \in Replies' : a < b => wire'.out[a].to < wire'.out[b].to
    <3> SUFFICES ASSUME NEW a \in Replies', NEW b \in Replies', a < b PROVE wire'.out[a].to < wire'.out[b].to
      OBVIOUS
    <3>1. a \in Replies
      BY <1>16
    <3>2. CASE b \in Replies
      <4>1. wire.out[a].to < wire.out[b].to
        BY <3>1, <3>2, <1>1 DEF Fresh
      <4> QED
        BY <3>1, <3>2, <4>1, <1>16
    <3>3. CASE b = Len(wire.out) + 1
      <4>1. wire'.out[b].to = o /\ wire'.out[a].to = wire.out[a].to
        BY <3>1, <3>3, <1>3, <1>16
      <4>2. wire.out[a].to \in 1..(o - 1)
        BY <3>1, <1>17
      <4> QED
        BY <4>1, <4>2, <1>2
    <3> QED
      BY <3>2, <3>3, <1>16
  <2>2. \A a \in DOMAIN wire'.out : wire'.out[a].status # 400
    <3>1. DOMAIN wire.out = 1..Len(wire.out)
      BY <1>1, FinitelyMany
    <3>2. \A a \in DOMAIN wire.out : wire.out[a].status # 400
      BY <1>1 DEF Fresh
    <3> SUFFICES ASSUME NEW a \in DOMAIN wire'.out PROVE wire'.out[a].status # 400
      OBVIOUS
    <3>3. CASE a \in 1..Len(wire.out)
      BY <3>1, <3>2, <3>3, <1>16
    <3>4. CASE a = Len(wire.out) + 1
      BY <3>4, <1>3, <1>16
    <3> QED
      BY <3>3, <3>4, <1>16
  <2>3. \A a \in Replies' : Past(wire.out[a].to, Line)'
    <3> SUFFICES ASSUME NEW a \in Replies' PROVE Past(wire.out[a].to, Line)'
      OBVIOUS
    <3>1. ASSUME NEW x, Past(x, wire.inbound) PROVE Past(x, Line)'
      BY <3>1, <1>8, <1>10, <1>11 DEF Past
    <3>2. CASE a \in Replies
      <4>1. wire'.out[a].to = wire.out[a].to
        BY <3>2, <1>16
      <4>2. Past(wire.out[a].to, wire.inbound)
        BY <3>2, <1>19
      <4> QED
        BY <3>1, <4>1, <4>2
    <3>3. CASE a = Len(wire.out) + 1
      <4>1. wire'.out[a].to = o
        BY <3>3, <1>3, <1>16
      <4> QED
        BY <3>1, <4>1, <1>17
    <3> QED
      BY <3>2, <3>3, <1>16
  <2>4. wire'.pc # "handle"
    BY <1>5, <1>8
  <2> QED
    BY <2>1, <2>2, <2>3, <2>4 DEF Fresh
<1>21. WholeRequests'
  BY <1>1, <1>8 DEF WholeRequests
<1>22. wire.polite => Waiting'
  <2> SUFFICES ASSUME wire.polite PROVE Waiting'
    OBVIOUS
  <2>1. /\ {wire.out[a].to : a \in Replies} = 1..Cardinality(Replies)
        /\ Cardinality(Replies) + 1 = Len(wire.handled)
        /\ o = Len(wire.handled) /\ wire.inbound = << >>
        /\ ~ wire.eof => wire.next = [req |-> Len(wire.handled) + 1, at |-> 1]
    BY <1>1 DEF WireInv, Waiting, o
  <2>2. IsFiniteSet(Replies) /\ Cardinality(Replies) \in Nat /\ Len(wire.out) + 1 \notin Replies
    BY <1>1, <1>16, FinitelyMany
  <2>3. Cardinality(Replies') = Cardinality(Replies) + 1
    BY <2>2, <1>16, FS_AddElement
  <2>4. {wire'.out[a].to : a \in Replies'} = {wire.out[a].to : a \in Replies} \cup {o}
    <3>1. \A a \in Replies : wire'.out[a].to = wire.out[a].to
      BY <1>16
    <3>2. wire'.out[Len(wire.out) + 1].to = o
      BY <1>3, <1>16
    <3> QED
      BY <3>1, <3>2, <1>16
  <2>5. {wire'.out[a].to : a \in Replies'} = 1..Cardinality(Replies')
    <3> DEFINE c == Cardinality(Replies)
    <3>1. c \in Nat /\ o = c + 1 /\ Cardinality(Replies') = c + 1
      BY <2>1, <2>2, <2>3
    <3>2. {wire'.out[a].to : a \in Replies'} = (1..c) \cup {o}
      BY <2>1, <2>4
    <3> HIDE DEF c
    <3>3. (1..c) \cup {o} = 1..(c + 1)
      BY <3>1
    <3> QED
      BY <3>1, <3>2, <3>3
  <2>6. Line' = << >> /\ Len(Line') = 0
    BY <2>1, <1>10
  <2>7. Turn' = Len(wire'.handled) + 1 /\ wire'.handled = wire.handled /\ wire'.pc \in {"read", "closed"}
        /\ wire'.eof = wire.eof /\ wire'.next = wire.next
    BY <1>5, <1>8 DEF Turn
  <2>8. wire'.pc = "read" =>
          /\ Cardinality(Replies') = Len(wire'.handled)
          /\ \A i \in 1..Len(Line') : Line'[i] = Piece(Turn, i)'
          /\ ~ wire'.eof => wire'.next = [req |-> Turn', at |-> Len(Line') + 1]
    BY <2>1, <2>3, <2>6, <2>7
  <2> QED
    BY <2>5, <2>7, <2>8 DEF Waiting
<1> QED
  BY <1>7, <1>8, <1>15, <1>20, <1>21, <1>22 DEF WireInv

(* A read brings some of what is in line.                                   *)
LEMMA WireReads == ASSUME WireInv, NEW n \in 1..Len(wire.inbound), Read(n) PROVE WireInv'
<1> DEFINE buf == wire.buf \o SubSeq(wire.inbound, 1, n)
           inbound == SubSeq(wire.inbound, n + 1, Len(wire.inbound))
           before == [wire EXCEPT !.buf = buf, !.inbound = inbound]
<1>1. wire \in Wires /\ wire.pc = "read" /\ wire.pc # "closed"
  BY DEF WireInv, Read
<1>2. buf \in Seq(Tokens) /\ inbound \in Seq(Tokens) /\ buf \o inbound = Line
  BY <1>1, CutMoves
<1>3. IF Blanks(buf) = {} THEN wire' = before
      ELSE \E fields \in Fields(buf) :
        LET asked == IF fields.expect
                     THEN [before EXCEPT !.out = Append(@, [status |-> 100, to |-> Owner(buf)])]
                     ELSE before
        IN IF Complete(buf, fields)
           THEN \/ wire' = Parsed(asked, fields)
                \/ ~ Intact(buf) /\ wire' = BadRequest(asked)
           ELSE wire' = asked
  BY DEF Read
<1>4. wire.out \in Seq(Answers) /\ OnlyNoted(wire.out)
  <2>1. wire.out \in Seq(Answers)
    BY <1>1, WireTyped
  <2> QED
    BY <2>1 DEF OnlyNoted
<1> HIDE DEF buf, inbound
<1> DEFINE Asked(out) == [wire EXCEPT !.buf = buf, !.inbound = inbound, !.out = out]
<1>5. before = Asked(wire.out)
  BY <1>1 DEF Wires
<1>6. ASSUME NEW out \in Seq(Answers)
      PROVE  /\ Asked(out) \in Wires
             /\ Asked(out).script = wire.script /\ Asked(out).polite = wire.polite /\ Asked(out).next = wire.next
             /\ Asked(out).eof = wire.eof /\ Asked(out).handled = wire.handled /\ Asked(out).pc = wire.pc
             /\ Asked(out).buf = buf /\ Asked(out).inbound = inbound /\ Asked(out).out = out
  <2> HIDE DEF Tokens, Answers, Parses
  <2> QED
    BY <1>1, <1>2, <1>6 DEF Wires
<1> HIDE DEF Asked
<1>7. ASSUME NEW out \in Seq(Answers), OnlyNoted(out),
             \A a \in 1..Len(out) : a > Len(wire.out) => out[a].status # 400, wire' = Asked(out)
      PROVE  WireInv'
  <2>1. Asked(out).buf \o Asked(out).inbound = Line
    BY <1>2, <1>6
  <2>2. /\ wire' \in Wires
        /\ wire'.script = wire.script /\ wire'.polite = wire.polite /\ wire'.next = wire.next
        /\ wire'.eof = wire.eof /\ wire'.handled = wire.handled /\ wire'.pc = wire.pc
        /\ wire'.out = out /\ wire'.buf \o wire'.inbound = Line
    BY <1>6, <1>7, <2>1
  <2>3. Line' = Line
    BY <2>2 DEF Line
  <2>4. OnlyNoted(wire'.out)
    BY <1>7, <2>2
  <2>5. \A a \in 1..Len(wire'.out) : a > Len(wire.out) /\ wire'.out[a].status = 400
                                        => a = Len(wire'.out) /\ wire'.pc = "closed"
    BY <1>7, <2>2
  <2>6. wire'.pc = "closed" \/ (wire.pc = "read" /\ wire'.pc = "read")
    BY <1>1, <2>2
  <2> QED
    BY <1>1, <2>2, <2>3, <2>4, <2>5, <2>6, NothingAnswered
<1>8. CASE Blanks(buf) = {}
  <2>1. wire' = Asked(wire.out)
    BY <1>3, <1>5, <1>8
  <2>2. \A a \in 1..Len(wire.out) : a > Len(wire.out) => wire.out[a].status # 400
    BY <1>4
  <2> QED
    BY <1>4, <1>7, <2>1, <2>2
<1>9. CASE Blanks(buf) # {}
  <2>1. PICK fields \in Fields(buf) :
          LET asked == IF fields.expect
                       THEN [before EXCEPT !.out = Append(@, [status |-> 100, to |-> Owner(buf)])]
                       ELSE before
          IN IF Complete(buf, fields)
             THEN \/ wire' = Parsed(asked, fields)
                  \/ ~ Intact(buf) /\ wire' = BadRequest(asked)
             ELSE wire' = asked
    BY <1>3, <1>9
  <2> DEFINE note == [status |-> 100, to |-> Owner(buf)]
             out == IF fields.expect THEN Append(wire.out, note) ELSE wire.out
  <2> USE DEF Asked
  <2>2. note \in Answers /\ note.status = 100
    BY <1>2, <1>9, HeadFound DEF Answers
  <2>3. [before EXCEPT !.out = Append(wire.out, note)] = Asked(Append(wire.out, note)) /\ before.out = wire.out
    BY <1>1 DEF Wires
  <2>4. IF Complete(buf, fields)
        THEN \/ wire' = Parsed(Asked(out), fields)
             \/ ~ Intact(buf) /\ wire' = BadRequest(Asked(out))
        ELSE wire' = Asked(out)
    <3>1. CASE fields.expect
      <4>1. out = Append(wire.out, note) /\ [before EXCEPT !.out = Append(@, note)] = Asked(out)
        BY <3>1, <2>3
      <4> HIDE DEF before, Asked, out
      <4> QED
        BY <2>1, <3>1, <4>1
    <3>2. CASE ~ fields.expect
      <4>1. before = Asked(out)
        BY <3>2, <1>5
      <4> HIDE DEF before, Asked, out
      <4> QED
        BY <2>1, <3>2, <4>1
    <3> QED
      BY <3>1, <3>2
  <2>5. out \in Seq(Answers) /\ OnlyNoted(out) /\ \A a \in 1..Len(out) : a > Len(wire.out) => out[a].status # 400
    <3>1. CASE fields.expect
      <4>1. out = Append(wire.out, note)
        BY <3>1
      <4> HIDE DEF note, out
      <4>2. /\ out \in Seq(Answers) /\ Len(out) = Len(wire.out) + 1 /\ Len(wire.out) \in Nat
            /\ \A i \in 1..Len(wire.out) : out[i] = wire.out[i]
            /\ out[Len(wire.out) + 1] = note
        BY <1>4, <2>2, <4>1
      <4>3. \A a \in 1..Len(out) : a > Len(wire.out) => out[a].status = 100
        BY <2>2, <4>2
      <4> QED
        BY <4>2, <4>3 DEF OnlyNoted
    <3>2. CASE ~ fields.expect
      BY <3>2, <1>4
    <3> QED
      BY <3>1, <3>2
  <2> HIDE DEF note, out, before, Asked
  <2>6. CASE Complete(buf, fields) /\ wire' = Parsed(Asked(out), fields)
    <3>1. Takes(buf, inbound, fields, out)
      <4>1. /\ Asked(out).buf = buf /\ wire' = [Asked(out) EXCEPT !.pc = "handle", !.request = RequestOf(buf, fields),
                                                        !.handled = Append(Asked(out).handled, RequestOf(buf, fields))]
        BY <2>5, <2>6, <1>6 DEF Parsed, RequestOf
      <4>2. Asked(out).handled = wire.handled
        BY <2>5, <1>6
      <4>3. wire' = [Asked(out) EXCEPT !.pc = "handle", !.request = RequestOf(buf, fields),
                                       !.handled = Append(wire.handled, RequestOf(buf, fields))]
        BY <4>1, <4>2
      <4> QED
        BY <4>3, <1>1 DEF Takes, Wires, Asked
    <3> QED
      BY <1>1, <1>2, <1>9, <2>5, <2>6, <3>1, RequestParsed
  <2>7. CASE wire' = BadRequest(Asked(out))
    <3> DEFINE asked == Asked(out)
    <3>1. /\ asked \in Wires
          /\ asked.script = wire.script /\ asked.polite = wire.polite /\ asked.next = wire.next
          /\ asked.eof = wire.eof /\ asked.handled = wire.handled /\ asked.out = out
          /\ asked.buf = buf /\ asked.inbound = inbound
      BY <1>6, <2>5
    <3>2. wire' = BadRequest(asked)
      BY <2>7
    <3> HIDE DEF asked
    <3>3. asked.buf \o asked.inbound = Line
      BY <3>1, <1>2
    <3>4. OnlyNoted(asked.out) /\ \A a \in 1..Len(asked.out) : a > Len(wire.out) => asked.out[a].status # 400
      BY <3>1, <2>5
    <3>5. wire.pc = "read"
      BY <1>1
    <3> QED
      BY <3>1, <3>2, <3>3, <3>4, <3>5, Refused
  <2>8. CASE wire' = Asked(out)
    BY <1>7, <2>5, <2>8
  <2> QED
    BY <2>4, <2>6, <2>7, <2>8
<1> QED
  BY <1>8, <1>9

(* The server reads in vain: too much, nothing more, or nothing in time.    *)
LEMMA NothingNoted == ASSUME wire \in Wires PROVE OnlyNoted(wire.out)
<1>1. wire.out \in Seq(Answers)
  BY WireTyped
<1> QED
  BY <1>1 DEF OnlyNoted

LEMMA GivenUp == ASSUME WireInv, wire.pc = "read", wire' = BadRequest(wire) PROVE WireInv'
<1>1. wire \in Wires /\ OnlyNoted(wire.out) /\ wire.buf \o wire.inbound = Line
  BY NothingNoted DEF WireInv, Line
<1>2. wire.out \in Seq(Answers)
  BY <1>1, WireTyped
<1>3. \A a \in 1..Len(wire.out) : a > Len(wire.out) => wire.out[a].status # 400
  BY <1>2
<1> QED
  BY <1>1, <1>3, Refused

LEMMA WireEnds == ASSUME WireInv, EndOfFile PROVE WireInv'
<1>1. wire \in Wires /\ wire.pc = "read" /\ wire.eof /\ wire.inbound = << >> /\ wire.buf \o wire.inbound = Line
  BY DEF WireInv, EndOfFile, Line
<1>2. wire.buf \in Seq(Tokens) /\ wire.inbound \in Seq(Tokens) /\ wire.out \in Seq(Answers) /\ OnlyNoted(wire.out)
  BY <1>1, WireTyped, NothingNoted
<1>3. CASE wire' = BadRequest(wire)
  BY <1>1, <1>3, GivenUp
<1>4. ASSUME Blanks(wire.buf) # {}, NEW fields \in Fields(wire.buf), wire' = Parsed(wire, fields) PROVE WireInv'
  <2>1. wire' = [wire EXCEPT !.pc = "handle", !.request = RequestOf(wire.buf, fields),
                             !.handled = Append(wire.handled, RequestOf(wire.buf, fields))]
    BY <1>4 DEF Parsed, RequestOf
  <2>2. Takes(wire.buf, wire.inbound, fields, wire.out)
    BY <2>1, <1>1 DEF Takes, Wires
  <2>3. \A a \in 1..Len(wire.out) : a > Len(wire.out) => wire.out[a].status # 400
    BY <1>2
  <2> QED
    BY <1>1, <1>2, <1>4, <2>2, <2>3, RequestParsed
<1> QED
  BY <1>3, <1>4 DEF EndOfFile

LEMMA WireBreaks == ASSUME WireInv, Broken PROVE WireInv'
<1>1. wire \in Wires /\ wire.pc # "closed" /\ wire' = [wire EXCEPT !.pc = "closed"]
  BY DEF WireInv, Broken
<1>2. wire' \in Wires
  BY <1>1 DEF Wires
<1>3. /\ wire'.script = wire.script /\ wire'.polite = wire.polite /\ wire'.next = wire.next /\ wire'.buf = wire.buf
      /\ wire'.pc = "closed" /\ wire'.out = wire.out /\ wire'.handled = wire.handled
      /\ wire'.inbound = wire.inbound /\ wire'.eof = wire.eof
  BY <1>1 DEF Wires
<1>4. Line' = Line /\ OnlyNoted(wire'.out)
  BY <1>1, <1>3, NothingNoted DEF Line
<1>5. \A a \in 1..Len(wire'.out) : a > Len(wire.out) /\ wire'.out[a].status = 400
                                      => a = Len(wire'.out) /\ wire'.pc = "closed"
  <2>1. wire.out \in Seq(Answers)
    BY <1>1, WireTyped
  <2> QED
    BY <2>1, <1>3
<1> QED
  <2>1. wire.pc # "closed" /\ (wire'.pc = "closed" \/ (wire.pc = "read" /\ wire'.pc = "read"))
    BY <1>1, <1>3
  <2>2. /\ wire'.script = wire.script /\ wire'.polite = wire.polite /\ wire'.next = wire.next
        /\ wire'.eof = wire.eof /\ wire'.handled = wire.handled
    BY <1>3
  <2> QED
    BY <2>1, <2>2, <1>2, <1>4, <1>5, NothingAnswered

LEMMA WireSteps == WireInv /\ [WireNext]_wire => WireInv'
<1> SUFFICES ASSUME WireInv, [WireNext]_wire PROVE WireInv'
  OBVIOUS
<1>1. CASE Send
  BY <1>1, WireSends
<1>2. ASSUME NEW n \in 1..Len(wire.inbound), Read(n) PROVE WireInv'
  BY <1>2, WireReads
<1>3. CASE CloseSide
  BY <1>3, SideCloses
<1>4. CASE Broken
  BY <1>4, WireBreaks
<1>5. CASE TooLarge
  BY <1>5, GivenUp DEF TooLarge
<1>6. CASE EndOfFile
  BY <1>6, WireEnds
<1>7. CASE ReadTimeout
  BY <1>7, GivenUp DEF ReadTimeout
<1>8. CASE SendResponse
  BY <1>8, AnswerWritten
<1>9. CASE UNCHANGED wire
  <2>1. /\ \A x : Size(x)' = Size(x) /\ BlankOf(x)' = BlankOf(x) /\ (Genuine(x) <=> Genuine(x)')
        /\ \A x, y : Piece(x, y)' = Piece(x, y)
        /\ Replies' = Replies /\ Turn' = Turn /\ Line' = Line
    BY <1>9 DEF Size, BlankOf, Genuine, Piece, Replies, Finals, Turn, Line
  <2>2. InLine'
    BY <1>9, <2>1 DEF WireInv, InLine
  <2>3. Fresh'
    BY <1>9, <2>1 DEF WireInv, Fresh, Past
  <2>4. WholeRequests'
    <3>1. wire'.script = wire.script /\ wire'.polite = wire.polite /\ wire'.handled = wire.handled
      BY <1>9
    <3>2. WholeRequests
      BY DEF WireInv
    <3> QED
      BY <3>1, <3>2 DEF WholeRequests
  <2>5. wire'.polite => Waiting'
    <3>1. wire.polite => Waiting
      BY DEF WireInv
    <3> QED
      BY <1>9, <2>1, <3>1 DEF Waiting
  <2> QED
    BY <1>9, <2>2, <2>3, <2>4, <2>5 DEF WireInv
<1> QED
  BY <1>1, <1>2, <1>3, <1>4, <1>5, <1>6, <1>7, <1>8, <1>9 DEF WireNext

LEMMA WireSuffices == WireInv => WireIsSound
BY DEF WireInv, Fresh, Waiting, WireIsSound, AnswersInOrder

(* However the bytes of any sequence of requests are cut into reads, at any *)
(* size of the read buffer: a client that waits for its answers has every   *)
(* request handled as it sent it and answered in turn, and no client is     *)
(* answered twice, out of order, or after a 400.                            *)
THEOREM WireSound ==
  ASSUME NEW script \in Seq(Shape), NEW polite \in BOOLEAN
  PROVE  WireSpec(script, polite) => []WireIsSound
<1>1. WireInit(script, polite) => WireInv
  BY WireStarts
<1> QED
  BY <1>1, WireSteps, WireSuffices, PTL DEF WireSpec
-----------------------------------------------------------------------------
(***************************************************************************)
(* The router (Routing)                                                    *)
(***************************************************************************)
(* The routes that a program declares: E. Every one is as the macros and    *)
(* the builders make it.                                                    *)
Segments == [par : BOOLEAN, name : STRING]
WellFormed(route) ==
  /\ route.path \in Seq(Segments) /\ route.method \in Methods
  /\ route.role \in Roles \cup {NoRole} /\ route.caps \in Seq(Seq(Roles))
Way(k) == routing.registered[k].path

IsTable ==
  routing = [pending |-> routing.pending, children |-> routing.children, targets |-> routing.targets,
             registered |-> routing.registered, inherits |-> routing.inherits, catches |-> routing.catches,
             answer |-> routing.answer]

(* The trie branches as the paths do, names of parameters aside: a node has *)
(* its beginnings above it and no twin beside it, and is there because of a *)
(* route, and every route has a node.                                       *)
Rooted ==
  /\ routing.children \subseteq Seq(Segments) /\ << >> \in routing.children
  /\ \A n \in routing.children : \A k \in 0..Len(n) : Upto(n, k) \in routing.children
  /\ \A n, o \in routing.children : Twins(n, o) => n = o
  /\ \A n \in routing.children : n # << >> =>
       \E k \in 1..Len(routing.registered) : \E i \in 0..Len(Way(k)) : Twins(n, Upto(Way(k), i))
  /\ \A k \in 1..Len(routing.registered) : \E n \in routing.children :
       Twins(n, Way(k)) /\ <<n, routing.registered[k].method>> \in DOMAIN routing.targets

(* At a node stands what was last registered for it.                        *)
Newest(n, m, k) ==
  /\ routing.registered[k].method = m /\ Twins(n, Way(k))
  /\ \A j \in 1..Len(routing.registered) : routing.registered[j].method = m /\ Twins(n, Way(j)) => j <= k
TargetsStand ==
  /\ \A p \in DOMAIN routing.targets : p = <<p[1], p[2]>> /\ p[1] \in routing.children /\ p[2] \in Methods
  /\ \A n \in routing.children : \A m \in Methods : <<n, m>> \in DOMAIN routing.targets =>
       \E k \in 1..Len(routing.registered) :
         Newest(n, m, k) /\ routing.targets[<<n, m>>] = TargetOf(routing.registered[k])

TrieInv(E) ==
  /\ IsTable /\ routing.pending \in Seq(SUBSET E) /\ routing.registered \in Seq(E)
  /\ Rooted /\ TargetsStand
-----------------------------------------------------------------------------
LEMMA SeqDomain ==
  ASSUME NEW S, NEW a \in Seq(S)
  PROVE  Len(a) \in Nat /\ DOMAIN a = 1..Len(a) /\ \A i \in 1..Len(a) : a[i] \in S
OBVIOUS

LEMMA TwinsAlike ==
  ASSUME NEW a \in Seq(Segments), NEW b \in Seq(Segments), NEW c \in Seq(Segments)
  PROVE  /\ Twins(a, b) /\ Twins(b, c) => Twins(a, c)
         /\ Twins(a, c) /\ Twins(b, c) => Twins(a, b)
         /\ Twins(a, a)
<1>1. /\ Len(a) \in Nat /\ Len(b) \in Nat /\ Len(c) \in Nat
      /\ DOMAIN a = 1..Len(a) /\ DOMAIN b = 1..Len(b) /\ DOMAIN c = 1..Len(c)
  BY SeqDomain
<1>2. \A x, y, z : /\ SameBranch(x, y) /\ SameBranch(y, z) => SameBranch(x, z)
                   /\ SameBranch(x, z) /\ SameBranch(y, z) => SameBranch(x, y)
                   /\ SameBranch(x, x)
  BY DEF SameBranch
<1> QED
  BY <1>1, <1>2 DEF Twins

LEMMA UptoIs ==
  ASSUME NEW S, NEW a \in Seq(S), NEW n \in 0..Len(a)
  PROVE  /\ Upto(a, n) \in Seq(S) /\ Len(Upto(a, n)) = n /\ DOMAIN Upto(a, n) = 1..n
         /\ \A i \in 1..n : Upto(a, n)[i] = a[i]
BY DEF Upto

LEMMA UptoUpto ==
  ASSUME NEW S, NEW a \in Seq(S), NEW n \in 0..Len(a), NEW k \in 0..n
  PROVE  Upto(Upto(a, n), k) = Upto(a, k)
BY DEF Upto

LEMMA WholeUpto ==
  ASSUME NEW S, NEW a \in Seq(S)
  PROVE  Upto(a, Len(a)) = a
BY DEF Upto

LEMMA SameSequence ==
  ASSUME NEW S, NEW a \in Seq(S), NEW b \in Seq(S), Len(a) = Len(b), \A i \in 1..Len(a) : a[i] = b[i]
  PROVE  a = b
BY SeqEqual

LEMMA TwinsUpto ==
  ASSUME NEW a \in Seq(Segments), NEW b \in Seq(Segments), Twins(a, b), NEW n \in 0..Len(a)
  PROVE  Twins(Upto(a, n), Upto(b, n)) /\ Len(b) = Len(a)
<1>1. Len(b) = Len(a) /\ n \in 0..Len(b)
  BY DEF Twins
<1>2. /\ Len(Upto(a, n)) = n /\ (\A i \in 1..n : Upto(a, n)[i] = a[i])
      /\ Len(Upto(b, n)) = n /\ DOMAIN Upto(b, n) = 1..n /\ \A i \in 1..n : Upto(b, n)[i] = b[i]
  BY <1>1, UptoIs
<1>3. n \in Nat /\ DOMAIN b = 1..Len(b) /\ Len(a) \in Nat
  BY SeqDomain
<1>4. \A i \in 1..n : SameBranch(a[i], b[i])
  BY <1>1, <1>3 DEF Twins
<1> QED
  BY <1>1, <1>2, <1>4 DEF Twins

(* A set of sequences that are not longer than some bound has a longest.    *)
LEMMA Longest ==
  ASSUME NEW S, NEW K, K \subseteq Seq(S), K # {}, NEW N \in Nat, \A n \in K : Len(n) <= N
  PROVE  \E n \in K : \A o \in K : Len(o) <= Len(n)
<1> DEFINE B == {N - Len(n) : n \in K}
<1>1. \A n \in K : Len(n) \in Nat
  OBVIOUS
<1>2. B \subseteq Nat /\ B # {} /\ (\A n \in K : N - Len(n) \in B) /\ \A b \in B : \E n \in K : b = N - Len(n)
  BY <1>1
<1> HIDE DEF B
<1>3. PICK b \in B : \A y \in B : ~ (<<y, b>> \in OpToRel(<, Nat))
  BY <1>2, WFMin, NatLessThanWellFounded
<1>4. PICK n \in K : b = N - Len(n)
  BY <1>2
<1>5. \A y \in B : ~ (y < b)
  BY <1>2, <1>3 DEF OpToRel
<1>6. \A o \in K : Len(o) <= Len(n)
  <2> SUFFICES ASSUME NEW o \in K PROVE Len(o) <= Len(n)
    OBVIOUS
  <2>1. ~ (N - Len(o) < N - Len(n))
    BY <1>2, <1>4, <1>5
  <2>2. Len(o) \in Nat /\ Len(n) \in Nat
    BY <1>1
  <2> QED
    BY <2>1, <2>2
<1> QED
  BY <1>6

(* The last of some places, of which there are finitely many.               *)
LEMMA LastIs ==
  ASSUME NEW N \in Nat, NEW P \in SUBSET (1..N), P # {}
  PROVE  LastOf(P) \in P /\ \A j \in P : j <= LastOf(P)
<1> DEFINE B == {N - k : k \in P}
<1>1. \A k \in P : k \in Nat /\ k <= N /\ N - k \in Nat
  OBVIOUS
<1>2. B \subseteq Nat /\ B # {} /\ (\A k \in P : N - k \in B) /\ \A b \in B : \E k \in P : b = N - k
  BY <1>1
<1> HIDE DEF B
<1>3. PICK b \in B : \A y \in B : ~ (<<y, b>> \in OpToRel(<, Nat))
  BY <1>2, WFMin, NatLessThanWellFounded
<1>4. PICK k \in P : b = N - k
  BY <1>2
<1>5. \A y \in B : ~ (y < b)
  BY <1>2, <1>3 DEF OpToRel
<1>6. \A j \in P : j <= k
  <2> SUFFICES ASSUME NEW j \in P PROVE j <= k
    OBVIOUS
  <2>1. ~ (N - j < N - k)
    BY <1>2, <1>4, <1>5
  <2> QED
    BY <2>1, <1>1
<1> QED
  BY <1>6 DEF LastOf

(* The branch that a path takes in the trie, and what grows out of it.      *)
Known(path) == {n \in routing.children : \E start \in Beginnings(path) : Twins(n, start)}
Trunk(path) == CHOOSE n \in Known(path) : \A o \in Known(path) : Len(o) <= Len(n)
Branch(path) == Trunk(path) \o SubSeq(path, Len(Trunk(path)) + 1, Len(path))

LEMMA TrunkIs ==
  ASSUME Rooted, NEW path \in Seq(Segments)
  PROVE  /\ Trunk(path) \in routing.children /\ Trunk(path) \in Seq(Segments)
         /\ Len(Trunk(path)) \in 0..Len(path)
         /\ Twins(Trunk(path), Upto(path, Len(Trunk(path))))
         /\ \A n \in routing.children : \A k \in 0..Len(path) : Twins(n, Upto(path, k)) => k <= Len(Trunk(path))
<1> DEFINE K == Known(path)
<1>1. Len(path) \in Nat /\ Upto(path, 0) = << >> /\ Twins(<< >>, << >>)
  BY SeqDomain DEF Upto, Twins
<1>2. << >> \in K
  BY <1>1 DEF Known, Beginnings, Rooted
<1>3. \A n \in K : n \in routing.children /\ \E k \in 0..Len(path) : Twins(n, Upto(path, k)) /\ Len(n) = k
  <2> SUFFICES ASSUME NEW n \in K PROVE n \in routing.children /\ \E k \in 0..Len(path) : Twins(n, Upto(path, k)) /\ Len(n) = k
    OBVIOUS
  <2>1. PICK k \in 0..Len(path) : Twins(n, Upto(path, k))
    BY DEF Known, Beginnings
  <2>2. Len(Upto(path, k)) = k
    BY UptoIs
  <2> QED
    BY <2>1, <2>2 DEF Known, Twins
<1>4. K \subseteq Seq(Segments) /\ \A n \in K : Len(n) <= Len(path)
  BY <1>1, <1>3 DEF Rooted
<1>5. \A n \in routing.children : \A k \in 0..Len(path) : Twins(n, Upto(path, k)) => n \in K /\ Len(n) = k
  <2> SUFFICES ASSUME NEW n \in routing.children, NEW k \in 0..Len(path), Twins(n, Upto(path, k)) PROVE n \in K /\ Len(n) = k
    OBVIOUS
  <2>1. Len(Upto(path, k)) = k
    BY UptoIs
  <2> QED
    BY <2>1 DEF Known, Beginnings, Twins
<1> HIDE DEF K
<1>6. \E n \in K : \A o \in K : Len(o) <= Len(n)
  BY <1>1, <1>2, <1>4, Longest
<1>7. Trunk(path) \in K /\ \A o \in K : Len(o) <= Len(Trunk(path))
  BY <1>6 DEF Trunk, K
<1>8. Trunk(path) \in routing.children /\ Trunk(path) \in Seq(Segments)
  BY <1>3, <1>4, <1>7
<1>9. Len(Trunk(path)) \in 0..Len(path) /\ Twins(Trunk(path), Upto(path, Len(Trunk(path))))
  BY <1>3, <1>7
<1>10. \A n \in routing.children : \A k \in 0..Len(path) : Twins(n, Upto(path, k)) => k <= Len(Trunk(path))
  BY <1>5, <1>7
<1> QED
  BY <1>8, <1>9, <1>10

LEMMA BranchIs ==
  ASSUME Rooted, NEW path \in Seq(Segments)
  PROVE  /\ Branch(path) \in Seq(Segments) /\ Len(Branch(path)) = Len(path) /\ Twins(Branch(path), path)
         /\ \A k \in 0..Len(Trunk(path)) : Upto(Branch(path), k) = Upto(Trunk(path), k)
<1> DEFINE trunk == Trunk(path)
           m == Len(trunk)
           rest == SubSeq(path, m + 1, Len(path))
           node == trunk \o rest
<1>1. trunk \in Seq(Segments) /\ m \in 0..Len(path) /\ Twins(trunk, Upto(path, m)) /\ Len(path) \in Nat
  BY TrunkIs, SeqDomain
<1>2. node = Branch(path)
  BY DEF Branch
<1> HIDE DEF trunk
<1>3. /\ rest \in Seq(Segments) /\ Len(rest) = Len(path) - m
      /\ \A i \in 1..(Len(path) - m) : rest[i] = path[m + i]
  BY <1>1
<1> HIDE DEF rest
<1>4. /\ node \in Seq(Segments) /\ Len(node) = m + Len(rest)
      /\ (\A i \in 1..m : node[i] = trunk[i]) /\ \A i \in 1..Len(rest) : node[m + i] = rest[i]
  BY <1>1, <1>3
<1> HIDE DEF node
<1>5. Len(node) = Len(path)
  BY <1>1, <1>3, <1>4
<1>6. \A i \in 1..Len(path) : SameBranch(node[i], path[i])
  <2> SUFFICES ASSUME NEW i \in 1..Len(path) PROVE SameBranch(node[i], path[i])
    OBVIOUS
  <2>1. CASE i \in 1..m
    <3>1. Upto(path, m)[i] = path[i] /\ DOMAIN Upto(path, m) = 1..m
      BY <2>1, <1>1, UptoIs
    <3> QED
      BY <3>1, <2>1, <1>1, <1>4 DEF Twins
  <2>2. CASE i > m
    <3> DEFINE j == i - m
    <3>1. j \in 1..(Len(path) - m) /\ i = m + j
      BY <2>2, <1>1
    <3> HIDE DEF j
    <3>2. node[i] = path[i]
      BY <3>1, <1>3, <1>4
    <3> QED
      BY <3>2 DEF SameBranch
  <2> QED
    BY <2>1, <2>2, <1>1
<1>7. \A k \in 0..m : Upto(node, k) = Upto(trunk, k)
  <2> SUFFICES ASSUME NEW k \in 0..m PROVE Upto(node, k) = Upto(trunk, k)
    OBVIOUS
  <2>1. k \in 0..Len(node) /\ k \in 0..Len(trunk)
    BY <1>1, <1>5
  <2>2. /\ Upto(node, k) \in Seq(Segments) /\ Len(Upto(node, k)) = k /\ \A i \in 1..k : Upto(node, k)[i] = node[i]
    BY <2>1, <1>4, UptoIs
  <2>3. /\ Upto(trunk, k) \in Seq(Segments) /\ Len(Upto(trunk, k)) = k /\ \A i \in 1..k : Upto(trunk, k)[i] = trunk[i]
    BY <2>1, <1>1, UptoIs
  <2>4. \A i \in 1..k : node[i] = trunk[i]
    BY <1>1, <1>4
  <2> QED
    BY <2>2, <2>3, <2>4, SameSequence
<1>8. DOMAIN path = 1..Len(path)
  BY SeqDomain
<1> QED
  BY <1>2, <1>4, <1>5, <1>6, <1>7, <1>8 DEF Twins, trunk

LEMMA Extensional ==
  ASSUME IsTable, NEW p, NEW c, NEW t, NEW g,
         routing' = [routing EXCEPT !.children = c, !.targets = t, !.registered = g, !.pending = p]
  PROVE  /\ routing'.pending = p /\ routing'.children = c /\ routing'.targets = t /\ routing'.registered = g
         /\ routing'.inherits = routing.inherits /\ routing'.catches = routing.catches
         /\ routing'.answer = routing.answer /\ IsTable'
BY DEF IsTable

(* A route is entered: one place is written, and the trie has grown by one  *)
(* branch at most.                                                          *)
Grown(route) ==
  LET place == <<Branch(route.path), route.method>> IN
  /\ routing'.children = routing.children \cup Beginnings(Branch(route.path))
  /\ routing'.targets = [p \in (DOMAIN routing.targets) \cup {place} |->
                           IF p = place THEN TargetOf(route) ELSE routing.targets[p]]
  /\ routing'.registered = Append(routing.registered, route)
  /\ routing'.inherits = routing.inherits /\ routing'.catches = routing.catches /\ routing'.answer = routing.answer

LEMMA RouteEntered ==
  ASSUME NEW E, NEW route \in E, TrieInv(E), routing.pending # << >>, AddRoute(route)
  PROVE  IsTable' /\ routing'.pending \in Seq(SUBSET E) /\ Grown(route)
<1> DEFINE phase == Head(routing.pending)
           place == <<Branch(route.path), route.method>>
           p == (IF phase = {route} THEN << >> ELSE <<phase \ {route}>>) \o Tail(routing.pending)
           c == routing.children \cup Beginnings(Branch(route.path))
           t == [q \in (DOMAIN routing.targets) \cup {place} |-> IF q = place THEN TargetOf(route) ELSE routing.targets[q]]
           g == Append(routing.registered, route)
<1>1. routing' = [routing EXCEPT !.children = c, !.targets = t, !.registered = g, !.pending = p]
  BY DEF AddRoute, Branch, Trunk, Known
<1>2. p \in Seq(SUBSET E)
  <2>1. routing.pending \in Seq(SUBSET E)
    BY DEF TrieInv
  <2>2. phase \in SUBSET E /\ Tail(routing.pending) \in Seq(SUBSET E)
    BY <2>1
  <2> DEFINE first == IF phase = {route} THEN << >> ELSE <<phase \ {route}>>
             rest == Tail(routing.pending)
  <2>3. first \in Seq(SUBSET E) /\ rest \in Seq(SUBSET E)
    <3> DEFINE left == phase \ {route}
    <3>1. left \in SUBSET E
      BY <2>2
    <3> HIDE DEF left
    <3>2. <<left>> \in Seq(SUBSET E) /\ << >> \in Seq(SUBSET E)
      BY <3>1
    <3>3. first = << >> \/ first = <<left>>
      BY DEF left
    <3> QED
      BY <2>2, <3>2, <3>3
  <2> HIDE DEF first, rest
  <2>4. first \o rest \in Seq(SUBSET E)
    BY <2>3
  <2> QED
    BY <2>4 DEF first, rest
<1> HIDE DEF p, c, t, g
<1>3. /\ routing'.pending = p /\ routing'.children = c /\ routing'.targets = t /\ routing'.registered = g
      /\ routing'.inherits = routing.inherits /\ routing'.catches = routing.catches
      /\ routing'.answer = routing.answer /\ IsTable'
  BY <1>1, Extensional DEF TrieInv
<1> QED
  BY <1>2, <1>3 DEF Grown, c, t, g

LEMMA TrieGrows ==
  ASSUME NEW E, NEW route \in E, route.path \in Seq(Segments), Rooted, \A r \in E : r.path \in Seq(Segments),
         routing.registered \in Seq(E), Grown(route)
  PROVE  /\ routing'.registered \in Seq(E) /\ Len(routing'.registered) = Len(routing.registered) + 1
         /\ \A k \in 1..Len(routing.registered) : routing'.registered[k] = routing.registered[k]
         /\ routing'.registered[Len(routing.registered) + 1] = route /\ Len(routing.registered) \in Nat
         /\ Branch(route.path) \in routing'.children /\ Rooted'
<1> DEFINE path == route.path
           node == Branch(path)
           m == Len(Trunk(path))
           L == Len(routing.registered)
<1>1. /\ routing'.registered \in Seq(E) /\ Len(routing'.registered) = L + 1 /\ L \in Nat
      /\ (\A k \in 1..L : routing'.registered[k] = routing.registered[k]) /\ routing'.registered[L + 1] = route
  BY DEF Grown
<1>2. routing'.children = routing.children \cup Beginnings(node) /\ DOMAIN routing.targets \subseteq DOMAIN routing'.targets
      /\ <<node, route.method>> \in DOMAIN routing'.targets
  BY DEF Grown
<1>3. path \in Seq(Segments) /\ Len(path) \in Nat
  BY SeqDomain
<1> HIDE DEF L
<1> HIDE DEF path
<1>4. /\ node \in Seq(Segments) /\ Len(node) = Len(path) /\ Twins(node, path)
      /\ \A k \in 0..m : Upto(node, k) = Upto(Trunk(path), k)
  BY <1>3, BranchIs
<1>5. /\ Trunk(path) \in routing.children /\ Trunk(path) \in Seq(Segments) /\ m \in 0..Len(path)
      /\ \A n \in routing.children : \A k \in 0..Len(path) : Twins(n, Upto(path, k)) => k <= m
  BY <1>3, TrunkIs
<1> HIDE DEF node, m
<1>6. \A n \in Beginnings(node) : \E k \in 0..Len(path) :
        n = Upto(node, k) /\ n \in Seq(Segments) /\ Len(n) = k /\ Twins(n, Upto(path, k))
  <2> SUFFICES ASSUME NEW k \in 0..Len(path)
               PROVE  Upto(node, k) \in Seq(Segments) /\ Len(Upto(node, k)) = k /\ Twins(Upto(node, k), Upto(path, k))
    BY <1>4 DEF Beginnings
  <2>1. k \in 0..Len(node)
    BY <1>4
  <2> QED
    BY <2>1, <1>3, <1>4, UptoIs, TwinsUpto
<1>7. node \in Beginnings(node) /\ << >> \in routing'.children
  <2>1. Upto(node, Len(node)) = node /\ Len(node) \in 0..Len(node)
    BY <1>3, <1>4, WholeUpto
  <2> QED
    BY <2>1, <1>2 DEF Beginnings, Rooted
<1>8. routing'.children \subseteq Seq(Segments)
  BY <1>2, <1>6 DEF Rooted
<1>9. \A n \in routing'.children : \A k \in 0..Len(n) : Upto(n, k) \in routing'.children
  <2> SUFFICES ASSUME NEW n \in Beginnings(node), NEW k \in 0..Len(n) PROVE Upto(n, k) \in Beginnings(node)
    BY <1>2 DEF Rooted
  <2>1. PICK x \in 0..Len(node) : n = Upto(node, x)
    BY DEF Beginnings
  <2>2. Len(n) = x
    BY <2>1, <1>4, UptoIs
  <2>3. Upto(n, k) = Upto(node, k) /\ k \in 0..Len(node)
    BY <2>1, <2>2, <1>3, <1>4, UptoUpto
  <2> QED
    BY <2>3 DEF Beginnings
<1>10. ASSUME NEW n \in routing.children, NEW o \in Beginnings(node), Twins(n, o) \/ Twins(o, n) PROVE n = o
  <2>1. PICK k \in 0..Len(path) : o = Upto(node, k) /\ o \in Seq(Segments) /\ Len(o) = k /\ Twins(o, Upto(path, k))
    BY <1>6
  <2>2. n \in Seq(Segments) /\ Upto(path, k) \in Seq(Segments)
    BY <1>3, UptoIs DEF Rooted
  <2>3. Twins(n, o) /\ Twins(o, n)
    <3>1. Twins(o, o) /\ Twins(n, n)
      BY <2>1, <2>2, TwinsAlike
    <3> QED
      BY <3>1, <1>10, <2>1, <2>2, TwinsAlike
  <2>4. Twins(n, Upto(path, k))
    BY <2>1, <2>2, <2>3, TwinsAlike
  <2>5. k <= m
    BY <2>4, <1>5
  <2>6. k \in 0..m /\ k \in 0..Len(Trunk(path))
    BY <2>5, <1>3, <1>5 DEF m
  <2>7. o = Upto(Trunk(path), k)
    BY <2>1, <2>6, <1>4
  <2>8. o \in routing.children
    BY <2>6, <2>7, <1>5 DEF Rooted
  <2> QED
    BY <2>3, <2>8 DEF Rooted
<1>11. \A n, o \in routing'.children : Twins(n, o) => n = o
  <2> SUFFICES ASSUME NEW n \in routing'.children, NEW o \in routing'.children, Twins(n, o) PROVE n = o
    OBVIOUS
  <2>1. CASE n \in routing.children /\ o \in routing.children
    BY <2>1 DEF Rooted
  <2>2. CASE n \in Beginnings(node) /\ o \in Beginnings(node)
    BY <2>2, <1>6 DEF Twins
  <2> QED
    BY <2>1, <2>2, <1>2, <1>10
<1>12. \A k \in 1..L : Way(k)' = Way(k)
  BY <1>1 DEF Way
<1>13. \A k \in 1..(L + 1) : k = L + 1 => Way(k)' = path
  BY <1>1 DEF Way, path
<1>14. \A n \in routing'.children : n # << >> =>
         \E k \in 1..(L + 1) : \E i \in 0..Len(Way(k)') : Twins(n, Upto(Way(k)', i))
  <2> SUFFICES ASSUME NEW n \in routing'.children, n # << >>
               PROVE  \E k \in 1..(L + 1) : \E i \in 0..Len(Way(k)') : Twins(n, Upto(Way(k)', i))
    OBVIOUS
  <2>1. CASE n \in routing.children
    <3>1. PICK k \in 1..L : \E i \in 0..Len(Way(k)) : Twins(n, Upto(Way(k), i))
      BY <2>1 DEF Rooted, L
    <3> QED
      BY <3>1, <1>1, <1>12
  <2>2. CASE n \in Beginnings(node)
    <3>1. PICK k \in 0..Len(path) : Twins(n, Upto(path, k))
      BY <2>2, <1>6
    <3>2. L + 1 \in 1..(L + 1)
      BY <1>1
    <3> QED
      BY <3>1, <3>2, <1>13
  <2> QED
    BY <2>1, <2>2, <1>2
<1>15. \A k \in 1..(L + 1) : \E n \in routing'.children :
         Twins(n, Way(k)') /\ <<n, routing'.registered[k].method>> \in DOMAIN routing'.targets
  <2> SUFFICES ASSUME NEW k \in 1..(L + 1)
               PROVE  \E n \in routing'.children :
                        Twins(n, Way(k)') /\ <<n, routing'.registered[k].method>> \in DOMAIN routing'.targets
    OBVIOUS
  <2>1. CASE k \in 1..L
    <3>1. PICK n \in routing.children : Twins(n, Way(k)) /\ <<n, routing.registered[k].method>> \in DOMAIN routing.targets
      BY <2>1 DEF Rooted, L
    <3> QED
      BY <3>1, <2>1, <1>1, <1>2, <1>12
  <2>2. CASE k = L + 1
    BY <2>2, <1>1, <1>2, <1>4, <1>7, <1>13
  <2> QED
    BY <2>1, <2>2, <1>1
<1>16. Rooted'
  <2>1. \A n, o : Twins(n, o)' <=> Twins(n, o)
    BY DEF Twins, SameBranch
  <2> QED
    BY <1>1, <1>7, <1>8, <1>9, <1>11, <1>14, <1>15 DEF Rooted
<1> QED
  BY <1>1, <1>2, <1>7, <1>16 DEF node, path, L

LEMMA TargetsMove ==
  ASSUME NEW E, NEW route \in E, route.path \in Seq(Segments), route.method \in Methods, Rooted, Rooted', TargetsStand,
         \A r \in E : r.path \in Seq(Segments), routing.registered \in Seq(E), Grown(route)
  PROVE  TargetsStand'
<1> DEFINE node == Branch(route.path)
           L == Len(routing.registered)
           place == <<node, route.method>>
<1>1. /\ Len(routing'.registered) = L + 1 /\ L \in Nat
      /\ (\A k \in 1..L : routing'.registered[k] = routing.registered[k])
      /\ \A k \in 1..(L + 1) : k = L + 1 => routing'.registered[k] = route
      /\ node \in routing'.children
  BY TrieGrows
<1>2. Twins(node, route.path) /\ node \in Seq(Segments)
  BY BranchIs
<1>3. /\ DOMAIN routing'.targets = (DOMAIN routing.targets) \cup {place}
      /\ routing'.targets[place] = TargetOf(route)
      /\ \A p \in DOMAIN routing.targets : p # place => routing'.targets[p] = routing.targets[p]
      /\ routing.children \subseteq routing'.children
  BY DEF Grown
<1>4. \A k \in 1..L : Way(k)' = Way(k)
  BY <1>1 DEF Way
<1>5. \A k \in 1..(L + 1) : k = L + 1 => Way(k)' = route.path
  BY <1>1 DEF Way
<1> HIDE DEF node, L
<1>6. \A p \in DOMAIN routing'.targets : p = <<p[1], p[2]>> /\ p[1] \in routing'.children /\ p[2] \in Methods
  BY <1>1, <1>3 DEF TargetsStand
<1>7. ASSUME NEW n \in routing'.children, NEW m \in Methods, <<n, m>> \in DOMAIN routing'.targets
      PROVE  \E k \in 1..(L + 1) : Newest(n, m, k)' /\ routing'.targets[<<n, m>>] = TargetOf(routing'.registered[k])
  <2>1. CASE <<n, m>> = place
    <3>1. n = node /\ m = route.method
      BY <2>1
    <3>2. PICK k \in 1..(L + 1) : k = L + 1
      BY <1>1
    <3>3. routing'.registered[k] = route /\ Way(k)' = route.path
      BY <3>2, <1>1, <1>5
    <3>4. \A j \in 1..(L + 1) : j <= k
      BY <3>2, <1>1
    <3>5. Newest(n, m, k)'
      BY <3>1, <3>3, <3>4, <1>1, <1>2 DEF Newest, Twins, SameBranch
    <3> QED
      BY <2>1, <3>3, <3>5, <1>3
  <2>2. CASE <<n, m>> # place
    <3>1. <<n, m>> \in DOMAIN routing.targets
      BY <1>3, <1>7, <2>2
    <3>2. n \in routing.children
      <4>1. \A p \in DOMAIN routing.targets : p[1] \in routing.children
        BY DEF TargetsStand
      <4> QED
        BY <3>1, <4>1
    <3>3. PICK k \in 1..L : Newest(n, m, k) /\ routing.targets[<<n, m>>] = TargetOf(routing.registered[k])
      BY <3>1, <3>2 DEF TargetsStand, L
    <3>4. k \in 1..(L + 1) /\ routing'.registered[k] = routing.registered[k] /\ Way(k)' = Way(k)
      BY <3>3, <1>1, <1>4
    <3>5. ASSUME NEW j \in 1..(L + 1), routing'.registered[j].method = m, Twins(n, Way(j)') PROVE j <= k
      <4>1. CASE j \in 1..L
        <5>1. routing.registered[j].method = m /\ Twins(n, Way(j))
          BY <4>1, <3>5, <1>1, <1>4
        <5> QED
          BY <4>1, <5>1, <3>3 DEF Newest, L
      <4>2. CASE j = L + 1
        <5>1. route.method = m /\ Twins(n, route.path)
          BY <4>2, <3>5, <1>1, <1>5
        <5>2. n \in Seq(Segments)
          BY <3>2 DEF Rooted
        <5>3. Twins(n, node)
          BY <5>1, <5>2, <1>2, TwinsAlike
        <5>4. \A o \in routing'.children : Twins(n, o) => n = o
          BY <1>7 DEF Rooted, Twins, SameBranch
        <5>5. n = node
          BY <5>3, <5>4, <1>1
        <5> QED
          BY <5>1, <5>5, <2>2
      <4> QED
        BY <4>1, <4>2, <1>1
    <3>6. Newest(n, m, k)'
      <4>1. Newest(n, m, k)
        BY <3>3
      <4>2. Twins(n, Way(k))' <=> Twins(n, Way(k))
        BY <3>4 DEF Twins, SameBranch
      <4>3. \A j \in 1..(L + 1) : Twins(n, Way(j))' <=> Twins(n, Way(j)')
        BY DEF Twins, SameBranch
      <4> QED
        BY <3>4, <3>5, <4>1, <4>2, <4>3, <1>1 DEF Newest
    <3> QED
      BY <3>3, <3>4, <3>6, <1>3, <3>1, <2>2
  <2> QED
    BY <2>1, <2>2
<1> QED
  BY <1>1, <1>6, <1>7 DEF TargetsStand

LEMMA TrieKept ==
  ASSUME NEW E, TrieInv(E), IsTable', routing'.pending = routing.pending, routing'.children = routing.children,
         routing'.targets = routing.targets, routing'.registered = routing.registered
  PROVE  TrieInv(E)'
<1>1. \A k : Way(k)' = Way(k)
  BY DEF Way
<1>2. \A n, o : Twins(n, o)' <=> Twins(n, o)
  BY DEF Twins, SameBranch
<1>3. \A n, m, k : Newest(n, m, k)' <=> Newest(n, m, k)
  BY DEF Newest, Way, Twins, SameBranch
<1>4. Rooted'
  <2>1. \A n \in routing'.children : n # << >> =>
          \E k \in 1..Len(routing'.registered) : \E i \in 0..Len(Way(k)') : Twins(n, Upto(Way(k)', i))
    BY <1>1 DEF TrieInv, Rooted
  <2>2. \A k \in 1..Len(routing'.registered) : \E n \in routing'.children :
          Twins(n, Way(k)') /\ <<n, routing'.registered[k].method>> \in DOMAIN routing'.targets
    BY <1>1 DEF TrieInv, Rooted
  <2>3. /\ routing'.children \subseteq Seq(Segments) /\ << >> \in routing'.children
        /\ \A n \in routing'.children : \A k \in 0..Len(n) : Upto(n, k) \in routing'.children
        /\ \A n, o \in routing'.children : Twins(n, o) => n = o
    BY DEF TrieInv, Rooted
  <2> QED
    BY <2>1, <2>2, <2>3 DEF Rooted
<1>5. TargetsStand'
  BY <1>3 DEF TrieInv, TargetsStand
<1> QED
  BY <1>4, <1>5 DEF TrieInv

(* A plain path is one in which no segment looks like a parameter, and a    *)
(* candidate is a route that fits it and is not shadowed.                   *)
IsPlain(path) == \A i \in DOMAIN path : ~ path[i].par

LEMMA WayIs ==
  ASSUME NEW E, \A r \in E : r.path \in Seq(Segments), TrieInv(E), NEW k \in DOMAIN routing.registered
  PROVE  /\ Way(k) \in Seq(Segments) /\ routing.registered[k] \in E /\ Way(k) = routing.registered[k].path
         /\ k \in 1..Len(routing.registered) /\ DOMAIN routing.registered = 1..Len(routing.registered)
         /\ Len(routing.registered) \in Nat
<1>1. routing.registered \in Seq(E)
  BY DEF TrieInv
<1> QED
  BY <1>1 DEF Way

(* Two routes that agree up to a segment have the same nodes up to there.   *)
LEMMA AgreeTwins ==
  ASSUME NEW r, NEW o, NEW n \in Nat, r.path \in Seq(Segments), o.path \in Seq(Segments),
         n <= Len(r.path), n <= Len(o.path)
  PROVE  Agree(r, o, n) <=> Twins(Upto(r.path, n), Upto(o.path, n))
<1> DEFINE a == r.path
           b == o.path
<1>1. /\ Len(Upto(a, n)) = n /\ Len(Upto(b, n)) = n /\ DOMAIN Upto(b, n) = 1..n
      /\ (\A i \in 1..n : Upto(a, n)[i] = a[i]) /\ \A i \in 1..n : Upto(b, n)[i] = b[i]
  <2>1. n \in 0..Len(a) /\ n \in 0..Len(b) /\ a \in Seq(Segments) /\ b \in Seq(Segments)
    BY SeqDomain
  <2> QED
    BY <2>1, UptoIs
<1>2. Twins(Upto(a, n), Upto(b, n)) <=> \A i \in 1..n : SameBranch(a[i], b[i])
  BY <1>1 DEF Twins
<1>3. \A i \in 1..n : a[i].par \in BOOLEAN /\ b[i].par \in BOOLEAN
  <2> SUFFICES ASSUME NEW i \in 1..n PROVE a[i].par \in BOOLEAN /\ b[i].par \in BOOLEAN
    OBVIOUS
  <2>1. a[i] \in Segments /\ b[i] \in Segments
    <3>1. i \in 1..Len(a) /\ i \in 1..Len(b) /\ a \in Seq(Segments) /\ b \in Seq(Segments)
      BY SeqDomain
    <3> QED
      BY <3>1, SeqDomain
  <2> QED
    BY <2>1 DEF Segments
<1>4. \A i \in 1..n : SameBranch(a[i], b[i]) <=> a[i].par = b[i].par /\ (a[i].par \/ a[i] = b[i])
  BY <1>3 DEF SameBranch
<1> QED
  BY <1>2, <1>4 DEF Agree

LEMMA AppendIs ==
  ASSUME NEW S, NEW a \in Seq(S), NEW i \in 1..Len(a), NEW e \in S
  PROVE  /\ Append(Upto(a, i - 1), e) \in Seq(S) /\ Len(Append(Upto(a, i - 1), e)) = i
         /\ Append(Upto(a, i - 1), e)[i] = e /\ Upto(Append(Upto(a, i - 1), e), i - 1) = Upto(a, i - 1)
<1> DEFINE u == Upto(a, i - 1)
           x == Append(u, e)
<1>1. i - 1 \in 0..Len(a) /\ i \in 0..Len(a) /\ i \in Nat
  BY SeqDomain
<1>2. u \in Seq(S) /\ Len(u) = i - 1 /\ \A j \in 1..(i - 1) : u[j] = a[j]
  BY <1>1, UptoIs
<1> HIDE DEF u
<1>3. x \in Seq(S) /\ Len(x) = i /\ x[i] = e /\ \A j \in 1..(i - 1) : x[j] = u[j]
  BY <1>1, <1>2
<1>4. Upto(x, i - 1) = u
  <2> HIDE DEF x
  <2>1. i - 1 \in 0..Len(x)
    BY <1>1, <1>3
  <2>2. Upto(x, i - 1) \in Seq(S) /\ Len(Upto(x, i - 1)) = i - 1 /\ \A j \in 1..(i - 1) : Upto(x, i - 1)[j] = x[j]
    BY <2>1, <1>3, UptoIs
  <2> QED
    BY <2>2, <1>2, <1>3, SameSequence
<1> QED
  BY <1>3, <1>4 DEF u

LEMMA OneFurther ==
  ASSUME NEW S, NEW a \in Seq(S), NEW i \in 1..Len(a)
  PROVE  Append(Upto(a, i - 1), a[i]) = Upto(a, i)
<1> DEFINE u == Upto(a, i - 1)
<1>1. i - 1 \in 0..Len(a) /\ i \in 0..Len(a) /\ i \in Nat
  BY SeqDomain
<1>2. u \in Seq(S) /\ Len(u) = i - 1 /\ \A j \in 1..(i - 1) : u[j] = a[j]
  BY <1>1, UptoIs
<1> HIDE DEF u
<1> DEFINE y == Append(u, a[i])
           z == Upto(a, i)
<1>3. a[i] \in S
  BY SeqDomain
<1>4. y \in Seq(S) /\ Len(y) = i /\ y[i] = a[i] /\ \A j \in 1..(i - 1) : y[j] = u[j]
  BY <1>3, <1>1, <1>2
<1>5. z \in Seq(S) /\ Len(z) = i /\ \A j \in 1..i : z[j] = a[j]
  BY <1>1, UptoIs
<1>6. \A j \in 1..i : y[j] = z[j]
  <2> HIDE DEF y, z
  <2> SUFFICES ASSUME NEW j \in 1..i PROVE y[j] = z[j]
    OBVIOUS
  <2>1. j = i \/ j \in 1..(i - 1)
    BY <1>1
  <2> QED
    BY <2>1, <1>4, <1>5, <1>2
<1> HIDE DEF y, z
<1>7. y = z
  BY <1>4, <1>5, <1>6, SameSequence
<1> QED
  BY <1>7 DEF u, y, z

(* The segment beside a parameter has a node exactly when some route passes *)
(* the parameter by there.                                                  *)
LEMMA NamedShadows ==
  ASSUME NEW E, \A r \in E : r.path \in Seq(Segments), TrieInv(E), NEW path \in Seq(Segments), IsPlain(path),
         NEW k \in DOMAIN routing.registered, NEW t \in routing.children, Twins(t, Way(k)), Len(t) = Len(path),
         NEW i \in DOMAIN path, Way(k)[i].par, Append(Upto(t, i - 1), path[i]) \in routing.children
  PROVE  Shadowed(routing.registered[k], path)
<1> DEFINE x == Append(Upto(t, i - 1), path[i])
<1>1. Rooted /\ Way(k) \in Seq(Segments) /\ Len(Way(k)) = Len(t) /\ Way(k) = routing.registered[k].path
  BY WayIs DEF TrieInv, Twins
<1>2. i \in 1..Len(path) /\ i \in 1..Len(t) /\ path[i] \in Segments /\ ~ path[i].par /\ t \in Seq(Segments) /\ i \in Nat
  BY <1>1, SeqDomain DEF IsPlain, Rooted
<1>3. x \in Seq(Segments) /\ Len(x) = i /\ x[i] = path[i] /\ Upto(x, i - 1) = Upto(t, i - 1)
  BY <1>2, AppendIs
<1> HIDE DEF x
<1>4. x \in routing.children /\ x # << >>
  BY <1>2, <1>3 DEF x
<1>5. PICK j \in 1..Len(routing.registered) : \E l \in 0..Len(Way(j)) : Twins(x, Upto(Way(j), l))
  BY <1>1, <1>4 DEF Rooted
<1>6. PICK l \in 0..Len(Way(j)) : Twins(x, Upto(Way(j), l))
  BY <1>5
<1>7. routing.registered \in Seq(E)
  BY DEF TrieInv
<1>8. j \in DOMAIN routing.registered
  BY <1>7, SeqDomain
<1>9. Way(j) \in Seq(Segments) /\ Way(j) = routing.registered[j].path /\ Len(Way(j)) \in Nat
  BY <1>8, WayIs, SeqDomain
<1>10. l = i /\ i <= Len(Way(j)) /\ DOMAIN Upto(Way(j), l) = 1..l /\ Upto(Way(j), l)[i] = Way(j)[i]
  <2>1. Len(Upto(Way(j), l)) = l /\ DOMAIN Upto(Way(j), l) = 1..l /\ \A q \in 1..l : Upto(Way(j), l)[q] = Way(j)[q]
    <3>1. Way(j) \in Seq(Segments)
      BY <1>9
    <3> QED
      BY <3>1, UptoIs
  <2>2. l = i
    BY <2>1, <1>3, <1>6 DEF Twins
  <2> QED
    BY <2>1, <2>2, <1>2, <1>9
<1>11. Way(j)[i] = path[i]
  <2>1. SameBranch(x[i], Way(j)[i])
    BY <1>2, <1>6, <1>10 DEF Twins
  <2> QED
    BY <2>1, <1>2, <1>3 DEF SameBranch
<1>12. Twins(Upto(Way(k), i - 1), Upto(Way(j), i - 1))
  <2> DEFINE a == Upto(Way(k), i - 1)
             b == Upto(t, i - 1)
             c == Upto(Way(j), i - 1)
  <2>1. i - 1 \in 0..Len(t) /\ i - 1 \in 0..Len(x) /\ i - 1 \in 0..Len(Way(k)) /\ i - 1 \in 0..Len(Way(j)) /\ i - 1 \in 0..i
    BY <1>1, <1>2, <1>3, <1>9, <1>10
  <2>2. a \in Seq(Segments) /\ b \in Seq(Segments) /\ c \in Seq(Segments)
    BY <2>1, <1>1, <1>2, <1>9, UptoIs
  <2>3. Twins(b, a)
    BY <2>1, <1>1, <1>2, TwinsUpto
  <2>4. Twins(b, c)
    <3>1. Upto(Way(j), i) \in Seq(Segments) /\ Upto(Upto(Way(j), i), i - 1) = c
      BY <2>1, <1>9, <1>10, UptoIs, UptoUpto
    <3>2. Twins(Upto(x, i - 1), Upto(Upto(Way(j), i), i - 1))
      BY <2>1, <3>1, <1>3, <1>6, <1>10, TwinsUpto
    <3> QED
      BY <3>1, <3>2, <1>3
  <2> HIDE DEF a, b, c
  <2>5. Twins(a, b)
    BY <2>2, <2>3, TwinsAlike
  <2>6. Twins(a, c)
    BY <2>2, <2>4, <2>5, TwinsAlike
  <2> QED
    BY <2>6 DEF a, c
<1>13. Agree(routing.registered[k], routing.registered[j], i - 1)
  <2>1. i - 1 \in Nat /\ i - 1 <= Len(Way(k)) /\ i - 1 <= Len(Way(j))
    BY <1>1, <1>2, <1>9, <1>10
  <2> QED
    BY <2>1, <1>1, <1>9, <1>12, AgreeTwins
<1> QED
  BY <1>1, <1>8, <1>9, <1>10, <1>11, <1>13 DEF Shadowed

LEMMA ShadowNames ==
  ASSUME NEW E, \A r \in E : r.path \in Seq(Segments), TrieInv(E), NEW path \in Seq(Segments), IsPlain(path),
         NEW k \in DOMAIN routing.registered, NEW t \in routing.children, Twins(t, Way(k)), Len(t) = Len(path),
         NEW i \in DOMAIN path, NEW j \in DOMAIN routing.registered, Len(Way(j)) >= i,
         Agree(routing.registered[k], routing.registered[j], i - 1), Way(j)[i] = path[i]
  PROVE  Append(Upto(t, i - 1), path[i]) \in routing.children
<1>1. Rooted /\ Way(k) \in Seq(Segments) /\ Len(Way(k)) = Len(t) /\ Way(k) = routing.registered[k].path
      /\ Way(j) \in Seq(Segments) /\ Way(j) = routing.registered[j].path /\ j \in 1..Len(routing.registered)
  BY WayIs DEF TrieInv, Twins
<1>2. i \in 1..Len(path) /\ i \in 1..Len(t) /\ ~ path[i].par /\ t \in Seq(Segments) /\ i \in Nat
  BY <1>1, SeqDomain DEF IsPlain, Rooted
<1>3. PICK o \in routing.children : Twins(o, Way(j))
  BY <1>1 DEF Rooted
<1>4. o \in Seq(Segments) /\ Len(o) = Len(Way(j)) /\ i \in 1..Len(o) /\ DOMAIN Way(j) = 1..Len(Way(j))
  <2>1. o \in Seq(Segments) /\ Len(o) = Len(Way(j))
    BY <1>1, <1>3 DEF Rooted, Twins
  <2> QED
    BY <2>1, <1>1, <1>2, SeqDomain
<1>5. o[i] = path[i]
  <2>1. SameBranch(o[i], Way(j)[i])
    BY <1>3, <1>4 DEF Twins
  <2> QED
    BY <2>1, <1>2 DEF SameBranch
<1>6. Upto(t, i - 1) = Upto(o, i - 1)
  <2> DEFINE a == Upto(Way(k), i - 1)
             b == Upto(t, i - 1)
             c == Upto(Way(j), i - 1)
             d == Upto(o, i - 1)
  <2>1. i - 1 \in 0..Len(t) /\ i - 1 \in 0..Len(o) /\ i - 1 \in 0..Len(Way(k)) /\ i - 1 \in 0..Len(Way(j)) /\ i - 1 \in Nat
        /\ i - 1 <= Len(Way(k)) /\ i - 1 <= Len(Way(j))
    BY <1>1, <1>2, <1>4
  <2>2. a \in Seq(Segments) /\ b \in Seq(Segments) /\ c \in Seq(Segments) /\ d \in Seq(Segments)
    BY <2>1, <1>1, <1>2, <1>4, UptoIs
  <2>3. Twins(b, a)
    BY <2>1, <1>1, <1>2, TwinsUpto
  <2>4. Twins(d, c)
    BY <2>1, <1>1, <1>3, <1>4, TwinsUpto
  <2>5. Twins(a, c)
    BY <2>1, <1>1, AgreeTwins
  <2>6. b \in routing.children /\ d \in routing.children
    BY <2>1, <1>1 DEF Rooted
  <2> HIDE DEF a, b, c, d
  <2>7. Twins(b, c)
    BY <2>2, <2>3, <2>5, TwinsAlike
  <2>8. Twins(b, d)
    BY <2>2, <2>4, <2>7, TwinsAlike
  <2>9. b = d
    BY <2>6, <2>8, <1>1 DEF Rooted
  <2> QED
    BY <2>9 DEF b, d
<1>7. Append(Upto(o, i - 1), o[i]) = Upto(o, i) /\ i \in 0..Len(o)
  <2>1. o \in Seq(Segments) /\ i \in 1..Len(o)
    BY <1>4
  <2> QED
    BY <2>1, OneFurther
<1>8. Upto(o, i) \in routing.children
  BY <1>1, <1>7 DEF Rooted
<1> QED
  BY <1>5, <1>6, <1>7, <1>8

(* A request comes to one node at most.                                     *)
LEMMA LeadsToOne ==
  ASSUME Rooted, NEW path \in Seq(Segments), NEW n \in routing.children, NEW o \in routing.children,
         Leads(n, path), Leads(o, path)
  PROVE  n = o
<1>1. n \in Seq(Segments) /\ o \in Seq(Segments) /\ Len(n) = Len(path) /\ Len(o) = Len(path) /\ Len(path) \in Nat
      /\ DOMAIN path = 1..Len(path) /\ DOMAIN o = 1..Len(path)
  <2>1. n \in Seq(Segments) /\ o \in Seq(Segments) /\ Len(n) = Len(path) /\ Len(o) = Len(path)
    BY DEF Rooted, Leads
  <2> QED
    BY <2>1, SeqDomain
<1> DEFINE B == {i \in 1..Len(path) : ~ SameBranch(n[i], o[i])}
<1>2. B \subseteq Nat /\ \A i \in 1..Len(path) : i \in B <=> ~ SameBranch(n[i], o[i])
  BY <1>1
<1>3. B \subseteq 1..Len(path)
  OBVIOUS
<1> HIDE DEF B
<1>4. ASSUME B # {} PROVE FALSE
  <2>1. PICK i \in B : \A y \in B : ~ (<<y, i>> \in OpToRel(<, Nat))
    BY <1>2, <1>4, WFMin, NatLessThanWellFounded
  <2>2. \A y \in B : ~ (y < i)
    BY <1>2, <2>1 DEF OpToRel
  <2>3. i \in 1..Len(path) /\ ~ SameBranch(n[i], o[i]) /\ i - 1 \in 0..Len(n) /\ i - 1 \in 0..Len(o) /\ i - 1 \in Nat
    BY <1>1, <1>2, <1>3
  <2>4. \A y \in 1..(i - 1) : SameBranch(n[y], o[y])
    BY <1>1, <1>2, <2>2, <2>3
  <2> DEFINE a == Upto(n, i - 1)
             b == Upto(o, i - 1)
  <2>5. /\ Len(a) = i - 1 /\ Len(b) = i - 1 /\ DOMAIN b = 1..(i - 1)
        /\ (\A y \in 1..(i - 1) : a[y] = n[y]) /\ \A y \in 1..(i - 1) : b[y] = o[y]
    <3>1. n \in Seq(Segments) /\ i - 1 \in 0..Len(n)
      BY <1>1, <2>3
    <3>2. Len(a) = i - 1 /\ \A y \in 1..(i - 1) : a[y] = n[y]
      BY <3>1, UptoIs
    <3>3. o \in Seq(Segments) /\ i - 1 \in 0..Len(o)
      BY <1>1, <2>3
    <3>4. Len(b) = i - 1 /\ DOMAIN b = 1..(i - 1) /\ \A y \in 1..(i - 1) : b[y] = o[y]
      BY <3>3, UptoIs
    <3> QED
      BY <3>2, <3>4
  <2>6. a \in routing.children /\ b \in routing.children
    BY <2>3 DEF Rooted
  <2> HIDE DEF a, b
  <2>7. Twins(a, b)
    BY <2>4, <2>5 DEF Twins
  <2>8. a = b
    BY <2>6, <2>7 DEF Rooted
  <2>9. n[i] = o[i] \/ (n[i].par /\ o[i].par)
    BY <2>3, <2>8, <1>1 DEF Leads, a, b
  <2> QED
    BY <2>3, <2>9 DEF SameBranch
<1>5. Twins(n, o)
  BY <1>1, <1>2, <1>4 DEF Twins
<1> QED
  BY <1>5 DEF Rooted

(* The node of a route that fits and is not shadowed is where the request   *)
(* comes to, and no other route's is.                                       *)
LEMMA CandidateLeads ==
  ASSUME NEW E, \A r \in E : r.path \in Seq(Segments), TrieInv(E), NEW path \in Seq(Segments), IsPlain(path),
         NEW k \in Candidates(path)
  PROVE  \E t \in routing.children : Twins(t, Way(k)) /\ Leads(t, path)
<1>1. k \in DOMAIN routing.registered /\ Fits(routing.registered[k], path) /\ ~ Shadowed(routing.registered[k], path)
  BY DEF Candidates
<1>2. Rooted /\ Way(k) \in Seq(Segments) /\ Way(k) = routing.registered[k].path /\ k \in 1..Len(routing.registered)
  BY <1>1, WayIs DEF TrieInv
<1>3. PICK t \in routing.children : Twins(t, Way(k))
  BY <1>2 DEF Rooted
<1>4. t \in Seq(Segments) /\ Len(t) = Len(path) /\ Len(Way(k)) = Len(path) /\ DOMAIN Way(k) = 1..Len(path)
      /\ DOMAIN path = 1..Len(path)
  <2>1. t \in Seq(Segments) /\ Len(t) = Len(Way(k)) /\ Len(Way(k)) = Len(path)
    BY <1>1, <1>2, <1>3 DEF Rooted, Twins, Fits
  <2> QED
    BY <2>1, <1>2, SeqDomain
<1>5. ASSUME NEW i \in DOMAIN path
      PROVE  IF Append(Upto(t, i - 1), path[i]) \in routing.children THEN t[i] = path[i] ELSE t[i].par
  <2>1. i \in 1..Len(t) /\ path[i] \in Segments /\ ~ path[i].par
    BY <1>4, SeqDomain DEF IsPlain
  <2>2. SameBranch(t[i], Way(k)[i]) /\ (Way(k)[i].par \/ Way(k)[i] = path[i])
    BY <1>1, <1>2, <1>3, <1>4 DEF Twins, Fits
  <2>3. CASE Way(k)[i].par
    <3>1. Append(Upto(t, i - 1), path[i]) \notin routing.children
      BY <2>3, <1>1, <1>3, <1>4, NamedShadows
    <3> QED
      BY <2>2, <2>3, <3>1 DEF SameBranch
  <2>4. CASE ~ Way(k)[i].par
    <3>1. t[i] = path[i]
      BY <2>2, <2>4 DEF SameBranch
    <3>2. Append(Upto(t, i - 1), t[i]) = Upto(t, i)
      BY <2>1, <1>4, OneFurther
    <3>3. i \in 0..Len(t)
      BY <2>1
    <3>4. Upto(t, i) \in routing.children
      BY <3>3, <1>2 DEF Rooted
    <3> QED
      BY <3>1, <3>2, <3>4
  <2> QED
    BY <2>3, <2>4
<1> QED
  BY <1>3, <1>4, <1>5 DEF Leads

LEMMA LeadsCandidate ==
  ASSUME NEW E, \A r \in E : r.path \in Seq(Segments), TrieInv(E), NEW path \in Seq(Segments), IsPlain(path),
         NEW n \in routing.children, Leads(n, path), NEW k \in DOMAIN routing.registered
  PROVE  k \in Candidates(path) <=> Twins(n, Way(k))
<1>1. Rooted /\ Way(k) \in Seq(Segments) /\ Way(k) = routing.registered[k].path
  BY WayIs DEF TrieInv
<1>2. ASSUME k \in Candidates(path) PROVE Twins(n, Way(k))
  <2>1. PICK t \in routing.children : Twins(t, Way(k)) /\ Leads(t, path)
    BY <1>2, CandidateLeads
  <2>2. t = n
    BY <2>1, <1>1, LeadsToOne
  <2> QED
    BY <2>1, <2>2
<1>3. ASSUME Twins(n, Way(k)) PROVE k \in Candidates(path)
  <2>1. n \in Seq(Segments) /\ Len(n) = Len(path) /\ Len(Way(k)) = Len(path) /\ DOMAIN path = 1..Len(path)
        /\ DOMAIN Way(k) = 1..Len(path)
    <3>1. n \in Seq(Segments) /\ Len(n) = Len(path) /\ Len(Way(k)) = Len(path)
      BY <1>1, <1>3 DEF Rooted, Leads, Twins
    <3> QED
      BY <3>1, <1>1, SeqDomain
  <2>2. \A i \in DOMAIN path : SameBranch(n[i], Way(k)[i]) /\ (n[i] = path[i] \/ n[i].par)
    BY <1>3, <2>1 DEF Leads, Twins
  <2>3. Fits(routing.registered[k], path)
    <3>1. \A i \in DOMAIN path : Way(k)[i].par \/ Way(k)[i] = path[i]
      BY <2>2 DEF SameBranch
    <3> QED
      BY <3>1, <2>1, <1>1 DEF Fits
  <2>4. ASSUME NEW j \in DOMAIN routing.registered, NEW i \in DOMAIN path, Len(routing.registered[j].path) >= i,
               Agree(routing.registered[k], routing.registered[j], i - 1),
               routing.registered[k].path[i].par, routing.registered[j].path[i] = path[i]
        PROVE  FALSE
    <3>1. Way(j) = routing.registered[j].path
      BY DEF Way
    <3>2. Append(Upto(n, i - 1), path[i]) \in routing.children
      BY <3>1, <2>1, <2>4, <1>3, ShadowNames
    <3>3. n[i] = path[i]
      BY <3>2 DEF Leads
    <3>4. n[i].par
      BY <2>2, <2>4, <1>1 DEF SameBranch
    <3> QED
      BY <3>3, <3>4 DEF IsPlain
  <2> QED
    BY <2>3, <2>4 DEF Candidates, Shadowed
<1> QED
  BY <1>2, <1>3

(* A rank tells two places apart.                                           *)
LEMMA RankLess ==
  ASSUME NEW N \in Nat, NEW P \in SUBSET (1..N), NEW i \in P, NEW j \in P, i < j
  PROVE  Rank(P, i) # Rank(P, j)
<1> DEFINE A == {k \in P : k <= i}
           B == {k \in P : k <= j}
<1>1. \A k \in P : k \in Nat
  OBVIOUS
<1>2. A \subseteq B
  <2>1. \A k \in P : k <= i => k <= j
    BY <1>1
  <2> QED
    BY <2>1
<1>3. j \in B /\ j \notin A
  <2>1. j \in Nat /\ i \in Nat
    BY <1>1
  <2>2. j <= j /\ ~ (j <= i)
    BY <2>1
  <2> QED
    BY <2>2
<1>4. B \subseteq P /\ P \subseteq 1..N
  OBVIOUS
<1> HIDE DEF A, B
<1>5. IsFiniteSet(1..N)
  BY FS_Interval
<1>6. IsFiniteSet(B)
  BY <1>4, <1>5, FS_Subset
<1>7. Cardinality(A) # Cardinality(B)
  BY <1>2, <1>3, <1>6, FS_Subset
<1> QED
  BY <1>7 DEF Rank, A, B

LEMMA ParametersSame ==
  ASSUME NEW a \in Segments, NEW b \in Segments, a.par, b.par
  PROVE  a = b <=> a.name = b.name
BY DEF Segments

LEMMA RankIs ==
  ASSUME NEW N \in Nat, NEW P \in SUBSET (1..N), NEW i \in P, NEW j \in P
  PROVE  Rank(P, i) = Rank(P, j) <=> i = j
<1>1. CASE i = j
  BY <1>1
<1>2. CASE i < j
  BY <1>2, RankLess
<1>3. CASE j < i
  BY <1>3, RankLess
<1>4. i \in Nat /\ j \in Nat
  OBVIOUS
<1> QED
  BY <1>1, <1>2, <1>3, <1>4

(* What was captured on the way down meets the name that the route gives it.*)
LEMMA BoundIs ==
  ASSUME NEW node \in Seq(Segments), NEW route, route.path \in Seq(Segments), NEW path \in Seq(Segments), IsPlain(path),
         Twins(node, route.path), Len(node) = Len(path), \A i \in DOMAIN path : node[i] = path[i] \/ node[i].par
  PROVE  Zipped(Names(route.path), {i \in DOMAIN path : node[i] # path[i]}, path) = Bound(route, path)
<1> DEFINE way == route.path
           N == Len(path)
           P == {i \in DOMAIN way : way[i].par}
           names == Names(way)
           captured == {i \in DOMAIN path : node[i] # path[i]}
<1>1. N \in Nat /\ DOMAIN path = 1..N /\ DOMAIN way = 1..N /\ DOMAIN node = 1..N
  <2>1. Len(way) = N
    BY DEF Twins
  <2> QED
    BY <2>1, SeqDomain
<1>2. \A i \in 1..N : way[i] \in Segments /\ node[i] \in Segments /\ path[i] \in Segments /\ ~ path[i].par
  BY <1>1 DEF IsPlain
<1>3. \A i \in 1..N : node[i].par <=> way[i].par
  <2> SUFFICES ASSUME NEW i \in 1..N PROVE node[i].par <=> way[i].par
    OBVIOUS
  <2>1. SameBranch(node[i], way[i])
    BY <1>1 DEF Twins
  <2> QED
    BY <2>1, <1>2 DEF SameBranch, Segments
<1>4. \A i \in 1..N : node[i] # path[i] <=> way[i].par
  BY <1>1, <1>2, <1>3
<1>5. captured = P
  BY <1>1, <1>4
<1>6. DOMAIN names = P /\ \A i \in P : names[i] = way[i].name
  BY DEF Names
<1>7. P \in SUBSET (1..N) /\ \A i \in 1..N : i \in P <=> way[i].par
  BY <1>1
<1>8. \A i \in P : \A j \in 1..N : way[j] = way[i] <=> j \in P /\ names[j] = names[i]
  <2> SUFFICES ASSUME NEW i \in P, NEW j \in 1..N PROVE way[j] = way[i] <=> j \in P /\ names[j] = names[i]
    OBVIOUS
  <2>1. way[i] \in Segments /\ way[j] \in Segments /\ way[i].par
    BY <1>2, <1>7
  <2> HIDE DEF P, way, names
  <2>4. CASE j \in P
    <3>1. way[j].par /\ way[i].par
      BY <2>4, <1>7
    <3>2. way[j] = way[i] <=> way[j].name = way[i].name
      BY <3>1, <2>1, ParametersSame
    <3>3. names[j] = way[j].name /\ names[i] = way[i].name
      BY <2>4, <1>6
    <3> QED
      BY <2>4, <3>2, <3>3
  <2>5. CASE j \notin P
    BY <2>5, <2>1, <1>7
  <2> QED
    BY <2>4, <2>5
<1>9. \A i, j \in P : Rank(P, i) = Rank(P, j) <=> i = j
  <2> SUFFICES ASSUME NEW i \in P, NEW j \in P PROVE Rank(P, i) = Rank(P, j) <=> i = j
    OBVIOUS
  <2> HIDE DEF P, N
  <2> QED
    BY <1>1, <1>7, RankIs
<1> HIDE DEF N, P, names, captured
<1> DEFINE pairs == {p \in P \X P : Rank(P, p[1]) = Rank(P, p[2])}
           Z == {<<names[p[1]], path[p[2]]>> : p \in {p \in pairs : \A q \in pairs : names[q[1]] = names[p[1]] => q[1] <= p[1]}}
           M == {i \in P : \A j \in P : names[j] = names[i] => j <= i}
<1>10. \A p : p \in pairs <=> \E i \in P : p = <<i, i>>
  BY <1>9
<1> HIDE DEF pairs
<1>11. Z = {<<names[i], path[i]>> : i \in M}
  <2>1. ASSUME NEW z \in Z PROVE z \in {<<names[i], path[i]>> : i \in M}
    <3>1. PICK p \in pairs : /\ z = <<names[p[1]], path[p[2]]>>
                             /\ \A q \in pairs : names[q[1]] = names[p[1]] => q[1] <= p[1]
      BY <2>1
    <3>2. PICK i \in P : p = <<i, i>>
      BY <3>1, <1>10
    <3>3. \A j \in P : names[j] = names[i] => j <= i
      <4> SUFFICES ASSUME NEW j \in P, names[j] = names[i] PROVE j <= i
        OBVIOUS
      <4>1. <<j, j>> \in pairs
        BY <1>10
      <4> QED
        BY <3>1, <3>2, <4>1
    <3> QED
      BY <3>1, <3>2, <3>3
  <2>2. ASSUME NEW i \in M PROVE <<names[i], path[i]>> \in Z
    <3>1. <<i, i>> \in pairs
      BY <1>10
    <3>2. \A q \in pairs : names[q[1]] = names[i] => q[1] <= i
      BY <1>10
    <3> QED
      BY <3>1, <3>2
  <2> HIDE DEF Z, M
  <2> QED
    BY <2>1, <2>2
<1>12. Zipped(names, captured, path) = Z
  BY <1>5, <1>6 DEF Zipped, pairs
<1> HIDE DEF Z
<1>13. M = {i \in DOMAIN way : way[i].par /\ \A j \in DOMAIN way : way[j] = way[i] => j <= i}
  <2> HIDE DEF way
  <2>1. \A i : i \in M => i \in DOMAIN way /\ way[i].par /\ \A j \in DOMAIN way : way[j] = way[i] => j <= i
    BY <1>1, <1>7, <1>8
  <2>2. \A i : i \in DOMAIN way /\ way[i].par /\ (\A j \in DOMAIN way : way[j] = way[i] => j <= i) => i \in M
    BY <1>1, <1>7, <1>8
  <2> QED
    BY <2>1, <2>2
<1>14. \A i \in M : names[i] = way[i].name
  BY <1>6
<1> HIDE DEF M
<1>15. {<<names[i], path[i]>> : i \in M} = {<<way[i].name, path[i]>> : i \in M}
  BY <1>14
<1> QED
  BY <1>11, <1>12, <1>13, <1>15 DEF Bound, names, captured

(* The routes of a table that answer a path, and those of one method.       *)
Mine(method, path) == {k \in Candidates(path) : routing.registered[k].method = method}

(* What stands at a node for a method is what the last of its routes left.  *)
LEMMA NewestIsLast ==
  ASSUME NEW E, \A r \in E : r.path \in Seq(Segments), TrieInv(E), NEW path \in Seq(Segments), IsPlain(path),
         NEW n \in routing.children, Leads(n, path), NEW method \in Methods, <<n, method>> \in DOMAIN routing.targets
  PROVE  /\ Mine(method, path) # {} /\ LastOf(Mine(method, path)) \in Mine(method, path)
         /\ routing.targets[<<n, method>>] = TargetOf(routing.registered[LastOf(Mine(method, path))])
<1> DEFINE L == Len(routing.registered)
           mine == Mine(method, path)
<1>1. L \in Nat /\ DOMAIN routing.registered = 1..L
  BY DEF TrieInv
<1>2. PICK k \in 1..L : Newest(n, method, k) /\ routing.targets[<<n, method>>] = TargetOf(routing.registered[k])
  BY DEF TrieInv, TargetsStand
<1>3. \A j \in 1..L : j \in Candidates(path) <=> Twins(n, Way(j))
  BY <1>1, LeadsCandidate
<1>4. mine \in SUBSET (1..L)
  BY <1>1 DEF Mine, Candidates
<1>5. k \in mine /\ \A j \in mine : j <= k
  BY <1>2, <1>3, <1>4 DEF Newest, Mine
<1> HIDE DEF L, mine
<1>6. LastOf(mine) \in mine /\ \A j \in mine : j <= LastOf(mine)
  BY <1>1, <1>4, <1>5, LastIs
<1>7. k <= LastOf(mine) /\ LastOf(mine) <= k /\ k \in Nat /\ LastOf(mine) \in Nat
  <2>1. \A j \in mine : j \in Nat
    BY <1>1, <1>4
  <2> QED
    BY <2>1, <1>5, <1>6
<1>8. k = LastOf(mine)
  BY <1>7
<1> QED
  BY <1>2, <1>5, <1>6, <1>8 DEF mine

(* Where a request comes to a node, the methods given there are those of the *)
(* candidates.                                                              *)
LEMMA GivenIs ==
  ASSUME NEW E, \A r \in E : WellFormed(r), TrieInv(E), NEW path \in Seq(Segments), IsPlain(path),
         NEW n \in routing.children, Leads(n, path)
  PROVE  /\ \A m \in Methods : <<n, m>> \in DOMAIN routing.targets <=> Mine(m, path) # {}
         /\ (Candidates(path) = {} <=> {m \in Methods : <<n, m>> \in DOMAIN routing.targets} = {})
<1>1. \A r \in E : r.path \in Seq(Segments) /\ r.method \in Methods
  BY DEF WellFormed
<1>2. \A m \in Methods : <<n, m>> \in DOMAIN routing.targets => Mine(m, path) # {}
  BY <1>1, NewestIsLast
<1>3. ASSUME NEW k \in Candidates(path)
      PROVE  routing.registered[k].method \in Methods /\ <<n, routing.registered[k].method>> \in DOMAIN routing.targets
  <2>1. k \in DOMAIN routing.registered
    BY <1>3 DEF Candidates
  <2>2. k \in 1..Len(routing.registered) /\ routing.registered[k] \in E /\ Way(k) \in Seq(Segments)
    BY <2>1, <1>1, WayIs
  <2>3. PICK o \in routing.children : Twins(o, Way(k)) /\ <<o, routing.registered[k].method>> \in DOMAIN routing.targets
    BY <2>2 DEF TrieInv, Rooted
  <2>4. Twins(n, Way(k))
    BY <2>1, <1>1, LeadsCandidate
  <2>5. n \in Seq(Segments) /\ o \in Seq(Segments)
    BY DEF TrieInv, Rooted
  <2>6. Twins(n, o)
    BY <2>2, <2>3, <2>4, <2>5, TwinsAlike
  <2>7. n = o
    BY <2>6 DEF TrieInv, Rooted
  <2> QED
    BY <2>2, <2>3, <2>7, <1>1
<1>4. \A m \in Methods : Mine(m, path) # {} => <<n, m>> \in DOMAIN routing.targets
  BY <1>3 DEF Mine
<1>5. \A m \in Methods : Mine(m, path) # {} => Candidates(path) # {}
  BY DEF Mine
<1> QED
  BY <1>2, <1>3, <1>4, <1>5

LEMMA Unmatched ==
  ASSUME NEW E, \A r \in E : WellFormed(r), TrieInv(E), NEW path \in Seq(Segments), IsPlain(path), NEW method \in Methods,
         Mine(method, path) = {}
  PROVE  MatchRoute(method, path) = [kind |-> IF Candidates(path) = {} THEN "NotFound" ELSE "MethodNotAllowed"]
<1> DEFINE ends == {n \in routing.children : Leads(n, path)}
           node == CHOOSE n \in ends : TRUE
           given == {m \in Methods : <<node, m>> \in DOMAIN routing.targets}
<1>1. \A r \in E : r.path \in Seq(Segments)
  BY DEF WellFormed
<1>2. MatchRoute(method, path) =
        IF ends = {} \/ given = {} THEN [kind |-> "NotFound"] ELSE [kind |-> "MethodNotAllowed"]
  <2>1. ends # {} => method \notin given
    BY GivenIs
  <2> QED
    BY <2>1 DEF MatchRoute
<1>3. CASE ends = {}
  <2>1. Candidates(path) = {}
    BY <1>1, <1>3, CandidateLeads
  <2> QED
    BY <2>1, <1>2, <1>3
<1>4. CASE ends # {}
  <2>1. node \in routing.children /\ Leads(node, path)
    BY <1>4
  <2>2. Candidates(path) = {} <=> given = {}
    BY <2>1, GivenIs
  <2> QED
    BY <2>2, <1>2, <1>4
<1> QED
  BY <1>3, <1>4

LEMMA Matched ==
  ASSUME NEW E, \A r \in E : WellFormed(r), TrieInv(E), NEW path \in Seq(Segments), IsPlain(path), NEW method \in Methods,
         Mine(method, path) # {}
  PROVE  /\ LastOf(Mine(method, path)) \in Mine(method, path)
         /\ MatchRoute(method, path) =
              [kind |-> "Found", target |-> TargetOf(routing.registered[LastOf(Mine(method, path))]),
               params |-> Bound(routing.registered[LastOf(Mine(method, path))], path)]
<1> DEFINE ends == {n \in routing.children : Leads(n, path)}
           node == CHOOSE n \in ends : TRUE
           given == {m \in Methods : <<node, m>> \in DOMAIN routing.targets}
           route == routing.registered[LastOf(Mine(method, path))]
           captured == {i \in DOMAIN path : node[i] # path[i]}
<1>1. \A r \in E : r.path \in Seq(Segments)
  BY DEF WellFormed
<1>2. ends # {}
  <2>1. PICK k \in Candidates(path) : TRUE
    BY DEF Mine
  <2> QED
    BY <2>1, <1>1, CandidateLeads
<1>3. node \in routing.children /\ Leads(node, path)
  BY <1>2
<1> HIDE DEF node
<1>4. <<node, method>> \in DOMAIN routing.targets /\ given # {} /\ method \in given
  BY <1>3, GivenIs
<1>5. LastOf(Mine(method, path)) \in Mine(method, path) /\ routing.targets[<<node, method>>] = TargetOf(route)
  BY <1>1, <1>3, <1>4, NewestIsLast
<1>6. Zipped(Names(route.path), captured, path) = Bound(route, path)
  <2>1. LastOf(Mine(method, path)) \in Candidates(path) /\ LastOf(Mine(method, path)) \in DOMAIN routing.registered
    BY <1>5 DEF Mine, Candidates
  <2>2. Twins(node, Way(LastOf(Mine(method, path)))) /\ Way(LastOf(Mine(method, path))) = route.path
    BY <2>1, <1>1, <1>3, LeadsCandidate DEF Way
  <2>3. route.path \in Seq(Segments)
    BY <2>1, <2>2, <1>1, WayIs
  <2>4. node \in Seq(Segments)
    BY <1>3 DEF TrieInv, Rooted
  <2>5. Len(node) = Len(path) /\ \A i \in DOMAIN path : node[i] = path[i] \/ node[i].par
    BY <1>3 DEF Leads
  <2> HIDE DEF route
  <2> QED
    BY <2>2, <2>3, <2>4, <2>5, BoundIs
<1>7. TargetOf(route).names = Names(route.path)
  BY DEF TargetOf
<1>8. MatchRoute(method, path) =
        [kind |-> "Found", target |-> routing.targets[<<node, method>>],
         params |-> Zipped(routing.targets[<<node, method>>].names, captured, path)]
  BY <1>2, <1>4 DEF MatchRoute, node
<1> QED
  BY <1>5, <1>6, <1>7, <1>8

(* Any answer names a route of the table.                                   *)
LEMMA FoundIs ==
  ASSUME NEW E, \A r \in E : WellFormed(r), TrieInv(E), NEW path, NEW method \in Methods
  PROVE  /\ MatchRoute(method, path).kind \in {"NotFound", "MethodNotAllowed", "Found"}
         /\ MatchRoute(method, path).kind = "Found" =>
              /\ MatchRoute(method, path).target.role \in Roles \cup {NoRole}
              /\ MatchRoute(method, path).target.caps \in Seq(Seq(Roles))
<1> DEFINE ends == {n \in routing.children : Leads(n, path)}
           node == CHOOSE n \in ends : TRUE
           given == {m \in Methods : <<node, m>> \in DOMAIN routing.targets}
           found == [kind |-> "Found", target |-> routing.targets[<<node, method>>],
                     params |-> Zipped(routing.targets[<<node, method>>].names, {i \in DOMAIN path : node[i] # path[i]}, path)]
<1>1. MatchRoute(method, path) = IF ends = {} \/ given = {} THEN [kind |-> "NotFound"]
                                 ELSE IF method \notin given THEN [kind |-> "MethodNotAllowed"] ELSE found
  BY DEF MatchRoute
<1>2. CASE ends # {} /\ method \in given
  <2>1. node \in routing.children
    BY <1>2
  <2> HIDE DEF node
  <2>2. PICK k \in 1..Len(routing.registered) : routing.targets[<<node, method>>] = TargetOf(routing.registered[k])
    BY <2>1, <1>2 DEF TrieInv, TargetsStand
  <2>3. routing.registered[k] \in E
    BY <2>2 DEF TrieInv
  <2>4. routing.registered[k].role \in Roles \cup {NoRole} /\ routing.registered[k].caps \in Seq(Seq(Roles))
    BY <2>3 DEF WellFormed
  <2>5. found.target.role \in Roles \cup {NoRole} /\ found.target.caps \in Seq(Seq(Roles))
    BY <2>2, <2>4 DEF TargetOf
  <2> QED
    BY <2>5, <1>1, <1>2
<1>3. CASE ~ (ends # {} /\ method \in given)
  BY <1>1, <1>3
<1> QED
  BY <1>2, <1>3
-----------------------------------------------------------------------------
(* Roles: what the search of the tree says of one role.                     *)
Says == {"yes", "no", "overflow"}

LEMMA FirstIs ==
  ASSUME NEW N \in Nat, NEW said \in [1..N -> Says]
  PROVE  /\ First(said) \in Says
         /\ First(said) = "no" => \A i \in 1..N : said[i] = "no"
         /\ First(said) # "no" => \E i \in 1..N : said[i] = First(said)
<1> DEFINE heard == {i \in 1..N : said[i] # "no"}
<1>1. DOMAIN said = 1..N /\ heard \subseteq Nat /\ \A i \in 1..N : said[i] \in Says
  OBVIOUS
<1>2. First(said) = IF heard = {} THEN "no" ELSE said[CHOOSE i \in heard : \A j \in heard : i <= j]
  BY <1>1 DEF First
<1>3. CASE heard = {}
  BY <1>2, <1>3 DEF Says
<1>4. CASE heard # {}
  <2>1. \A i \in heard : i \in 1..N /\ said[i] # "no"
    OBVIOUS
  <2> HIDE DEF heard
  <2>2. PICK i \in heard : \A y \in heard : ~ (<<y, i>> \in OpToRel(<, Nat))
    BY <1>1, <1>4, WFMin, NatLessThanWellFounded
  <2>3. \A y \in heard : ~ (y < i)
    BY <1>1, <2>2 DEF OpToRel
  <2>4. \A y \in heard : i <= y
    BY <1>1, <2>3
  <2> DEFINE first == CHOOSE k \in heard : \A j \in heard : k <= j
  <2>5. first \in heard
    BY <2>2, <2>4
  <2> HIDE DEF first
  <2>6. First(said) = said[first]
    BY <1>2, <1>4 DEF first
  <2> QED
    BY <2>1, <2>5, <2>6, <1>1
<1> QED
  BY <1>3, <1>4

(* The search of d levels exists for every d.                               *)
IsSearch(f, inherits, target, n) ==
  f = [d \in 0..n |-> IF d = 0 THEN [r \in Roles |-> IF r = target THEN "yes" ELSE "overflow"]
                     ELSE Climb(inherits, target, f[d - 1])]

LEMMA Searched ==
  ASSUME NEW inherits, NEW target, NEW N \in Nat
  PROVE  \E f : IsSearch(f, inherits, target, N)
<1> DEFINE base == [r \in Roles |-> IF r = target THEN "yes" ELSE "overflow"]
           Is(f, n) == f = [d \in 0..n |-> IF d = 0 THEN base ELSE Climb(inherits, target, f[d - 1])]
           B == {n \in Nat : ~ \E f : Is(f, n)}
<1> HIDE DEF base
<1>1. B \subseteq Nat /\ \A n \in Nat : n \notin B <=> \E f : Is(f, n)
  OBVIOUS
<1>2. \E f : Is(f, 0)
  <2>1. Is([d \in 0..0 |-> base], 0)
    OBVIOUS
  <2> QED
    BY <2>1
<1>3. ASSUME NEW n \in Nat, NEW f, Is(f, n) PROVE \E g : Is(g, n + 1)
  <2> DEFINE g == [d \in 0..(n + 1) |-> IF d = n + 1 THEN Climb(inherits, target, f[n]) ELSE f[d]]
  <2>1. \A d \in 0..n : f[d] = IF d = 0 THEN base ELSE Climb(inherits, target, f[d - 1])
    BY <1>3
  <2>2. \A d \in 0..(n + 1) : g[d] = IF d = 0 THEN base ELSE Climb(inherits, target, g[d - 1])
    <3> SUFFICES ASSUME NEW d \in 0..(n + 1) PROVE g[d] = IF d = 0 THEN base ELSE Climb(inherits, target, g[d - 1])
      OBVIOUS
    <3>1. CASE d = n + 1
      <4>1. g[n] = f[n] /\ d # 0 /\ d - 1 = n
        BY <3>1
      <4> QED
        BY <4>1, <3>1
    <3>2. CASE d \in 0..n
      <4>1. g[d] = f[d] /\ (d # 0 => d - 1 \in 0..n /\ g[d - 1] = f[d - 1])
        BY <3>2
      <4> QED
        BY <4>1, <3>2, <2>1
    <3> QED
      BY <3>1, <3>2
  <2>3. g = [d \in 0..(n + 1) |-> g[d]]
    OBVIOUS
  <2> HIDE DEF g
  <2>4. Is(g, n + 1)
    BY <2>2, <2>3
  <2> QED
    BY <2>4
<1> HIDE DEF Is
<1>4. \A n \in Nat : n \notin B => n + 1 \notin B
  BY <1>1, <1>3
<1> HIDE DEF B
<1>5. B = {}
  <2> SUFFICES ASSUME B # {} PROVE FALSE
    OBVIOUS
  <2>1. PICK n \in B : \A y \in B : ~ (<<y, n>> \in OpToRel(<, Nat))
    BY <1>1, WFMin, NatLessThanWellFounded
  <2>2. \A y \in B : ~ (y < n)
    BY <1>1, <2>1 DEF OpToRel
  <2>3. n # 0 /\ n \in Nat
    BY <1>1, <1>2
  <2>4. n - 1 \in Nat /\ n - 1 < n /\ (n - 1) + 1 = n
    BY <2>3
  <2>5. n - 1 \notin B
    BY <2>2, <2>4
  <2>6. (n - 1) + 1 \notin B
    BY <2>4, <2>5, <1>4
  <2> QED
    BY <2>4, <2>6
<1> QED
  BY <1>1, <1>5 DEF Is, base, IsSearch

(* The roles that one reaches, without the routes.                          *)
IsTree == IsFiniteSet(Roles) /\ routing.inherits \in [Roles -> Seq(Roles)]

LEMMA Parents ==
  ASSUME IsTree, NEW r \in Roles
  PROVE  /\ routing.inherits[r] \in Seq(Roles) /\ Len(routing.inherits[r]) \in Nat
         /\ DOMAIN routing.inherits[r] = 1..Len(routing.inherits[r])
         /\ \A i \in 1..Len(routing.inherits[r]) : routing.inherits[r][i] \in Roles
<1>1. routing.inherits[r] \in Seq(Roles)
  BY DEF IsTree
<1> QED
  BY <1>1

LEMMA ReachIs ==
  ASSUME IsTree, NEW r \in Roles
  PROVE  /\ r \in Reach(r) /\ Reach(r) \subseteq Roles
         /\ \A i \in DOMAIN routing.inherits[r] : Reach(routing.inherits[r][i]) \subseteq Reach(r)
         /\ \A s \in Reach(r) : s = r \/ \E i \in DOMAIN routing.inherits[r] : s \in Reach(routing.inherits[r][i])
<1>1. r \in Reach(r) /\ Reach(r) \subseteq Roles
  BY DEF Reach
<1>2. ASSUME NEW i \in DOMAIN routing.inherits[r], NEW s \in Reach(routing.inherits[r][i]) PROVE s \in Reach(r)
  BY <1>2 DEF Reach, Closed
<1>3. ASSUME NEW s \in Reach(r), s # r PROVE \E i \in DOMAIN routing.inherits[r] : s \in Reach(routing.inherits[r][i])
  <2> DEFINE C == {r} \cup {t \in Roles : \E i \in DOMAIN routing.inherits[r] : t \in Reach(routing.inherits[r][i])}
  <2>1. \A i \in DOMAIN routing.inherits[r] : routing.inherits[r][i] \in Reach(routing.inherits[r][i]) /\ routing.inherits[r][i] \in Roles
    BY Parents DEF Reach
  <2>2. ASSUME NEW t \in Roles, NEW i \in DOMAIN routing.inherits[r], t \in Reach(routing.inherits[r][i]),
               NEW j \in DOMAIN routing.inherits[t]
        PROVE  routing.inherits[t][j] \in Reach(routing.inherits[r][i])
    <3>1. routing.inherits[t][j] \in Roles
      BY Parents
    <3> QED
      BY <3>1, <2>2 DEF Reach, Closed
  <2>3. \A t \in C : t \in Roles
    OBVIOUS
  <2>4. ASSUME NEW t \in C, NEW j \in DOMAIN routing.inherits[t] PROVE routing.inherits[t][j] \in C
    <3>1. routing.inherits[t][j] \in Roles
      BY <2>3, Parents
    <3>2. CASE t = r
      BY <3>1, <3>2, <2>1
    <3>3. CASE t # r
      <4>1. PICK i \in DOMAIN routing.inherits[r] : t \in Reach(routing.inherits[r][i])
        BY <3>3
      <4>2. routing.inherits[t][j] \in Reach(routing.inherits[r][i])
        BY <4>1, <2>2, <2>3
      <4> QED
        BY <3>1, <4>2
    <3> QED
      BY <3>2, <3>3
  <2>5. C \in SUBSET Roles /\ r \in C
    OBVIOUS
  <2> HIDE DEF C
  <2>6. Closed(C)
    BY <2>4 DEF Closed
  <2>7. s \in C
    BY <2>5, <2>6 DEF Reach
  <2> QED
    BY <2>7, <1>3 DEF C
<1> QED
  BY <1>1, <1>2, <1>3

(* In a tree without a cycle a role reaches more than any that it inherits. *)
LEMMA ReachShrinks ==
  ASSUME IsTree, Acyclic, NEW r \in Roles, NEW i \in DOMAIN routing.inherits[r]
  PROVE  /\ Cardinality(Reach(routing.inherits[r][i])) \in Nat /\ Cardinality(Reach(r)) \in Nat
         /\ Cardinality(Reach(routing.inherits[r][i])) < Cardinality(Reach(r))
<1> DEFINE child == routing.inherits[r][i]
<1>1. child \in Roles
  BY Parents
<1>2. Reach(child) \subseteq Reach(r) /\ r \in Reach(r) /\ r \notin Reach(child) /\ Reach(r) \subseteq Roles
  BY ReachIs DEF Acyclic
<1>3. IsFiniteSet(Roles)
  BY DEF IsTree
<1> HIDE DEF child
<1>4. IsFiniteSet(Reach(r))
  BY <1>2, <1>3, FS_Subset
<1>5. IsFiniteSet(Reach(child)) /\ Cardinality(Reach(child)) <= Cardinality(Reach(r))
      /\ Cardinality(Reach(child)) # Cardinality(Reach(r))
  BY <1>2, <1>4, FS_Subset
<1>6. Cardinality(Reach(child)) \in Nat /\ Cardinality(Reach(r)) \in Nat
  BY <1>4, <1>5, FS_CardinalityType
<1> QED
  BY <1>5, <1>6 DEF child

(* What a search of d levels knows: a role that it finds is reached, one    *)
(* that it denies is not, and it gives up only above d roles or in a cycle. *)
Knows(h, target, d) ==
  /\ h \in [Roles -> Says]
  /\ \A r \in Roles :
       /\ h[r] = "yes" => target \in Reach(r)
       /\ h[r] = "no" => target \notin Reach(r)
       /\ Acyclic /\ h[r] = "overflow" => Cardinality(Reach(r)) > d

LEMMA KnowsAtFirst ==
  ASSUME IsTree, NEW target \in Roles
  PROVE  Knows([r \in Roles |-> IF r = target THEN "yes" ELSE "overflow"], target, 0)
<1> DEFINE h == [r \in Roles |-> IF r = target THEN "yes" ELSE "overflow"]
<1>1. h \in [Roles -> Says]
  BY DEF Says
<1>2. \A r \in Roles : h[r] = "yes" => target \in Reach(r)
  BY ReachIs
<1>3. \A r \in Roles : h[r] # "no"
  OBVIOUS
<1>4. \A r \in Roles : Cardinality(Reach(r)) > 0
  <2> SUFFICES ASSUME NEW r \in Roles PROVE Cardinality(Reach(r)) > 0
    OBVIOUS
  <2>1. r \in Reach(r) /\ Reach(r) \subseteq Roles
    BY ReachIs
  <2>2. IsFiniteSet(Reach(r))
    BY <2>1, FS_Subset DEF IsTree
  <2>3. Cardinality(Reach(r)) \in Nat /\ Cardinality(Reach(r)) # 0
    BY <2>1, <2>2, FS_CardinalityType, FS_EmptySet
  <2> QED
    BY <2>3
<1> HIDE DEF h
<1>5. Knows(h, target, 0)
  BY <1>1, <1>2, <1>3, <1>4 DEF Knows
<1> QED
  BY <1>5 DEF h

LEMMA KnowsMore ==
  ASSUME IsTree, NEW target \in Roles, NEW d \in Nat, NEW below, Knows(below, target, d)
  PROVE  Knows(Climb(routing.inherits, target, below), target, d + 1)
<1> DEFINE h == Climb(routing.inherits, target, below)
           Said(r) == [i \in DOMAIN routing.inherits[r] |->
                         IF routing.inherits[r][i] = target THEN "yes" ELSE below[routing.inherits[r][i]]]
<1>1. DOMAIN h = Roles /\ h = [r \in Roles |-> h[r]] /\ \A r \in Roles : h[r] = IF r = target THEN "yes" ELSE First(Said(r))
  BY DEF Climb
<1>2. below \in [Roles -> Says]
  BY DEF Knows
<1> HIDE DEF h
<1>3. ASSUME NEW r \in Roles
      PROVE  /\ h[r] \in Says
             /\ h[r] = "yes" => target \in Reach(r)
             /\ h[r] = "no" => target \notin Reach(r)
             /\ Acyclic /\ h[r] = "overflow" => Cardinality(Reach(r)) > d + 1
  <2> DEFINE N == Len(routing.inherits[r])
             parents == routing.inherits[r]
             said == Said(r)
  <2>1. N \in Nat /\ DOMAIN parents = 1..N /\ \A i \in 1..N : parents[i] \in Roles
    BY Parents
  <2>2. \A i \in 1..N : /\ said[i] = IF parents[i] = target THEN "yes" ELSE below[parents[i]]
                        /\ said[i] \in Says
    BY <2>1, <1>2 DEF Says
  <2>3. said \in [1..N -> Says]
    BY <2>1, <2>2
  <2>4. target \in Reach(target)
    BY ReachIs
  <2>5. /\ \A i \in 1..N : Reach(parents[i]) \subseteq Reach(r)
        /\ \A s \in Reach(r) : s = r \/ \E i \in 1..N : s \in Reach(parents[i])
        /\ r \in Reach(r)
    BY <2>1, ReachIs
  <2>6. CASE r = target
    BY <2>5, <2>6, <1>1 DEF Says
  <2>7. CASE r # target
    <3>1. h[r] = First(said)
      BY <2>7, <1>1
    <3>2. Acyclic => \A i \in 1..N : /\ Cardinality(Reach(parents[i])) \in Nat /\ Cardinality(Reach(r)) \in Nat
                                     /\ Cardinality(Reach(parents[i])) < Cardinality(Reach(r))
      BY <2>1, ReachShrinks
    <3> HIDE DEF said, parents, N
    <3>3. /\ h[r] \in Says
          /\ h[r] = "no" => \A i \in 1..N : said[i] = "no"
          /\ h[r] # "no" => \E i \in 1..N : said[i] = h[r]
      BY <2>1, <2>3, <3>1, FirstIs
    <3>4. ASSUME h[r] = "yes" PROVE target \in Reach(r)
      <4>1. PICK i \in 1..N : said[i] = "yes"
        BY <3>3, <3>4
      <4>2. target \in Reach(parents[i])
        <5>1. CASE parents[i] = target
          BY <5>1, <2>4
        <5>2. CASE parents[i] # target
          BY <5>2, <4>1, <2>1, <2>2 DEF Knows
        <5> QED
          BY <5>1, <5>2
      <4> QED
        BY <4>2, <2>5
    <3>5. ASSUME h[r] = "no" PROVE target \notin Reach(r)
      <4>1. \A i \in 1..N : target \notin Reach(parents[i])
        BY <3>3, <3>5, <2>1, <2>2 DEF Knows
      <4> QED
        BY <4>1, <2>5, <2>7
    <3>6. ASSUME Acyclic, h[r] = "overflow" PROVE Cardinality(Reach(r)) > d + 1
      <4>1. PICK i \in 1..N : said[i] = "overflow"
        BY <3>3, <3>6
      <4>2. below[parents[i]] = "overflow" /\ parents[i] \in Roles
        BY <4>1, <2>1, <2>2
      <4>3. Cardinality(Reach(parents[i])) > d
        BY <4>2, <3>6 DEF Knows
      <4>4. /\ Cardinality(Reach(parents[i])) \in Nat /\ Cardinality(Reach(r)) \in Nat
            /\ Cardinality(Reach(parents[i])) < Cardinality(Reach(r))
        BY <3>2, <3>6
      <4> QED
        BY <4>3, <4>4
    <3> QED
      BY <3>3, <3>4, <3>5, <3>6
  <2> QED
    BY <2>6, <2>7
<1>4. h \in [Roles -> Says]
  BY <1>1, <1>3
<1>5. Knows(h, target, d + 1)
  BY <1>3, <1>4 DEF Knows
<1> QED
  BY <1>5 DEF h

(* check_inheritance finds exactly what a role reaches, and comes back from *)
(* every tree without a cycle.                                              *)
LEMMA InheritanceFound ==
  ASSUME IsTree, NEW role \in Roles, NEW target \in Roles
  PROVE  LET found == CheckInheritance(routing.inherits, role, target) IN
         /\ found \in Says
         /\ found = "yes" => target \in Reach(role)
         /\ found = "no" => target \notin Reach(role)
         /\ found = "overflow" => ~ Acyclic
<1> DEFINE N == Cardinality(Roles)
           base == [r \in Roles |-> IF r = target THEN "yes" ELSE "overflow"]
           climbed == CHOOSE f : IsSearch(f, routing.inherits, target, N)
           B == {n \in 0..N : ~ Knows(climbed[n], target, n)}
<1>1. IsFiniteSet(Roles) /\ N \in Nat
  BY FS_CardinalityType DEF IsTree
<1>2. CheckInheritance(routing.inherits, role, target) = climbed[N][role]
  BY DEF CheckInheritance, IsSearch
<1>3. IsSearch(climbed, routing.inherits, target, N)
  <2>1. \E f : IsSearch(f, routing.inherits, target, N)
    BY <1>1, Searched
  <2> QED
    BY <2>1
<1>4. Knows(base, target, 0)
  BY KnowsAtFirst
<1> HIDE DEF N, base, climbed
<1>5. climbed[0] = base /\ \A d \in 1..N : climbed[d] = Climb(routing.inherits, target, climbed[d - 1])
  <2>1. climbed = [d \in 0..N |-> IF d = 0 THEN base ELSE Climb(routing.inherits, target, climbed[d - 1])]
    BY <1>3 DEF IsSearch, base
  <2>2. \A d \in 0..N : climbed[d] = IF d = 0 THEN base ELSE Climb(routing.inherits, target, climbed[d - 1])
    BY <2>1
  <2>3. 0 \in 0..N /\ \A d \in 1..N : d \in 0..N /\ d # 0
    BY <1>1
  <2> QED
    BY <2>2, <2>3
<1>6. B \subseteq Nat /\ \A n \in 0..N : n \notin B <=> Knows(climbed[n], target, n)
  BY <1>1
<1>7. B \subseteq 0..N
  OBVIOUS
<1> HIDE DEF B
<1>8. B = {}
  <2> SUFFICES ASSUME B # {} PROVE FALSE
    OBVIOUS
  <2>1. PICK n \in B : \A y \in B : ~ (<<y, n>> \in OpToRel(<, Nat))
    BY <1>6, WFMin, NatLessThanWellFounded
  <2>2. \A y \in B : ~ (y < n)
    BY <1>6, <2>1 DEF OpToRel
  <2>3. n # 0 /\ n \in 0..N
    BY <1>1, <1>4, <1>5, <1>6, <1>7
  <2>4. n - 1 \in 0..N /\ n - 1 \in Nat /\ n - 1 < n /\ (n - 1) + 1 = n /\ n \in 1..N
    BY <1>1, <2>3
  <2>5. Knows(climbed[n - 1], target, n - 1)
    BY <2>2, <2>4, <1>6
  <2>6. Knows(Climb(routing.inherits, target, climbed[n - 1]), target, (n - 1) + 1)
    BY <2>4, <2>5, KnowsMore
  <2>7. Knows(climbed[n], target, n)
    BY <2>4, <2>6, <1>5
  <2> QED
    BY <2>3, <2>7, <1>6
<1>9. Knows(climbed[N], target, N)
  BY <1>1, <1>6, <1>8
<1>10. ~ (Cardinality(Reach(role)) > N)
  <2>1. Reach(role) \subseteq Roles
    BY ReachIs
  <2>2. Cardinality(Reach(role)) <= N /\ IsFiniteSet(Reach(role))
    BY <1>1, <2>1, FS_Subset DEF N
  <2>3. Cardinality(Reach(role)) \in Nat
    BY <2>2, FS_CardinalityType
  <2> QED
    BY <2>2, <2>3, <1>1
<1> QED
  BY <1>2, <1>9, <1>10 DEF Knows

LEMMA RoleHeld ==
  ASSUME IsTree, NEW role \in Roles \cup {NoRole}, NEW target \in Roles
  PROVE  /\ HasRole(routing.inherits, role, target) \in Says
         /\ HasRole(routing.inherits, role, target) = "yes" => Holds(role, target)
         /\ HasRole(routing.inherits, role, target) = "no" => ~ Holds(role, target)
         /\ HasRole(routing.inherits, role, target) = "overflow" => ~ Acyclic
<1>1. CASE role = NoRole
  BY <1>1 DEF HasRole, Holds, Says
<1>2. CASE role # NoRole
  <2> DEFINE found == CheckInheritance(routing.inherits, role, target)
  <2>1. /\ found \in Says
        /\ found = "yes" => target \in Reach(role)
        /\ found = "no" => target \notin Reach(role)
        /\ found = "overflow" => ~ Acyclic
    BY <1>2, InheritanceFound
  <2>2. HasRole(routing.inherits, role, target) = IF found = "no" /\ role = SuperAdmin THEN "yes" ELSE found
    BY <1>2 DEF HasRole
  <2> HIDE DEF found
  <2>3. CASE found = "no" /\ role = SuperAdmin
    BY <1>2, <2>2, <2>3 DEF Holds, Says
  <2>4. CASE found = "no" /\ role # SuperAdmin
    BY <2>1, <2>2, <2>4 DEF Holds, Says
  <2>5. CASE found # "no"
    BY <1>2, <2>1, <2>2, <2>5 DEF Holds
  <2> QED
    BY <2>3, <2>4, <2>5
<1> QED
  BY <1>1, <1>2

LEMMA OneHeld ==
  ASSUME IsTree, NEW role \in Roles \cup {NoRole}, NEW allowed \in Seq(Roles)
  PROVE  /\ OneOf(routing.inherits, role, allowed) \in Says
         /\ OneOf(routing.inherits, role, allowed) = "yes" => \E j \in DOMAIN allowed : Holds(role, allowed[j])
         /\ OneOf(routing.inherits, role, allowed) = "no" => \A j \in DOMAIN allowed : ~ Holds(role, allowed[j])
         /\ OneOf(routing.inherits, role, allowed) = "overflow" => ~ Acyclic
<1> DEFINE N == Len(allowed)
           said == [i \in DOMAIN allowed |-> HasRole(routing.inherits, role, allowed[i])]
           one == OneOf(routing.inherits, role, allowed)
<1>1. N \in Nat /\ DOMAIN allowed = 1..N /\ \A i \in 1..N : allowed[i] \in Roles
  BY SeqDomain
<1>2. \A i \in 1..N : /\ said[i] = HasRole(routing.inherits, role, allowed[i])
                      /\ said[i] \in Says
                      /\ said[i] = "yes" => Holds(role, allowed[i])
                      /\ said[i] = "no" => ~ Holds(role, allowed[i])
                      /\ said[i] = "overflow" => ~ Acyclic
  BY <1>1, RoleHeld
<1>3. said \in [1..N -> Says]
  BY <1>1, <1>2
<1>4. one = First(said)
  BY DEF OneOf
<1> HIDE DEF N, said, one
<1>5. /\ one \in Says
      /\ one = "no" => \A i \in 1..N : said[i] = "no"
      /\ one # "no" => \E i \in 1..N : said[i] = one
  BY <1>1, <1>3, <1>4, FirstIs
<1>6. one = "yes" => \E j \in 1..N : Holds(role, allowed[j])
  BY <1>2, <1>5
<1>7. one = "no" => \A j \in 1..N : ~ Holds(role, allowed[j])
  BY <1>2, <1>5
<1>8. one = "overflow" => ~ Acyclic
  BY <1>2, <1>5
<1> QED
  BY <1>1, <1>5, <1>6, <1>7, <1>8 DEF one

LEMMA CapabilityHeld ==
  ASSUME IsTree, NEW role \in Roles \cup {NoRole}, NEW caps \in Seq(Seq(Roles))
  PROVE  LET may == caps = << >> \/ \E i \in DOMAIN caps : \E j \in DOMAIN caps[i] : Holds(role, caps[i][j]) IN
         /\ Authorized(routing.inherits, role, caps) \in Says
         /\ Authorized(routing.inherits, role, caps) = "yes" => may
         /\ Authorized(routing.inherits, role, caps) = "no" => ~ may
         /\ Authorized(routing.inherits, role, caps) = "overflow" => ~ Acyclic
<1> DEFINE One(i) == OneOf(routing.inherits, role, caps[i])
           held == {One(i) : i \in DOMAIN caps}
           all == Authorized(routing.inherits, role, caps)
<1>1. \A i \in DOMAIN caps : caps[i] \in Seq(Roles)
  OBVIOUS
<1>2. \A i \in DOMAIN caps : /\ One(i) \in Says
                             /\ One(i) = "yes" => \E j \in DOMAIN caps[i] : Holds(role, caps[i][j])
                             /\ One(i) = "no" => \A j \in DOMAIN caps[i] : ~ Holds(role, caps[i][j])
                             /\ One(i) = "overflow" => ~ Acyclic
  BY <1>1, OneHeld
<1>3. all = IF "overflow" \in held THEN "overflow" ELSE IF caps = << >> \/ "yes" \in held THEN "yes" ELSE "no"
  BY DEF Authorized
<1> HIDE DEF One, all
<1>4. "overflow" \in held => ~ Acyclic
  BY <1>2
<1>5. "yes" \in held => \E i \in DOMAIN caps : \E j \in DOMAIN caps[i] : Holds(role, caps[i][j])
  BY <1>2
<1>6. "overflow" \notin held /\ "yes" \notin held =>
        \A i \in DOMAIN caps : \A j \in DOMAIN caps[i] : ~ Holds(role, caps[i][j])
  BY <1>2 DEF Says
<1>7. all \in Says
  BY <1>3 DEF Says
<1> HIDE DEF held
<1> QED
  BY <1>3, <1>4, <1>5, <1>6, <1>7 DEF all

LEMMA Called ==
  ASSUME IsTree, NEW role \in Roles \cup {NoRole}, NEW target, target.role \in Roles \cup {NoRole},
         target.caps \in Seq(Seq(Roles))
  PROVE  /\ Call(target, role) \in {"called", "forbidden", "overflow"}
         /\ Call(target, role) = "called" => MayCall(role, target)
         /\ Call(target, role) = "forbidden" => ~ MayCall(role, target)
         /\ Call(target, role) = "overflow" => ~ Acyclic
<1> DEFINE asked == IF target.role = NoRole THEN "yes" ELSE HasRole(routing.inherits, role, target.role)
           caps == Authorized(routing.inherits, role, target.caps)
           May == target.caps = << >> \/ \E i \in DOMAIN target.caps : \E j \in DOMAIN target.caps[i] : Holds(role, target.caps[i][j])
           call == Call(target, role)
<1>1. /\ asked \in Says
      /\ asked = "yes" => target.role = NoRole \/ Holds(role, target.role)
      /\ asked = "no" => ~ (target.role = NoRole \/ Holds(role, target.role))
      /\ asked = "overflow" => ~ Acyclic
  <2>1. CASE target.role = NoRole
    BY <2>1 DEF Says
  <2>2. CASE target.role # NoRole
    <3>1. target.role \in Roles
      BY <2>2
    <3> QED
      BY <2>2, <3>1, RoleHeld
  <2> QED
    BY <2>1, <2>2
<1>2. caps \in Says /\ (caps = "yes" => May) /\ (caps = "no" => ~ May) /\ (caps = "overflow" => ~ Acyclic)
  BY CapabilityHeld
<1>3. call = CASE asked = "overflow" -> "overflow" [] asked = "no" -> "forbidden"
               [] asked = "yes" -> CASE caps = "overflow" -> "overflow" [] caps = "no" -> "forbidden" [] caps = "yes" -> "called"
  BY DEF Call
<1>4. MayCall(role, target) <=> (target.role = NoRole \/ Holds(role, target.role)) /\ May
  BY DEF MayCall
<1> HIDE DEF asked, caps, May, call
<1> DEFINE Right == /\ call \in {"called", "forbidden", "overflow"}
                    /\ call = "called" => MayCall(role, target)
                    /\ call = "forbidden" => ~ MayCall(role, target)
                    /\ call = "overflow" => ~ Acyclic
<1>5. ASSUME asked = "overflow" PROVE Right
  BY <1>1, <1>3, <1>5
<1>6. ASSUME asked = "no" PROVE Right
  BY <1>1, <1>3, <1>4, <1>6
<1>7. ASSUME asked = "yes" PROVE Right
  <2>1. call = CASE caps = "overflow" -> "overflow" [] caps = "no" -> "forbidden" [] caps = "yes" -> "called"
    BY <1>3, <1>7
  <2>2. ASSUME caps = "overflow" PROVE Right
    BY <2>1, <2>2, <1>2
  <2>3. ASSUME caps = "no" PROVE Right
    BY <2>1, <2>3, <1>2, <1>4
  <2>4. ASSUME caps = "yes" PROVE Right
    BY <2>1, <2>4, <1>1, <1>2, <1>4, <1>7
  <2> HIDE DEF Right
  <2> QED
    BY <2>2, <2>3, <2>4, <1>2 DEF Says
<1>8. Right
  <2> HIDE DEF Right
  <2> QED
    BY <1>1, <1>5, <1>6, <1>7 DEF Says
<1> QED
  BY <1>8 DEF call

-----------------------------------------------------------------------------
(* What a client can ask.                                                   *)
IsRequest(q) == q.method \in Methods /\ q.path \in Seq(Segments) /\ q.role \in Roles \cup {NoRole}

(* What is answered is answered from the whole table, which stands still    *)
(* from then on.                                                            *)
RoutesInv(E, asked) ==
  /\ TrieInv(E) /\ IsTree
  /\ Settled => Request \in asked /\ Reply = Outcome(Request) /\ routing.pending = << >>

(* A request is answered as the table of routes promises.                   *)
LEMMA PriorityHeld ==
  ASSUME NEW E, \A r \in E : WellFormed(r), TrieInv(E), Settled, IsRequest(Request), IsTree,
         Reply = Outcome(Request), IsPlain(Request.path)
  PROVE  LET fit == Candidates(Request.path)
             mine == {k \in fit : routing.registered[k].method = Request.method}
             route == routing.registered[LastOf(mine)]
             IsError(status) ==
               /\ Reply.kind \in {"caught", "page"} /\ Reply.status = status
               /\ Reply.kind = "caught" <=> status \in DOMAIN routing.catches
         IN CASE fit = {} -> IsError(404)
              [] fit # {} /\ mine = {} -> IsError(405)
              [] mine # {} -> /\ Reached
                              /\ Reply.handler = route.handler
                              /\ Reply.params = Bound(route, Request.path)
<1> DEFINE path == Request.path
           method == Request.method
           fit == Candidates(path)
           mine == Mine(method, path)
           route == routing.registered[LastOf(mine)]
           result == MatchRoute(method, path)
           IsError(status) ==
             /\ Reply.kind \in {"caught", "page"} /\ Reply.status = status
             /\ Reply.kind = "caught" <=> status \in DOMAIN routing.catches
<1>1. path \in Seq(Segments) /\ method \in Methods
  BY DEF IsRequest
<1>2. mine = {k \in fit : routing.registered[k].method = Request.method}
  BY DEF Mine
<1>3. Reply = CASE result.kind = "NotFound" -> ErrorAnswer(404)
                 [] result.kind = "MethodNotAllowed" -> ErrorAnswer(405)
                 [] result.kind = "Found" -> [kind |-> Call(result.target, Request.role),
                                              handler |-> result.target.handler, params |-> result.params]
  BY DEF Outcome
<1>4. ASSUME NEW status, Reply = ErrorAnswer(status) PROVE IsError(status)
  BY <1>4 DEF ErrorAnswer, ErrorPage
<1>5. ASSUME fit = {} PROVE IsError(404)
  <2>1. mine = {}
    BY <1>2, <1>5
  <2>2. result = [kind |-> "NotFound"]
    BY <1>1, <1>5, <2>1, Unmatched
  <2>3. Reply = ErrorAnswer(404)
    BY <1>3, <2>2
  <2> QED
    BY <1>4, <2>3
<1>6. ASSUME fit # {}, mine = {} PROVE IsError(405)
  <2>1. result = [kind |-> "MethodNotAllowed"]
    BY <1>1, <1>6, Unmatched
  <2>2. Reply = ErrorAnswer(405)
    BY <1>3, <2>1
  <2> QED
    BY <1>4, <2>2
<1>7. ASSUME mine # {}
      PROVE  Reached /\ Reply.handler = route.handler /\ Reply.params = Bound(route, path)
  <2>1. LastOf(mine) \in mine /\ result = [kind |-> "Found", target |-> TargetOf(route), params |-> Bound(route, path)]
    BY <1>1, <1>7, Matched
  <2>2. LastOf(mine) \in DOMAIN routing.registered
    BY <2>1, <1>2 DEF Candidates
  <2>3. route \in E
    BY <2>2 DEF TrieInv
  <2>4. route.role \in Roles \cup {NoRole} /\ route.caps \in Seq(Seq(Roles))
    BY <2>3 DEF WellFormed
  <2> HIDE DEF route, mine, path, result
  <2>5. Reply = [kind |-> Call(TargetOf(route), Request.role), handler |-> TargetOf(route).handler, params |-> Bound(route, path)]
    BY <1>3, <2>1
  <2>6. TargetOf(route).role = route.role /\ TargetOf(route).caps = route.caps /\ TargetOf(route).handler = route.handler
    BY DEF TargetOf
  <2>7. Call(TargetOf(route), Request.role) \in {"called", "forbidden", "overflow"}
    <3>1. Request.role \in Roles \cup {NoRole}
      BY DEF IsRequest
    <3> QED
      BY <2>4, <2>6, <3>1, Called
  <2> QED
    BY <2>5, <2>6, <2>7 DEF Reached
<1>8. mine # {} => fit # {}
  BY <1>2
<1> DEFINE Right == CASE fit = {} -> IsError(404)
                      [] fit # {} /\ mine = {} -> IsError(405)
                      [] mine # {} -> Reached /\ Reply.handler = route.handler /\ Reply.params = Bound(route, path)
<1>9. Right
  <2> HIDE DEF IsError, fit, mine, route
  <2> QED
    BY <1>5, <1>6, <1>7, <1>8
<1> QED
  BY <1>9, <1>2

(* And it runs the handler only if the tree of roles lets it.               *)
LEMMA RolesHeld ==
  ASSUME NEW E, \A r \in E : WellFormed(r), TrieInv(E), Reached, IsRequest(Request), IsTree, Reply = Outcome(Request)
  PROVE  RolesFollowTree
<1> DEFINE found == MatchRoute(Request.method, Request.path)
<1>1. Request.method \in Methods /\ Request.role \in Roles \cup {NoRole}
  BY DEF IsRequest
<1>2. /\ found.kind \in {"NotFound", "MethodNotAllowed", "Found"}
      /\ found.kind = "Found" => found.target.role \in Roles \cup {NoRole} /\ found.target.caps \in Seq(Seq(Roles))
  BY <1>1, FoundIs
<1>3. Reply = CASE found.kind = "NotFound" -> ErrorAnswer(404)
                 [] found.kind = "MethodNotAllowed" -> ErrorAnswer(405)
                 [] found.kind = "Found" -> [kind |-> Call(found.target, Request.role),
                                             handler |-> found.target.handler, params |-> found.params]
  BY DEF Outcome
<1> HIDE DEF found
<1>4. \A status : ErrorAnswer(status).kind \in {"caught", "page"}
  BY DEF ErrorAnswer, ErrorPage
<1>5. found.kind = "Found"
  <2>1. ~ (Reply.kind \in {"caught", "page"})
    BY DEF Reached
  <2> QED
    BY <2>1, <1>2, <1>3, <1>4
<1>6. Reply.kind = Call(found.target, Request.role)
  BY <1>3, <1>5
<1>7. /\ Call(found.target, Request.role) = "called" => MayCall(Request.role, found.target)
      /\ Call(found.target, Request.role) = "forbidden" => ~ MayCall(Request.role, found.target)
      /\ Call(found.target, Request.role) = "overflow" => ~ Acyclic
  <2>1. found.target.role \in Roles \cup {NoRole} /\ found.target.caps \in Seq(Seq(Roles))
    BY <1>2, <1>5
  <2> QED
    BY <2>1, <1>1, Called
<1> QED
  BY <1>6, <1>7 DEF RolesFollowTree, found

LEMMA RoutesHeld ==
  ASSUME NEW E, \A r \in E : WellFormed(r), NEW asked, \A q \in asked : IsRequest(q), RoutesInv(E, asked)
  PROVE  RoutesAreRight
<1>1. TrieInv(E) /\ IsTree /\ (Settled => IsRequest(Request) /\ Reply = Outcome(Request))
  BY DEF RoutesInv
<1>2. MatchIsPriority
  BY <1>1, PriorityHeld DEF MatchIsPriority, IsPlain
<1>3. RolesFollowTree
  <2>1. CASE Reached
    BY <2>1, <1>1, RolesHeld DEF Reached
  <2>2. CASE ~ Reached
    BY <2>2 DEF RolesFollowTree
  <2> QED
    BY <2>1, <2>2
<1> QED
  BY <1>2, <1>3 DEF RoutesAreRight

LEMMA RoutesAtBoot ==
  ASSUME IsFiniteSet(Roles), NEW E, NEW phases \in Seq(SUBSET E), NEW inherits \in [Roles -> Seq(Roles)], NEW declared,
         NEW asked, RoutingInit(phases, inherits, declared)
  PROVE  RoutesInv(E, asked)
<1>1. /\ routing.pending = phases /\ routing.children = {<< >>} /\ routing.targets = [x \in {} |-> x]
      /\ routing.registered = << >> /\ routing.inherits = inherits /\ routing.answer = NoAnswer /\ IsTable
  BY DEF RoutingInit, IsTable
<1>2. IsTree
  BY <1>1 DEF IsTree
<1>3. << >> \in Seq(Segments) /\ Len(<< >>) = 0 /\ << >> \in Seq(E) /\ Len(routing.registered) = 0
  BY <1>1
<1>4. Rooted
  <2>1. \A n \in routing.children : \A k \in 0..Len(n) : Upto(n, k) \in routing.children
    <3> SUFFICES ASSUME NEW n \in routing.children, NEW k \in 0..Len(n) PROVE Upto(n, k) = << >>
      BY <1>1
    <3>1. n = << >> /\ k = Len(n)
      BY <1>1, <1>3
    <3> QED
      BY <3>1, <1>3, WholeUpto
  <2>2. \A k : k \notin 1..0
    OBVIOUS
  <2> QED
    BY <1>1, <1>3, <2>1, <2>2 DEF Rooted
<1>5. TargetsStand
  BY <1>1 DEF TargetsStand
<1> QED
  BY <1>1, <1>2, <1>3, <1>4, <1>5 DEF RoutesInv, TrieInv, Settled

LEMMA OutcomeStands ==
  ASSUME routing'.children = routing.children, routing'.targets = routing.targets,
         routing'.inherits = routing.inherits, routing'.catches = routing.catches, NEW q
  PROVE  Outcome(q)' = Outcome(q)
<1>1. \A method, path : MatchRoute(method, path)' = MatchRoute(method, path)
  BY DEF MatchRoute, Leads
<1>2. \A status : ErrorAnswer(status)' = ErrorAnswer(status)
  BY DEF ErrorAnswer, ErrorPage
<1>3. \A target, role : Call(target, role)' = Call(target, role)
  BY DEF Call
<1> QED
  BY <1>1, <1>2, <1>3 DEF Outcome

LEMMA RoutesStep ==
  ASSUME NEW E, \A r \in E : WellFormed(r), NEW asked, RoutesInv(E, asked), [RoutingNext(asked)]_routing
  PROVE  RoutesInv(E, asked)'
<1>1. TrieInv(E) /\ IsTree /\ IsTable
  BY DEF RoutesInv, TrieInv
<1>2. \A r \in E : r.path \in Seq(Segments) /\ r.method \in Methods
  BY DEF WellFormed
<1>3. CASE Register
  <2>1. PICK route \in Head(routing.pending) : AddRoute(route)
    BY <1>3 DEF Register
  <2>2. routing.pending # << >> /\ route \in E
    <3>1. routing.pending \in Seq(SUBSET E) /\ routing.pending # << >>
      BY <1>1, <1>3 DEF Register, TrieInv
    <3>2. Head(routing.pending) \in SUBSET E
      BY <3>1
    <3> QED
      BY <3>1, <3>2
  <2>3. IsTable' /\ routing'.pending \in Seq(SUBSET E) /\ Grown(route)
    BY <1>1, <2>1, <2>2, RouteEntered
  <2>4. Rooted /\ TargetsStand /\ routing.registered \in Seq(E)
    BY <1>1 DEF TrieInv
  <2>5. Rooted' /\ routing'.registered \in Seq(E)
    BY <1>2, <2>2, <2>3, <2>4, TrieGrows
  <2>6. TargetsStand'
    BY <1>2, <2>2, <2>3, <2>4, <2>5, TargetsMove
  <2>7. IsTree'
    BY <1>1, <2>3 DEF IsTree, Grown
  <2>8. ~ Settled'
    <3>1. ~ Settled
      BY <2>2 DEF RoutesInv
    <3> QED
      BY <3>1, <2>3 DEF Settled, Grown
  <2> QED
    BY <2>3, <2>5, <2>6, <2>7, <2>8 DEF RoutesInv, TrieInv
<1>4. ASSUME NEW request \in asked, Serve(request) PROVE RoutesInv(E, asked)'
  <2>1. /\ routing'.pending = routing.pending /\ routing'.children = routing.children /\ routing'.targets = routing.targets
        /\ routing'.registered = routing.registered /\ routing'.inherits = routing.inherits
        /\ routing'.catches = routing.catches /\ routing.pending = << >>
        /\ routing'.answer = [request |-> request, result |-> Outcome(request)] /\ IsTable'
    BY <1>1, <1>4 DEF Serve, IsTable
  <2>2. TrieInv(E)' /\ IsTree'
    BY <1>1, <2>1, TrieKept DEF IsTree
  <2>3. Request' = request /\ Reply' = Outcome(request)
    BY <2>1 DEF Request, Reply
  <2>4. Outcome(request)' = Outcome(request)
    BY <2>1, OutcomeStands
  <2>5. Reply' = Outcome(Request)'
    BY <2>3, <2>4
  <2> QED
    BY <2>1, <2>2, <2>3, <2>5 DEF RoutesInv
<1>5. CASE UNCHANGED routing
  <2>1. TrieInv(E)' /\ IsTree'
    <3>1. IsTable'
      BY <1>1, <1>5 DEF IsTable
    <3> QED
      BY <1>1, <1>5, <3>1, TrieKept DEF IsTree
  <2>2. Settled' => Settled
    BY <1>5 DEF Settled
  <2>3. Request' = Request /\ Reply' = Reply
    BY <1>5 DEF Request, Reply
  <2>4. Outcome(Request)' = Outcome(Request)
    <3>1. \A q : Outcome(q)' = Outcome(q)
      BY <1>5, OutcomeStands
    <3> QED
      BY <2>3, <3>1
  <2> QED
    BY <1>5, <2>1, <2>2, <2>3, <2>4 DEF RoutesInv
<1> QED
  BY <1>3, <1>4, <1>5 DEF RoutingNext

(* Whatever routes a program declares, in whatever order they are entered,  *)
(* and whatever the graph of its roles: a request without a segment like a  *)
(* parameter is answered by the last route registered for its method among  *)
(* those that fit and are not shadowed, with its own parameters, or with    *)
(* 405, or 404; a handler runs only for whom the graph lets through, and    *)
(* the search of a graph without cycles ends.                               *)
THEOREM RoutesSound ==
  ASSUME IsFiniteSet(Roles), NEW E, \A r \in E : WellFormed(r), NEW phases \in Seq(SUBSET E),
         NEW inherits \in [Roles -> Seq(Roles)], NEW declared, NEW asked, \A q \in asked : IsRequest(q)
  PROVE  RoutingSpec(phases, inherits, declared, asked) => []RoutesAreRight
<1>1. RoutingInit(phases, inherits, declared) => RoutesInv(E, asked)
  BY RoutesAtBoot
<1>2. RoutesInv(E, asked) /\ [RoutingNext(asked)]_routing => RoutesInv(E, asked)'
  BY RoutesStep
<1>3. RoutesInv(E, asked) => RoutesAreRight
  BY RoutesHeld
<1> QED
  BY <1>1, <1>2, <1>3, PTL DEF RoutingSpec
=============================================================================
