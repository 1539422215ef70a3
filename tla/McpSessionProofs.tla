--------------------------- MODULE McpSessionProofs ---------------------------
(***************************************************************************)
(* Theorems about McpSession for every number of clients and messages and  *)
(* every size of the table, the streams and the overlap of create() calls, *)
(* and about McpProtocol for every configuration, requests and versions.   *)
(***************************************************************************)
EXTENDS McpSession, McpProtocol, FiniteSetTheorems, TLAPS

-----------------------------------------------------------------------------
(* Types                                                                    *)

PassOK ==
  /\ since \in [Clients -> SUBSET Clients] /\ passed \in [Clients -> SUBSET Clients]
  /\ began \in [Clients -> 0..Horizon] /\ age \in [Clients -> Int]
  /\ victim \in [Clients -> Clients]

LEMMA TypeInit == Init => TypeOK
<1> SUFFICES ASSUME Init PROVE TypeOK
  OBVIOUS
<1> USE McpSessionAssumption
<1>1. \A c \in Clients : Len(buffer[c]) = 0
  BY DEF Init
<1>2. \A c \in Clients : Len(buffer[c]) <= Capacity
  BY <1>1
<1> QED
  BY <1>2 DEF Init, TypeOK, Streams, Unsent

(* A pass begins or is over.                                                *)
LEMMA PassSet ==
  ASSUME TypeOK, NEW c \in Clients, NEW S \in SUBSET Clients, NEW time \in 0..Horizon, NEW v \in Clients,
         SetPass(c, S, time, v)
  PROVE  PassOK'
BY DEF TypeOK, SetPass, PassOK

(* What create() does to the table before it makes a session, and where it  *)
(* goes on.                                                                 *)
Moves(c, state, S, time, v) ==
  /\ table' \subseteq table
  /\ SetPass(c, S, time, v) /\ Goto(c, state)
  /\ UNCHANGED <<now, born, frames, post>>

LEMMA TypeMoves ==
  ASSUME TypeOK, NEW c \in Clients, NEW state \in Creating, NEW S \in SUBSET Clients,
         NEW time \in 0..Horizon, NEW v \in Clients, Moves(c, state, S, time, v)
  PROVE  TypeOK'
<1>1. PassOK'
  BY PassSet DEF Moves
<1>2. pc' \in [Clients -> Streams]
  BY DEF Moves, Goto, TypeOK, Streams
<1>3. table' \subseteq Clients /\ UNCHANGED <<now, born, buffer, received, pushed, missed, dropped, post>>
  BY DEF Moves, TypeOK, frames
<1> QED
  BY <1>1, <1>2, <1>3 DEF TypeOK, PassOK

(* The steps of create() up to the new session.                             *)
LEMMA CreateMoves ==
  ASSUME TypeOK, NEW c \in Clients
  PROVE  /\ Connect(c) => Moves(c, "prune", table, now, c) /\ pc[c] = "idle" /\ table' = table
         /\ Prune(c) => Moves(c, "count", table', now, c) /\ pc[c] = "prune"
         /\ Counted(c) => /\ pc[c] = "count" /\ Complete(c) /\ table' = table
                          /\ \/ Moves(c, "scan", table', now, c)
                             \/ Moves(c, "stamp", {}, 0, c) /\ Cardinality(passed[c]) < MaxSessions
         /\ FoundNone(c) => /\ pc[c] = "scan" /\ Complete(c) /\ passed[c] = {} /\ table' = table
                            /\ Moves(c, "stamp", {}, 0, c)
         /\ FoundOldest(c) => /\ pc[c] = "scan" /\ Complete(c) /\ passed[c] # {} /\ table' = table
                              /\ Moves(c, "evict", {}, 0, victim[c])
         /\ Evict(c) => Moves(c, "count", table', now, c) /\ pc[c] = "evict"
<1>1. Connect(c) => Moves(c, "prune", table, now, c) /\ pc[c] = "idle" /\ table' = table
  BY DEF Connect, Begin, Moves
<1>2. Prune(c) => Moves(c, "count", table', now, c) /\ pc[c] = "prune"
  BY DEF Prune, Begin, Moves
<1>3. Counted(c) => /\ pc[c] = "count" /\ Complete(c) /\ table' = table
                    /\ \/ Moves(c, "scan", table', now, c)
                       \/ Moves(c, "stamp", {}, 0, c) /\ Cardinality(passed[c]) < MaxSessions
  BY DEF Counted, Begin, Leave, Moves
<1>4. FoundNone(c) => /\ pc[c] = "scan" /\ Complete(c) /\ passed[c] = {} /\ table' = table
                      /\ Moves(c, "stamp", {}, 0, c)
  BY DEF FoundNone, Leave, Moves
<1>5. FoundOldest(c) => /\ pc[c] = "scan" /\ Complete(c) /\ passed[c] # {} /\ table' = table
                        /\ Moves(c, "evict", {}, 0, victim[c])
  BY DEF FoundOldest, Choose, Moves
<1>6. Evict(c) => Moves(c, "count", table', now, c) /\ pc[c] = "evict"
  BY DEF Evict, Begin, Moves
<1> QED
  BY <1>1, <1>2, <1>3, <1>4, <1>5, <1>6

(* Every step keeps the variables what they may be; a receiver never holds  *)
(* more than Capacity frames.                                               *)
LEMMA TypeNext == TypeOK /\ [Next]_vars => TypeOK'
<1> SUFFICES ASSUME TypeOK, [Next]_vars PROVE TypeOK'
  OBVIOUS
<1> USE McpSessionAssumption
<1>1. CASE Tick
  BY <1>1 DEF Tick, TypeOK, frames, pass
<1>2. ASSUME NEW c \in Clients,
             Connect(c) \/ Prune(c) \/ Counted(c) \/ FoundNone(c) \/ FoundOldest(c) \/ Evict(c)
      PROVE  TypeOK'
  <2>1. /\ now \in 0..Horizon /\ 0 \in 0..Horizon /\ table \in SUBSET Clients /\ {} \in SUBSET Clients
        /\ victim[c] \in Clients
    BY DEF TypeOK
  <2>2. PICK state \in Creating, S \in SUBSET Clients, time \in 0..Horizon, v \in Clients :
          Moves(c, state, S, time, v)
    <3>1. {"prune", "count", "scan", "evict", "stamp"} \subseteq Creating
      BY DEF Creating
    <3>2. \E state \in Creating, S \in {table, table', {}}, time \in {now, 0}, v \in {c, victim[c]} :
            Moves(c, state, S, time, v)
      BY <1>2, <3>1, CreateMoves
    <3>3. ASSUME NEW state \in Creating, NEW S, NEW time, NEW v, Moves(c, state, S, time, v)
          PROVE  table' \in SUBSET Clients
      BY <2>1, <3>3 DEF Moves
    <3> QED
      BY <2>1, <3>2, <3>3
  <2> QED
    BY <2>2, TypeMoves
<1>3. ASSUME NEW c \in Clients, Count(c) \/ Scan(c)
      PROVE  TypeOK'
  <2>1. PICK d \in table : passed' = [passed EXCEPT ![c] = @ \cup {d}]
    BY <1>3 DEF Count, Scan, ComesTo
  <2>2. d \in Clients /\ now - born[d] \in Int
    BY <2>1 DEF TypeOK
  <2>3. passed' \in [Clients -> SUBSET Clients]
    BY <2>1, <2>2 DEF TypeOK
  <2>4. victim' \in [Clients -> Clients] /\ age' \in [Clients -> Int]
    <3>1. \/ UNCHANGED <<victim, age>>
          \/ \E e \in table : /\ victim' = [victim EXCEPT ![c] = e]
                              /\ age' = [age EXCEPT ![c] = now - born[e]]
      BY <1>3 DEF Count, Scan
    <3>2. table \subseteq Clients /\ now \in Int /\ \A e \in Clients : born[e] \in Int
      <4>1. now \in 0..Horizon /\ born \in [Clients -> 0..Horizon] /\ table \subseteq Clients
        BY DEF TypeOK
      <4>2. \A x \in 0..Horizon : x \in Int
        OBVIOUS
      <4> QED
        BY <4>1, <4>2
    <3>3. victim \in [Clients -> Clients] /\ age \in [Clients -> Int]
      BY DEF TypeOK
    <3>4. CASE UNCHANGED <<victim, age>>
      BY <3>3, <3>4
    <3>5. ASSUME NEW e \in table, victim' = [victim EXCEPT ![c] = e], age' = [age EXCEPT ![c] = now - born[e]]
          PROVE  victim' \in [Clients -> Clients] /\ age' \in [Clients -> Int]
      <4>1. e \in Clients /\ now - born[e] \in Int
        BY <3>2
      <4> QED
        BY ONLY <3>3, <3>5, <4>1
    <3> QED
      BY <3>1, <3>4, <3>5
  <2>5. UNCHANGED <<now, table, born, pc, since, began, frames, post>>
    BY <1>3 DEF Count, Scan
  <2> QED
    BY <2>3, <2>4, <2>5 DEF TypeOK, frames
<1>4. ASSUME NEW c \in Clients, Stamp(c) \/ Insert(c)
      PROVE  TypeOK'
  <2>1. pc' \in [Clients -> Streams]
    BY <1>4 DEF Stamp, Insert, TypeOK, Goto, Streams, Creating
  <2>2. table' \subseteq Clients /\ born' \in [Clients -> 0..Horizon]
    <3>1. table' \in {table, table \cup {c}} /\ (born' = born \/ born' = [born EXCEPT ![c] = now])
      BY <1>4 DEF Stamp, Insert
    <3>2. table \subseteq Clients /\ born \in [Clients -> 0..Horizon] /\ now \in 0..Horizon
      BY DEF TypeOK
    <3> QED
      BY <3>1, <3>2
  <2>3. UNCHANGED <<now, pass, frames, post>>
    BY <1>4 DEF Stamp, Insert
  <2> QED
    BY <2>1, <2>2, <2>3 DEF TypeOK, frames, pass
<1>5. ASSUME NEW c \in Clients, WriteInitial(c) \/ Subscribe(c) \/ StreamCloses(c) \/ Disconnect(c)
      PROVE  TypeOK'
  BY <1>5 DEF WriteInitial, Subscribe, StreamCloses, Disconnect, TypeOK, frames, pass, Goto, Streams
<1>6. ASSUME NEW c \in Clients, Terminate(c)
      PROVE  TypeOK'
  BY <1>6 DEF Terminate, TypeOK, frames, pass
<1>7. ASSUME NEW c \in Clients, WriteFrame(c)
      PROVE  TypeOK'
  <2>1. buffer[c] \in Seq(Posts) /\ buffer[c] # << >> /\ received[c] \in Seq(Posts) /\ Len(buffer[c]) <= Capacity
    BY <1>7 DEF WriteFrame, TypeOK
  <2>2. /\ Head(buffer[c]) \in Posts /\ Tail(buffer[c]) \in Seq(Posts)
        /\ Len(Tail(buffer[c])) <= Capacity
    BY <2>1
  <2>3. Append(received[c], Head(buffer[c])) \in Seq(Posts)
    BY <2>1, <2>2
  <2>4. /\ received' = [received EXCEPT ![c] = Append(received[c], Head(buffer[c]))]
        /\ buffer' = [buffer EXCEPT ![c] = Tail(buffer[c])]
        /\ UNCHANGED <<now, table, born, pc, pass, pushed, missed, dropped, post>>
    BY <1>7 DEF WriteFrame
  <2>5. received' \in [Clients -> Seq(Posts)] /\ buffer' \in [Clients -> Seq(Posts)]
    BY <2>2, <2>3, <2>4 DEF TypeOK
  <2>6. \A d \in Clients : Len(buffer'[d]) <= Capacity
    BY <2>2, <2>4 DEF TypeOK
  <2> QED
    BY <2>4, <2>5, <2>6 DEF TypeOK, pass
<1>8. ASSUME NEW p \in Posts, NEW c \in Clients, Post(p, c)
      PROVE  TypeOK'
  <2>1. /\ \E state \in {"dispatching", "refused"} : post' = [post EXCEPT ![p] = [state |-> state, client |-> c]]
        /\ table' \subseteq table
        /\ UNCHANGED <<now, born, pc, pass, frames>>
    BY <1>8 DEF Post, Carry
  <2> QED
    BY <2>1, SMTT(30) DEF TypeOK, frames, pass, Requests
<1>9. ASSUME NEW p \in Posts, Push(p)
      PROVE  TypeOK'
  <2>1. PICK c : c = post[p].client
    OBVIOUS
  <2>2. /\ post[p].state = "dispatching" /\ post[p] \in Requests \cup {Unsent}
        /\ post' = [post EXCEPT ![p] = [state |-> "accepted", client |-> c]]
        /\ UNCHANGED <<now, table, born, pc, pass, received>>
    BY <1>9, <2>1 DEF Push, Carry, TypeOK
  <2>3. c \in Clients
    BY <2>1, <2>2 DEF Requests, Unsent
  <2>4. post' \in [Posts -> Requests \cup {Unsent}]
    BY <2>2, <2>3 DEF TypeOK, Requests
  <2>5. buffer[c] \in Seq(Posts) /\ Len(buffer[c]) <= Capacity /\ Len(buffer[c]) \in Nat
    BY <2>3 DEF TypeOK
  <2>6. CASE pc[c] # "pumping"
    <3>1. missed' = [missed EXCEPT ![c] = @ \cup {p}] /\ UNCHANGED <<buffer, pushed, dropped>>
      BY <1>9, <2>1, <2>6 DEF Push
    <3>2. missed' \in [Clients -> SUBSET Posts]
      BY <3>1 DEF TypeOK
    <3> QED
      BY <2>2, <2>4, <3>1, <3>2 DEF TypeOK, pass
  <2>9. ASSUME pc[c] = "pumping"
        PROVE  /\ pushed' \in [Clients -> Seq(Posts)] /\ Broadcast(p, c) /\ UNCHANGED missed
    <3>1. /\ pushed' = [pushed EXCEPT ![c] = Append(@, p)]
          /\ Broadcast(p, c) /\ UNCHANGED missed
      BY <1>9, <2>1, <2>9 DEF Push
    <3> QED
      BY <2>3, <3>1 DEF TypeOK
  <2>7. CASE pc[c] = "pumping" /\ Len(buffer[c]) < Capacity
    <3>1. Append(buffer[c], p) \in Seq(Posts) /\ Len(Append(buffer[c], p)) <= Capacity
      BY <2>5, <2>7
    <3>2. buffer' = [buffer EXCEPT ![c] = Append(buffer[c], p)] /\ dropped' = dropped
      BY <2>7, <2>9 DEF Broadcast
    <3>3. buffer' \in [Clients -> Seq(Posts)] /\ \A d \in Clients : Len(buffer'[d]) <= Capacity
      BY <2>3, <3>1, <3>2 DEF TypeOK
    <3> QED
      BY <2>2, <2>4, <2>7, <2>9, <3>2, <3>3 DEF TypeOK, pass
  <2>8. CASE pc[c] = "pumping" /\ ~ (Len(buffer[c]) < Capacity)
    <3>1. Len(buffer[c]) = Capacity /\ buffer[c] # << >>
      BY <2>5, <2>8
    <3>2. /\ Append(Tail(buffer[c]), p) \in Seq(Posts) /\ Len(Append(Tail(buffer[c]), p)) <= Capacity
          /\ Head(buffer[c]) \in Posts
      BY <2>5, <3>1
    <3>3. /\ buffer' = [buffer EXCEPT ![c] = Append(Tail(buffer[c]), p)]
          /\ dropped' = [dropped EXCEPT ![c] = @ \cup {Head(buffer[c])}]
      BY <2>8, <2>9 DEF Broadcast
    <3>4. buffer' \in [Clients -> Seq(Posts)] /\ \A d \in Clients : Len(buffer'[d]) <= Capacity
      BY <2>3, <3>2, <3>3 DEF TypeOK
    <3>5. dropped' \in [Clients -> SUBSET Posts]
      BY <2>3, <3>2, <3>3 DEF TypeOK
    <3> QED
      BY <2>2, <2>4, <2>8, <2>9, <3>4, <3>5 DEF TypeOK, pass
  <2> QED
    BY <2>6, <2>7, <2>8
<1>10. CASE UNCHANGED vars
  BY <1>10 DEF vars, TypeOK, frames, pass
<1> QED
  BY <1>1, <1>2, <1>3, <1>4, <1>5, <1>6, <1>7, <1>8, <1>9, <1>10 DEF Next, Handler, Pump

-----------------------------------------------------------------------------
(* The table                                                                *)

(* The create() calls under way; of them, those that go over the table and  *)
(* those that will insert a session.                                        *)
Busy == {c \in Clients : pc[c] \in Creating}
Passing == {c \in Clients : pc[c] \in {"count", "scan"}}
Inserting == {c \in Clients : pc[c] \in {"stamp", "insert"}}

(* The sessions that a pass of c cannot miss, and those that no pass of the *)
(* calls S needs to come to.                                                *)
Old(c) == table \cap since[c]
New(S) == {d \in table : \A c \in S : d \notin since[c]}

(* What is in the table and what will be is at most the ceiling and one for *)
(* each call that overlaps another; or else what the calls S have not seen, *)
(* which leaves one place to each of them, is what other calls inserted.    *)
RoomFor(S) ==
  \/ Cardinality(table) + Cardinality(Inserting) <= (MaxSessions - 1) + (Parallel - Cardinality(S))
  \/ Cardinality(New(S)) + Cardinality(Inserting) <= Parallel - Cardinality(S)

Room == Cardinality(Busy) <= Parallel /\ \A S \in SUBSET Passing : RoomFor(S)

(* Of two passes, the later one can miss less of what is in the table.      *)
Nested == \A c, d \in Passing : Old(c) \subseteq Old(d) \/ Old(d) \subseteq Old(c)

(* A session is in the table, or was seen there, only after its client's    *)
(* create() returned; nothing happened later than now.                      *)
Known == {"created", "greeted", "pumping", "closed"}
Aged ==
  /\ \A c \in table : pc[c] \in Known
  /\ \A c \in Clients : \A d \in since[c] \cup passed[c] : pc[d] \in Known
  /\ \A c \in Clients : born[c] <= now /\ began[c] <= now

(* The age that a scan remembers bounds what the others were when it began, *)
(* and is not more than its session has now.                                *)
ScanOf(c) ==
  /\ \A d \in passed[c] : began[c] - born[d] <= age[c]
  /\ passed[c] = {} => age[c] = 0
  /\ passed[c] # {} => victim[c] \in passed[c] /\ age[c] <= now - born[victim[c]]
Scanned == \A c \in Clients : pc[c] = "scan" => ScanOf(c)

TableInv == TypeOK /\ Room /\ Nested /\ Aged /\ Scanned

LEMMA SomeClients ==
  ASSUME NEW S, S \subseteq Clients
  PROVE  IsFiniteSet(S) /\ Cardinality(S) \in Nat
BY FS_Subset, FS_CardinalityType, McpSessionAssumption

LEMMA Fewer ==
  ASSUME NEW S, NEW T, S \subseteq T, T \subseteq Clients
  PROVE  Cardinality(S) <= Cardinality(T)
BY SomeClients, FS_Subset

LEMMA AtMostOneMore ==
  ASSUME NEW S, S \subseteq Clients, NEW c \in Clients
  PROVE  Cardinality(S \cup {c}) <= Cardinality(S) + 1
<1>1. CASE c \in S
  <2>1. S \cup {c} = S
    BY <1>1
  <2> QED
    BY <2>1, SomeClients
<1>2. CASE c \notin S
  <2>1. Cardinality(S \cup {c}) = Cardinality(S) + 1
    BY <1>2, SomeClients, FS_AddElement
  <2> QED
    BY <2>1, SomeClients
<1> QED
  BY <1>1, <1>2

LEMMA OneMore ==
  ASSUME NEW S, S \subseteq Clients, NEW c \in Clients \ S
  PROVE  Cardinality(S \cup {c}) = Cardinality(S) + 1
BY SomeClients, FS_AddElement

LEMMA OneLess ==
  ASSUME NEW S, S \subseteq Clients, NEW c \in S
  PROVE  Cardinality(S \ {c}) = Cardinality(S) - 1
BY SomeClients, FS_RemoveElement

(* The sizes of two parts of a set that have nothing in common.             *)
LEMMA Parts ==
  ASSUME NEW S, NEW T, NEW U, S \subseteq U, T \subseteq U, U \subseteq Clients, S \cap T = {}
  PROVE  Cardinality(S) + Cardinality(T) <= Cardinality(U)
<1>1. /\ IsFiniteSet(S) /\ IsFiniteSet(T) /\ S \cup T \subseteq U /\ S \cup T \subseteq Clients
      /\ S \subseteq Clients /\ T \subseteq Clients
  <2>1. S \subseteq Clients /\ T \subseteq Clients
    OBVIOUS
  <2> QED
    BY <2>1, SomeClients
<1>2. Cardinality(S \cup T) = Cardinality(S) + Cardinality(T) - Cardinality(S \cap T)
  BY <1>1, FS_Union
<1>3. Cardinality(S \cap T) = 0
  BY FS_EmptySet
<1>4. Cardinality(S \cup T) <= Cardinality(U)
  BY <1>1, Fewer
<1>5. Cardinality(S) \in Nat /\ Cardinality(T) \in Nat
  BY <1>1, SomeClients
<1> QED
  BY <1>2, <1>3, <1>4, <1>5

(* The sets whose sizes matter.                                             *)
LEMMA Sizes ==
  ASSUME TypeOK, NEW S \in SUBSET Clients
  PROVE  /\ table \subseteq Clients /\ Inserting \subseteq Clients /\ New(S) \subseteq table
         /\ Cardinality(table) \in Nat /\ Cardinality(Inserting) \in Nat
         /\ Cardinality(New(S)) \in Nat /\ Cardinality(S) \in Nat
         /\ MaxSessions \in Nat \ {0} /\ Parallel \in Nat \ {0}
<1>1. table \subseteq Clients /\ Inserting \subseteq Clients /\ New(S) \subseteq table
  BY DEF TypeOK, Inserting, New
<1>2. New(S) \subseteq Clients
  BY <1>1
<1> QED
  BY <1>1, <1>2, SomeClients, McpSessionAssumption

LEMMA TableInit == Init => TableInv
<1> SUFFICES ASSUME Init PROVE TableInv
  OBVIOUS
<1>1. Busy = {} /\ Passing = {} /\ Inserting = {} /\ table = {}
  BY DEF Init, Busy, Passing, Inserting, Creating
<1>2. Cardinality(Busy) = 0 /\ Cardinality(Inserting) = 0 /\ Cardinality(table) = 0
  BY <1>1, FS_EmptySet
<1>3. Room
  <2>1. \A S \in SUBSET Passing : Cardinality(S) = 0
    BY <1>1, FS_EmptySet
  <2>2. MaxSessions - 1 >= 0 /\ Parallel >= 0 /\ MaxSessions \in Int /\ Parallel \in Int
    BY McpSessionAssumption
  <2> QED
    BY <1>2, <2>1, <2>2 DEF Room, RoomFor
<1>4. Nested
  BY <1>1 DEF Nested
<1>5. Aged
  BY <1>1 DEF Init, Aged
<1>6. Scanned
  BY DEF Init, Scanned
<1> QED
  BY <1>3, <1>4, <1>5, <1>6, TypeInit DEF TableInv

(* No session comes into the table, no call is let through, and a pass that *)
(* begins has the table of that moment before it.                           *)
Steady ==
  /\ table' \subseteq table /\ Inserting' \subseteq Inserting
  /\ Cardinality(Busy') <= Parallel
  /\ \A c \in Passing' : (c \in Passing /\ since'[c] = since[c]) \/ since'[c] = table'

LEMMA RoomStays ==
  ASSUME TypeOK, TypeOK', Room, Nested, Steady
  PROVE  Room' /\ Nested'
<1>1. /\ Passing \subseteq Clients /\ Passing' \subseteq Clients /\ Busy' \subseteq Clients
      /\ Passing' \subseteq Busy' /\ Inserting' \subseteq Busy' /\ Passing' \cap Inserting' = {}
  BY DEF Passing, Busy, Inserting, Creating
<1>2. ASSUME NEW S \in SUBSET Passing'
      PROVE  RoomFor(S)'
  <2>1. S \in SUBSET Clients
    BY <1>1
  <2>2. /\ Cardinality(table) \in Nat /\ Cardinality(Inserting) \in Nat /\ Cardinality(New(S)) \in Nat
        /\ table \subseteq Clients /\ Inserting \subseteq Clients /\ New(S) \subseteq table
        /\ Cardinality(S) \in Nat /\ MaxSessions \in Nat \ {0} /\ Parallel \in Nat \ {0}
    BY <2>1, Sizes
  <2>3. /\ Cardinality(table') \in Nat /\ Cardinality(Inserting') \in Nat /\ Cardinality(New(S)') \in Nat
        /\ table' \subseteq Clients /\ Inserting' \subseteq Clients /\ New(S)' \subseteq table'
    <3>1. table' \subseteq Clients /\ Inserting' \subseteq Clients /\ New(S)' \subseteq table'
      BY DEF TypeOK, Inserting, New
    <3>2. New(S)' \subseteq Clients
      BY <3>1
    <3> QED
      BY <3>1, <3>2, SomeClients
  <2>4. /\ Cardinality(table') <= Cardinality(table)
        /\ Cardinality(Inserting') <= Cardinality(Inserting)
    BY <2>2, Fewer DEF Steady
  <2>5. CASE \A c \in S : c \in Passing /\ since'[c] = since[c]
    <3>1. S \in SUBSET Passing /\ New(S)' \subseteq New(S) /\ New(S) \subseteq Clients
      BY <2>2, <2>5 DEF New, Steady
    <3>2. Cardinality(New(S)') <= Cardinality(New(S))
      BY <3>1, Fewer
    <3>3. RoomFor(S)
      BY <3>1 DEF Room
    <3>4. PICK i, j, k, l, m, n, s \in Nat :
            /\ i = Cardinality(table) /\ j = Cardinality(table') /\ k = Cardinality(Inserting)
            /\ l = Cardinality(Inserting') /\ m = Cardinality(New(S)) /\ n = Cardinality(New(S)')
            /\ s = Cardinality(S)
      BY <2>2, <2>3
    <3>5. \/ i + k <= (MaxSessions - 1) + (Parallel - s)
          \/ m + k <= Parallel - s
      BY <3>3, <3>4 DEF RoomFor
    <3>6. \/ j + l <= (MaxSessions - 1) + (Parallel - s)
          \/ n + l <= Parallel - s
      <4>1. j <= i /\ l <= k /\ n <= m
        BY <2>4, <3>2, <3>4
      <4> QED
        BY ONLY <2>2, <3>5, <4>1, i \in Nat, j \in Nat, k \in Nat, l \in Nat, m \in Nat, n \in Nat, s \in Nat
    <3> QED
      BY <3>4, <3>6 DEF RoomFor
  <2>6. CASE \E c \in S : since'[c] = table'
    <3>1. New(S)' = {}
      BY <2>6 DEF New
    <3>2. Cardinality(New(S)') = 0
      BY <3>1, FS_EmptySet
    <3>3. S \subseteq Busy' /\ S \cap Inserting' = {}
      BY <1>1
    <3>4. Cardinality(S) + Cardinality(Inserting') <= Cardinality(Busy')
      BY <1>1, <3>3, Parts
    <3>5. Cardinality(Busy') <= Parallel /\ Cardinality(Busy') \in Nat
      BY <1>1, SomeClients DEF Steady
    <3>6. Cardinality(New(S)') + Cardinality(Inserting') <= Parallel - Cardinality(S)
      BY <2>2, <2>3, <3>2, <3>4, <3>5
    <3> QED
      BY <3>6 DEF RoomFor
  <2> QED
    BY <2>5, <2>6 DEF Steady
<1>3. Room'
  BY <1>2 DEF Room, Steady
<1>4. Nested'
  <2> SUFFICES ASSUME NEW c \in Passing', NEW d \in Passing'
               PROVE  Old(c)' \subseteq Old(d)' \/ Old(d)' \subseteq Old(c)'
    BY DEF Nested
  <2>1. CASE since'[c] = table' \/ since'[d] = table'
    BY <2>1 DEF Old
  <2>2. CASE /\ c \in Passing /\ since'[c] = since[c]
             /\ d \in Passing /\ since'[d] = since[d]
    <3>1. Old(c) \subseteq Old(d) \/ Old(d) \subseteq Old(c)
      BY <2>2 DEF Nested
    <3>2. Old(c)' = Old(c) \cap table' /\ Old(d)' = Old(d) \cap table'
      BY <2>2 DEF Old, Steady
    <3> QED
      BY <3>1, <3>2
  <2> QED
    BY <2>1, <2>2 DEF Steady
<1> QED
  BY <1>3, <1>4

(* A call that found fewer sessions than the ceiling, or none, is let       *)
(* through: a session that its pass missed came after those of some other   *)
(* call that passes, or all that came after it are still new to each.       *)
LEMMA RoomPermits ==
  ASSUME TypeOK, TypeOK', Room, Nested, NEW c \in Passing, Cardinality(Old(c)) < MaxSessions,
         table' = table, Busy' \subseteq Busy, Inserting' = Inserting \cup {c}, Passing' = Passing \ {c},
         \A d \in Passing' : since'[d] = since[d]
  PROVE  Room' /\ Nested'
<1>1. /\ Passing \subseteq Clients /\ Busy \subseteq Clients /\ c \notin Inserting /\ c \in Clients
      /\ Inserting \subseteq Clients
  BY DEF Passing, Busy, Inserting, Creating
<1>2. Cardinality(Inserting') = Cardinality(Inserting) + 1
  BY <1>1, OneMore
<1>3. ASSUME NEW S \in SUBSET Passing'
      PROVE  RoomFor(S)'
  <2>1. /\ S \in SUBSET Clients /\ c \notin S /\ S \cup {c} \in SUBSET Passing
        /\ S \cup {c} \in SUBSET Clients
    BY <1>1
  <2>2. /\ Cardinality(S \cup {c}) = Cardinality(S) + 1
        /\ Cardinality(table) \in Nat /\ Cardinality(Inserting) \in Nat
        /\ Cardinality(New(S)) \in Nat /\ Cardinality(New(S \cup {c})) \in Nat /\ Cardinality(S) \in Nat
        /\ MaxSessions \in Nat \ {0} /\ Parallel \in Nat \ {0} /\ table \subseteq Clients
    BY <1>1, <2>1, OneMore, Sizes
  <2>3. New(S)' = New(S)
    BY DEF New
  <2>4. RoomFor(S \cup {c})
    BY <2>1 DEF Room
  <2>5. CASE \E d \in S : Old(c) \subseteq Old(d)
    <3>1. New(S \cup {c}) = New(S)
      BY <2>5 DEF New, Old
    <3> QED
      BY <1>2, <2>2, <2>3, <2>4, <3>1 DEF RoomFor
  <2>6. CASE \A d \in S : Old(d) \subseteq Old(c)
    <3>1. New(S \cup {c}) \cup Old(c) = table /\ New(S \cup {c}) \cap Old(c) = {}
      BY <2>6 DEF New, Old
    <3>2. Cardinality(table) <= Cardinality(New(S \cup {c})) + Cardinality(Old(c))
      <4>1. New(S \cup {c}) \subseteq Clients /\ Old(c) \subseteq Clients
        BY <2>2, <3>1
      <4>2. IsFiniteSet(New(S \cup {c})) /\ IsFiniteSet(Old(c))
        BY <4>1, SomeClients
      <4>3. Cardinality(New(S \cup {c}) \cup Old(c)) =
              Cardinality(New(S \cup {c})) + Cardinality(Old(c)) - Cardinality(New(S \cup {c}) \cap Old(c))
        BY <4>2, FS_Union
      <4>4. Cardinality(New(S \cup {c}) \cap Old(c)) = 0
        BY <3>1, FS_EmptySet
      <4>5. Cardinality(Old(c)) \in Nat
        BY <4>1, SomeClients
      <4>6. Cardinality(New(S \cup {c}) \cup Old(c)) = Cardinality(table)
        BY <3>1
      <4> QED
        BY <2>2, <4>3, <4>4, <4>5, <4>6
    <3>3. Cardinality(Old(c)) \in Nat
      <4>1. Old(c) \subseteq Clients
        BY <2>2 DEF Old
      <4> QED
        BY <4>1, SomeClients
    <3>4. Cardinality(table) + Cardinality(Inserting') <= (MaxSessions - 1) + (Parallel - Cardinality(S))
      BY <1>2, <2>2, <2>4, <3>2, <3>3 DEF RoomFor
    <3> QED
      BY <3>4 DEF RoomFor
  <2>7. \A d \in S : Old(c) \subseteq Old(d) \/ Old(d) \subseteq Old(c)
    BY <2>1 DEF Nested
  <2> QED
    BY <2>5, <2>6, <2>7
<1>4. Cardinality(Busy') <= Parallel
  <2>1. Cardinality(Busy') <= Cardinality(Busy) /\ Cardinality(Busy') \in Nat /\ Cardinality(Busy) \in Nat
    <3>1. Busy' \subseteq Clients
      BY <1>1
    <3> QED
      BY <1>1, <3>1, Fewer, SomeClients
  <2> QED
    BY <2>1, McpSessionAssumption DEF Room
<1>5. Nested'
  BY DEF Nested, Old
<1> QED
  BY <1>3, <1>4, <1>5 DEF Room

(* The session takes the place that its create() call has held.             *)
LEMMA RoomTaken ==
  ASSUME TypeOK, TypeOK', Room, Nested, NEW c \in Inserting, \A d \in Passing : c \notin since[d],
         table' = table \cup {c}, Busy' \subseteq Busy, Inserting' = Inserting \ {c}, Passing' = Passing,
         since' = since
  PROVE  Room' /\ Nested'
<1>1. /\ Passing \subseteq Clients /\ Busy \subseteq Clients /\ c \in Clients
      /\ Inserting \subseteq Clients /\ table \subseteq Clients
  BY DEF Passing, Busy, Inserting, TypeOK
<1>2. /\ Cardinality(Inserting') = Cardinality(Inserting) - 1
      /\ Cardinality(table') <= Cardinality(table) + 1
  BY <1>1, OneLess, AtMostOneMore
<1>3. ASSUME NEW S \in SUBSET Passing'
      PROVE  RoomFor(S)'
  <2>1. S \in SUBSET Clients
    BY <1>1
  <2>2. /\ Cardinality(table) \in Nat /\ Cardinality(Inserting) \in Nat /\ Cardinality(New(S)) \in Nat
        /\ Cardinality(S) \in Nat /\ MaxSessions \in Nat \ {0} /\ Parallel \in Nat \ {0}
        /\ New(S) \subseteq Clients
    BY <1>1, <2>1, Sizes
  <2>3. New(S)' \subseteq New(S) \cup {c} /\ New(S) \cup {c} \subseteq Clients
    BY <1>1, <2>2 DEF New
  <2>4. Cardinality(New(S)') <= Cardinality(New(S)) + 1
    <3>1. Cardinality(New(S)') <= Cardinality(New(S) \cup {c})
      BY <2>3, Fewer
    <3>2. Cardinality(New(S) \cup {c}) <= Cardinality(New(S)) + 1
      BY <1>1, <2>2, AtMostOneMore
    <3>3. New(S)' \subseteq Clients
      BY <2>3
    <3>4. Cardinality(New(S)') \in Nat /\ Cardinality(New(S) \cup {c}) \in Nat
      BY <2>3, <3>3, SomeClients
    <3> QED
      BY <2>2, <3>1, <3>2, <3>4
  <2>5. Cardinality(New(S)') \in Nat /\ Cardinality(table') \in Nat
    <3>1. New(S)' \subseteq Clients /\ table' \subseteq Clients
      BY <1>1, <2>3
    <3> QED
      BY <3>1, SomeClients
  <2>6. RoomFor(S)
    BY DEF Room
  <2> QED
    BY <1>2, <2>2, <2>4, <2>5, <2>6 DEF RoomFor
<1>4. Cardinality(Busy') <= Parallel
  <2>1. Cardinality(Busy') <= Cardinality(Busy) /\ Cardinality(Busy') \in Nat /\ Cardinality(Busy) \in Nat
    <3>1. Busy' \subseteq Clients
      BY <1>1
    <3> QED
      BY <1>1, <3>1, Fewer, SomeClients
  <2> QED
    BY <2>1, McpSessionAssumption DEF Room
<1>5. Nested'
  BY DEF Nested, Old
<1> QED
  BY <1>3, <1>4, <1>5 DEF Room

(* Clients go on and none goes back, the clock too; a birth changes only    *)
(* before the session is known, and a pass sees what is in the table.       *)
Onward ==
  /\ now' \in Int /\ now' >= now
  /\ \A c \in Clients : pc[c] \in Known => pc'[c] \in Known /\ born'[c] = born[c]
  /\ \A c \in table' : c \in table \/ pc'[c] \in Known
  /\ \A c \in Clients : since'[c] \subseteq since[c] \cup table' /\ passed'[c] \subseteq passed[c] \cup table'
  /\ \A c \in Clients : born'[c] \in {born[c], now} /\ began'[c] \in {began[c], now, 0}

LEMMA AgedStays ==
  ASSUME TypeOK, TypeOK', Aged, Onward
  PROVE  Aged'
<1>1. /\ table \subseteq Clients /\ table' \subseteq Clients /\ now \in Nat /\ now' \in Nat
      /\ \A c \in Clients : /\ born[c] \in Nat /\ born'[c] \in Nat /\ began[c] \in Nat /\ began'[c] \in Nat
                            /\ since[c] \subseteq Clients /\ passed[c] \subseteq Clients
  BY McpSessionAssumption DEF TypeOK
<1>2. \A c \in table' : pc'[c] \in Known
  BY <1>1 DEF Aged, Onward
<1>3. \A c \in Clients : \A d \in since'[c] \cup passed'[c] : pc'[d] \in Known
  <2> SUFFICES ASSUME NEW c \in Clients, NEW d \in since'[c] \cup passed'[c] PROVE pc'[d] \in Known
    OBVIOUS
  <2>1. d \in table' \/ d \in since[c] \cup passed[c]
    BY DEF Onward
  <2>2. d \in since[c] \cup passed[c] => d \in Clients /\ pc[d] \in Known
    BY <1>1 DEF Aged
  <2> QED
    BY <1>2, <2>1, <2>2 DEF Onward
<1>4. \A c \in Clients : born'[c] <= now' /\ began'[c] <= now'
  BY <1>1 DEF Aged, Onward
<1> QED
  BY <1>2, <1>3, <1>4 DEF Aged

(* What was scanned stays so while the clock goes on.                       *)
LEMMA ScanStays ==
  ASSUME TypeOK, Aged, Onward, NEW c \in Clients, ScanOf(c),
         passed'[c] = passed[c], began'[c] = began[c], age'[c] = age[c], victim'[c] = victim[c]
  PROVE  ScanOf(c)'
<1>1. \A d \in passed[c] : d \in Clients /\ born'[d] = born[d]
  BY DEF TypeOK, Aged, Onward
<1>2. now \in Int /\ now' \in Int /\ now' >= now /\ age[c] \in Int /\ \A d \in Clients : born[d] \in Int
  BY McpSessionAssumption DEF TypeOK, Onward
<1> QED
  BY <1>1, <1>2 DEF ScanOf

LEMMA ScannedStays ==
  ASSUME TypeOK, Aged, Scanned, Onward,
         \A c \in Clients : pc'[c] = "scan" =>
           \/ passed'[c] = {} /\ age'[c] = 0
           \/ /\ pc[c] = "scan" /\ passed'[c] = passed[c] /\ began'[c] = began[c]
              /\ age'[c] = age[c] /\ victim'[c] = victim[c]
  PROVE  Scanned'
<1> SUFFICES ASSUME NEW c \in Clients, pc'[c] = "scan" PROVE ScanOf(c)'
  BY DEF Scanned
<1>1. CASE passed'[c] = {} /\ age'[c] = 0
  BY <1>1 DEF ScanOf
<1>2. CASE /\ pc[c] = "scan" /\ passed'[c] = passed[c] /\ began'[c] = began[c]
           /\ age'[c] = age[c] /\ victim'[c] = victim[c]
  BY <1>2, ScanStays DEF Scanned
<1> QED
  BY <1>1, <1>2

(* A step of create() that moves c and changes its pass.                    *)
LEMMA PassMoves ==
  ASSUME TypeOK, NEW c \in Clients, NEW state \in Creating, NEW S, NEW time, NEW v, Moves(c, state, S, time, v)
  PROVE  /\ pc'[c] = state /\ since'[c] = S /\ began'[c] = time /\ passed'[c] = {} /\ victim'[c] = v /\ age'[c] = 0
         /\ \A d \in Clients \ {c} :
              /\ pc'[d] = pc[d] /\ since'[d] = since[d] /\ began'[d] = began[d] /\ passed'[d] = passed[d]
              /\ victim'[d] = victim[d] /\ age'[d] = age[d]
         /\ now' = now /\ born' = born /\ table' \subseteq table
BY DEF Moves, SetPass, Goto, TypeOK

(* What such a step keeps besides the room in the table.                    *)
LEMMA PassOnward ==
  ASSUME TableInv, TypeOK', NEW c \in Clients, NEW state \in Creating, NEW S \in {table', {}},
         NEW time \in {now, 0}, NEW v \in Clients, Moves(c, state, S, time, v), pc[c] \notin Known
  PROVE  Aged' /\ Scanned'
<1>1. /\ pc'[c] = state /\ since'[c] = S /\ began'[c] = time /\ passed'[c] = {} /\ victim'[c] = v /\ age'[c] = 0
      /\ \A d \in Clients \ {c} :
           /\ pc'[d] = pc[d] /\ since'[d] = since[d] /\ began'[d] = began[d] /\ passed'[d] = passed[d]
           /\ victim'[d] = victim[d] /\ age'[d] = age[d]
      /\ now' = now /\ born' = born /\ table' \subseteq table
  BY PassMoves DEF TableInv
<1>2. Onward
  <2>1. now' \in Int /\ now' >= now
    BY <1>1, McpSessionAssumption DEF TableInv, TypeOK
  <2>2. \A d \in Clients : pc[d] \in Known => pc'[d] \in Known /\ born'[d] = born[d]
    BY <1>1
  <2>3. \A d \in Clients : since'[d] \subseteq since[d] \cup table' /\ passed'[d] \subseteq passed[d] \cup table'
    BY <1>1
  <2>4. \A d \in Clients : born'[d] \in {born[d], now} /\ began'[d] \in {began[d], now, 0}
    BY <1>1
  <2> QED
    BY <1>1, <2>1, <2>2, <2>3, <2>4 DEF Onward
<1>3. Aged'
  BY <1>2, AgedStays DEF TableInv
<1>4. Scanned'
  <2>1. \A d \in Clients : pc'[d] = "scan" =>
          \/ passed'[d] = {} /\ age'[d] = 0
          \/ /\ pc[d] = "scan" /\ passed'[d] = passed[d] /\ began'[d] = began[d]
             /\ age'[d] = age[d] /\ victim'[d] = victim[d]
    BY <1>1
  <2> QED
    BY <1>2, <2>1, ScannedStays DEF TableInv
<1> QED
  BY <1>3, <1>4

(* A pass begins, or is over without c being let through.                   *)
LEMMA TablePass ==
  ASSUME TableInv, TypeOK', NEW c \in Clients, NEW state \in {"prune", "count", "scan", "evict"},
         NEW S \in {table', {}}, NEW time \in {now, 0}, NEW v \in Clients, Moves(c, state, S, time, v),
         state \in {"count", "scan"} => S = table',
         pc[c] \in {"idle", "prune", "count", "scan", "evict"},
         pc[c] = "idle" => Cardinality(Busy) < Parallel
  PROVE  TableInv'
<1>1. TypeOK /\ state \in Creating /\ pc[c] \notin Known
  BY DEF TableInv, Creating, Known
<1>2. /\ pc'[c] = state /\ since'[c] = S /\ table' \subseteq table
      /\ \A d \in Clients \ {c} : pc'[d] = pc[d] /\ since'[d] = since[d]
  BY <1>1, PassMoves
<1>3. Aged' /\ Scanned'
  BY <1>1, PassOnward
<1>4. Steady
  <2>1. Inserting' \subseteq Inserting
    BY <1>2 DEF Inserting
  <2>2. \A d \in Passing' : (d \in Passing /\ since'[d] = since[d]) \/ since'[d] = table'
    BY <1>2 DEF Passing
  <2>3. Cardinality(Busy') <= Parallel
    <3>1. Busy \subseteq Clients /\ Busy' \subseteq Busy \cup {c} /\ Busy \cup {c} \subseteq Clients /\ Busy' \subseteq Clients
      BY <1>2 DEF Busy
    <3>2. /\ Cardinality(Busy) \in Nat /\ Cardinality(Busy') \in Nat /\ Cardinality(Busy \cup {c}) \in Nat
          /\ Parallel \in Nat /\ Cardinality(Busy) <= Parallel
      BY <3>1, SomeClients, McpSessionAssumption DEF TableInv, Room
    <3>3. CASE pc[c] = "idle"
      <4>1. Cardinality(Busy') <= Cardinality(Busy \cup {c})
        BY <3>1, Fewer
      <4>2. Cardinality(Busy \cup {c}) <= Cardinality(Busy) + 1
        BY <3>1, AtMostOneMore
      <4> QED
        BY <3>2, <3>3, <4>1, <4>2
    <3>4. CASE pc[c] # "idle"
      <4>1. Busy' = Busy
        BY <1>1, <1>2, <3>4 DEF Busy, Creating
      <4> QED
        BY <3>2, <4>1
    <3> QED
      BY <3>3, <3>4
  <2> QED
    BY <1>2, <2>1, <2>2, <2>3 DEF Steady
<1>5. Room' /\ Nested'
  BY <1>4, RoomStays DEF TableInv
<1> QED
  BY <1>3, <1>5 DEF TableInv

(* c is let through: its pass has come to fewer sessions than the ceiling.  *)
LEMMA TableStamps ==
  ASSUME TableInv, TypeOK', NEW c \in Clients, pc[c] \in {"count", "scan"}, Moves(c, "stamp", {}, 0, c),
         table' = table, Complete(c), Cardinality(passed[c]) < MaxSessions
  PROVE  TableInv'
<1>1. TypeOK /\ "stamp" \in Creating /\ pc[c] \notin Known /\ c \in Passing
  BY DEF TableInv, Creating, Known, Passing
<1>2. pc'[c] = "stamp" /\ \A d \in Clients \ {c} : pc'[d] = pc[d] /\ since'[d] = since[d]
  BY <1>1, PassMoves
<1>3. Aged' /\ Scanned'
  BY <1>1, PassOnward
<1>4. Cardinality(Old(c)) < MaxSessions
  <2>1. Old(c) \subseteq passed[c] /\ passed[c] \subseteq Clients /\ Old(c) \subseteq Clients
    BY <1>1 DEF Complete, Old, TypeOK
  <2>2. /\ Cardinality(Old(c)) <= Cardinality(passed[c]) /\ Cardinality(Old(c)) \in Nat
        /\ Cardinality(passed[c]) \in Nat /\ MaxSessions \in Nat
    BY <2>1, Fewer, SomeClients, McpSessionAssumption
  <2> QED
    BY <2>2
<1>5. Inserting' = Inserting \cup {c}
  BY <1>2 DEF Inserting
<1>6. Passing' = Passing \ {c}
  BY <1>2 DEF Passing
<1>7. Busy' = Busy
  BY <1>1, <1>2 DEF Busy, Passing, Creating
<1>8. \A d \in Passing' : since'[d] = since[d]
  BY <1>2, <1>6 DEF Passing
<1>9. Room' /\ Nested'
  BY <1>1, <1>4, <1>5, <1>6, <1>7, <1>8, RoomPermits DEF TableInv
<1> QED
  BY <1>3, <1>9 DEF TableInv

(* A pass comes to a session.                                               *)
LEMMA TableCount ==
  ASSUME TableInv, TypeOK', NEW c \in Clients, Count(c) \/ Scan(c)
  PROVE  TableInv'
<1>1. /\ pc[c] \in {"count", "scan"} /\ UNCHANGED <<now, table, born, pc, since, began>>
      /\ \E d \in table : passed' = [passed EXCEPT ![c] = @ \cup {d}]
  BY DEF Count, Scan, ComesTo
<1>2. TypeOK
  BY DEF TableInv
<1>3. \A d \in Clients \ {c} : passed'[d] = passed[d] /\ victim'[d] = victim[d] /\ age'[d] = age[d]
  <2>1. \A d \in Clients \ {c} : passed'[d] = passed[d]
    BY <1>1, <1>2 DEF TypeOK
  <2>2. \/ UNCHANGED <<victim, age>>
        \/ \E e \in table : victim' = [victim EXCEPT ![c] = e] /\ age' = [age EXCEPT ![c] = now - born[e]]
    BY DEF Count, Scan
  <2>3. \A d \in Clients \ {c} : victim'[d] = victim[d] /\ age'[d] = age[d]
    BY <1>2, <2>2 DEF TypeOK
  <2> QED
    BY <2>1, <2>3
<1>4. passed'[c] \subseteq passed[c] \cup table
  BY <1>1, <1>2 DEF TypeOK
<1>5. Steady
  BY <1>1 DEF TableInv, Room, Steady, Busy, Inserting, Passing
<1>6. Room' /\ Nested'
  BY <1>5, RoomStays DEF TableInv
<1>7. Onward
  <2>1. now' \in Int /\ now' >= now
    BY <1>1, <1>2, McpSessionAssumption DEF TypeOK
  <2>2. \A d \in Clients : passed'[d] \subseteq passed[d] \cup table'
    BY <1>1, <1>3, <1>4
  <2> QED
    BY <1>1, <2>1, <2>2 DEF Onward
<1>8. Aged'
  BY <1>2, <1>7, AgedStays DEF TableInv
<1>9. ScanOf(c)' \/ pc[c] # "scan"
  <2> SUFFICES ASSUME pc[c] = "scan" PROVE ScanOf(c)'
    OBVIOUS
  <2>1. PICK d \in table :
          /\ passed' = [passed EXCEPT ![c] = @ \cup {d}]
          /\ IF now - born[d] >= age[c]
             THEN victim' = [victim EXCEPT ![c] = d] /\ age' = [age EXCEPT ![c] = now - born[d]]
             ELSE UNCHANGED <<victim, age>>
    BY DEF Count, Scan, ComesTo
  <2>2. passed'[c] = passed[c] \cup {d} /\ d \in Clients
    BY <1>2, <2>1 DEF TypeOK
  <2>3. /\ now \in Int /\ began[c] \in Int /\ began[c] <= now /\ age[c] \in Int
        /\ \A e \in Clients : born[e] \in Int /\ born[e] <= now
        /\ passed[c] \subseteq Clients
    <3>1. /\ now \in Int /\ began[c] \in Int /\ age[c] \in Int /\ passed[c] \subseteq Clients
          /\ \A e \in Clients : born[e] \in Int
      <4>1. /\ now \in 0..Horizon /\ began \in [Clients -> 0..Horizon] /\ born \in [Clients -> 0..Horizon]
            /\ age \in [Clients -> Int] /\ passed \in [Clients -> SUBSET Clients]
        BY <1>2 DEF TypeOK
      <4>2. \A x \in 0..Horizon : x \in Int
        OBVIOUS
      <4> QED
        BY <4>1, <4>2
    <3>2. began[c] <= now /\ \A e \in Clients : born[e] <= now
      BY DEF TableInv, Aged
    <3> QED
      BY <3>1, <3>2
  <2>4. /\ \A e \in passed[c] : began[c] - born[e] <= age[c]
        /\ passed[c] = {} => age[c] = 0
        /\ passed[c] # {} => victim[c] \in passed[c] /\ age[c] <= now - born[victim[c]]
    BY DEF TableInv, Scanned, ScanOf
  <2>5. CASE now - born[d] >= age[c]
    <3>1. victim'[c] = d /\ age'[c] = now - born[d]
      BY <1>2, <2>1, <2>5 DEF TypeOK
    <3>2. \A e \in passed[c] \cup {d} : began[c] - born[e] <= now - born[d]
      BY <2>2, <2>3, <2>4, <2>5
    <3>3. passed'[c] # {} /\ d \in passed'[c]
      BY <2>2
    <3>4. now' = now /\ born' = born /\ began' = began
      BY <1>1
    <3>5. \A e \in passed'[c] : began'[c] - born'[e] <= age'[c]
      BY <2>2, <3>1, <3>2, <3>4
    <3>6. victim'[c] \in passed'[c] /\ age'[c] <= now' - born'[victim'[c]]
      BY <2>2, <2>3, <3>1, <3>3, <3>4
    <3> QED
      BY <3>3, <3>5, <3>6 DEF ScanOf
  <2>6. CASE ~ (now - born[d] >= age[c])
    <3>1. victim'[c] = victim[c] /\ age'[c] = age[c]
      BY <2>1, <2>6
    <3>2. passed[c] # {}
      BY <2>2, <2>3, <2>4, <2>6
    <3>3. \A e \in passed[c] \cup {d} : began[c] - born[e] <= age[c]
      BY <2>2, <2>3, <2>4, <2>6
    <3> QED
      BY <1>1, <2>2, <2>4, <3>1, <3>2, <3>3 DEF ScanOf
  <2> QED
    BY <2>5, <2>6
<1>10. Scanned'
  <2> SUFFICES ASSUME NEW d \in Clients, pc'[d] = "scan" PROVE ScanOf(d)'
    BY DEF Scanned
  <2>1. CASE d = c
    BY <1>1, <1>9, <2>1
  <2>2. CASE d # c
    <3>1. ScanOf(d) /\ passed'[d] = passed[d] /\ began'[d] = began[d] /\ age'[d] = age[d] /\ victim'[d] = victim[d]
      BY <1>1, <1>3, <2>2 DEF TableInv, Scanned
    <3> QED
      BY <1>2, <1>7, <3>1, ScanStays DEF TableInv
  <2> QED
    BY <2>1, <2>2
<1> QED
  BY <1>6, <1>8, <1>10 DEF TableInv

(* The clock is read for a new session ...                                  *)
LEMMA TableStamp ==
  ASSUME TableInv, TypeOK', NEW c \in Clients, Stamp(c)
  PROVE  TableInv'
<1>1. TypeOK
  BY DEF TableInv
<1>2. /\ pc[c] = "stamp" /\ pc'[c] = "insert" /\ \A d \in Clients \ {c} : pc'[d] = pc[d] /\ born'[d] = born[d]
      /\ born'[c] = now
      /\ UNCHANGED <<now, table, since, began, passed, victim, age>>
  BY <1>1 DEF Stamp, Goto, TypeOK, pass
<1>3. Busy' = Busy /\ Passing' = Passing /\ Inserting' = Inserting
  BY <1>1, <1>2 DEF Busy, Passing, Inserting, Creating
<1>4. Room' /\ Nested'
  <2>1. Steady
    BY <1>2, <1>3 DEF TableInv, Room, Steady
  <2> QED
    BY <2>1, RoomStays DEF TableInv
<1>5. Onward
  <2>1. now' \in Int /\ now' >= now
    BY <1>1, <1>2, McpSessionAssumption DEF TypeOK
  <2>2. \A d \in Clients : pc[d] \in Known => pc'[d] \in Known /\ born'[d] = born[d]
    BY <1>2 DEF Known
  <2>3. \A d \in Clients : born'[d] \in {born[d], now}
    BY <1>2
  <2> QED
    BY <1>2, <2>1, <2>2, <2>3 DEF Onward
<1>6. Aged'
  BY <1>1, <1>5, AgedStays DEF TableInv
<1>7. \A d \in Clients : pc'[d] = "scan" => pc[d] = "scan"
  BY <1>2
<1>8. Scanned'
  BY <1>1, <1>2, <1>5, <1>7, ScannedStays DEF TableInv
<1> QED
  BY <1>4, <1>6, <1>8 DEF TableInv

(* ... and it is inserted.                                                  *)
LEMMA TableInsert ==
  ASSUME TableInv, TypeOK', NEW c \in Clients, Insert(c)
  PROVE  TableInv'
<1>1. TypeOK
  BY DEF TableInv
<1>2. /\ pc[c] = "insert" /\ pc'[c] = "created" /\ \A d \in Clients \ {c} : pc'[d] = pc[d]
      /\ table' = table \cup {c}
      /\ UNCHANGED <<now, born, since, began, passed, victim, age>>
  BY <1>1 DEF Insert, Goto, TypeOK, pass
<1>3. Busy' \subseteq Busy /\ Passing' = Passing /\ Inserting' = Inserting \ {c} /\ c \in Inserting
  BY <1>2 DEF Busy, Passing, Inserting, Creating
<1>4. \A d \in Clients : c \notin since[d] \cup passed[d]
  BY <1>2 DEF TableInv, Aged, Known
<1>5. \A d \in Passing : c \notin since[d]
  BY <1>4 DEF Passing
<1>6. Room' /\ Nested'
  BY <1>1, <1>2, <1>3, <1>5, RoomTaken DEF TableInv
<1>7. Onward
  <2>1. now' \in Int /\ now' >= now
    BY <1>1, <1>2, McpSessionAssumption DEF TypeOK
  <2>2. \A d \in Clients : pc[d] \in Known => pc'[d] \in Known /\ born'[d] = born[d]
    BY <1>2 DEF Known
  <2>3. \A d \in table' : d \in table \/ pc'[d] \in Known
    BY <1>2 DEF Known
  <2> QED
    BY <1>2, <2>1, <2>2, <2>3 DEF Onward
<1>8. Aged'
  BY <1>1, <1>7, AgedStays DEF TableInv
<1>9. \A d \in Clients : pc'[d] = "scan" => pc[d] = "scan"
  BY <1>2
<1>10. Scanned'
  BY <1>1, <1>2, <1>7, <1>9, ScannedStays DEF TableInv
<1> QED
  BY <1>6, <1>8, <1>10 DEF TableInv

(* The steps of create().                                                   *)
LEMMA TableCreate ==
  ASSUME TableInv, TypeOK', NEW c \in Clients, Connect(c) \/ Handler(c)
  PROVE  TableInv'
<1>1. TypeOK /\ victim[c] \in Clients
  BY DEF TableInv, TypeOK
<1>2. CASE Connect(c)
  <2>1. Moves(c, "prune", table', now, c) /\ pc[c] = "idle"
    BY <1>1, <1>2, CreateMoves
  <2>2. Cardinality(Busy) < Parallel
    BY <1>2 DEF Connect, Busy
  <2> QED
    BY <2>1, <2>2, TablePass
<1>3. CASE Prune(c)
  <2>1. Moves(c, "count", table', now, c) /\ pc[c] = "prune"
    BY <1>1, <1>3, CreateMoves
  <2> QED
    BY <2>1, TablePass
<1>4. CASE Count(c) \/ Scan(c)
  BY <1>4, TableCount
<1>5. CASE Counted(c)
  <2>1. /\ pc[c] = "count" /\ Complete(c) /\ table' = table
        /\ \/ Moves(c, "scan", table', now, c)
           \/ Moves(c, "stamp", {}, 0, c) /\ Cardinality(passed[c]) < MaxSessions
    BY <1>1, <1>5, CreateMoves
  <2>2. CASE Moves(c, "scan", table', now, c)
    BY <2>1, <2>2, TablePass
  <2>3. CASE Moves(c, "stamp", {}, 0, c) /\ Cardinality(passed[c]) < MaxSessions
    BY <2>1, <2>3, TableStamps
  <2> QED
    BY <2>1, <2>2, <2>3
<1>6. CASE FoundNone(c)
  <2>1. /\ pc[c] = "scan" /\ Complete(c) /\ passed[c] = {} /\ table' = table
        /\ Moves(c, "stamp", {}, 0, c)
    BY <1>1, <1>6, CreateMoves
  <2>2. Cardinality(passed[c]) < MaxSessions
    <3>1. Cardinality({}) = 0
      BY FS_EmptySet
    <3>2. MaxSessions \in Nat \ {0}
      BY McpSessionAssumption
    <3> QED
      BY <2>1, <3>1, <3>2
  <2> QED
    BY <2>1, <2>2, TableStamps
<1>7. CASE FoundOldest(c)
  <2>1. Moves(c, "evict", {}, 0, victim[c]) /\ pc[c] = "scan"
    BY <1>1, <1>7, CreateMoves
  <2> QED
    BY <1>1, <2>1, TablePass
<1>8. CASE Evict(c)
  <2>1. Moves(c, "count", table', now, c) /\ pc[c] = "evict"
    BY <1>1, <1>8, CreateMoves
  <2> QED
    BY <2>1, TablePass
<1>9. CASE Stamp(c)
  BY <1>9, TableStamp
<1>10. CASE Insert(c)
  BY <1>10, TableInsert
<1> QED
  BY <1>2, <1>3, <1>4, <1>5, <1>6, <1>7, <1>8, <1>9, <1>10 DEF Handler

(* No call of create() takes a step.                                        *)
Still ==
  /\ table' \subseteq table /\ born' = born
  /\ since' = since /\ began' = began /\ passed' = passed /\ victim' = victim /\ age' = age
  /\ now' \in Int /\ now' >= now
  /\ \A c \in Clients : pc'[c] = pc[c] \/ (pc[c] \in Known /\ pc'[c] \in Known)

LEMMA TableNext == TableInv /\ [Next]_vars => TableInv'
<1> SUFFICES ASSUME TableInv, [Next]_vars PROVE TableInv'
  OBVIOUS
<1>1. TypeOK /\ TypeOK' /\ now \in Int
  <2>1. TypeOK /\ TypeOK'
    BY TypeNext DEF TableInv
  <2>2. now \in 0..Horizon
    BY <2>1 DEF TypeOK
  <2> QED
    BY <2>1, <2>2
<1>2. ASSUME Still
      PROVE  TableInv'
  <2>1. Busy' = Busy /\ Passing' = Passing /\ Inserting' = Inserting
    BY <1>2 DEF Still, Busy, Passing, Inserting, Creating, Known
  <2>2. Steady
    BY <1>2, <2>1 DEF TableInv, Room, Steady, Still
  <2>3. Onward
    BY <1>2 DEF Onward, Still
  <2>4. Room' /\ Nested'
    BY <1>1, <2>2, RoomStays DEF TableInv
  <2>5. Aged'
    BY <1>1, <2>3, AgedStays DEF TableInv
  <2>6. \A c \in Clients : pc'[c] = "scan" => pc[c] = "scan"
    BY <1>2 DEF Known, Still
  <2>7. Scanned'
    BY <1>1, <1>2, <2>3, <2>6, ScannedStays DEF TableInv, Still
  <2> QED
    BY <1>1, <2>4, <2>5, <2>7 DEF TableInv
<1>3. CASE Tick
  <2>1. now' >= now /\ now' \in Int
    BY <1>1, <1>3 DEF Tick
  <2>2. Still
    BY <1>3, <2>1 DEF Tick, Still, pass
  <2> QED
    BY <1>2, <2>2
<1>4. ASSUME NEW c \in Clients, Connect(c) \/ Handler(c)
      PROVE  TableInv'
  BY <1>1, <1>4, TableCreate
<1>5. now \in Int /\ now >= now
  BY <1>1
<1>6. ASSUME NEW c \in Clients, WriteInitial(c) \/ Subscribe(c) \/ StreamCloses(c) \/ Disconnect(c)
      PROVE  TableInv'
  <2>1. /\ UNCHANGED <<now, table, born, since, began, passed, victim, age>>
        /\ \A d \in Clients \ {c} : pc'[d] = pc[d]
        /\ pc[c] \in Known /\ pc'[c] \in Known
    BY <1>1, <1>6 DEF WriteInitial, Subscribe, StreamCloses, Disconnect, Goto, Known, TypeOK, pass
  <2>2. Still
    BY <1>5, <2>1 DEF Still
  <2> QED
    BY <1>2, <2>2
<1>7. ASSUME NEW c \in Clients, WriteFrame(c) \/ Terminate(c)
      PROVE  TableInv'
  <2>1. Still
    BY <1>5, <1>7 DEF WriteFrame, Terminate, Still, pass
  <2> QED
    BY <1>2, <2>1
<1>8. ASSUME NEW p \in Posts, NEW c \in Clients, Post(p, c)
      PROVE  TableInv'
  <2>1. Still
    BY <1>5, <1>8 DEF Post, Still, pass
  <2> QED
    BY <1>2, <2>1
<1>9. ASSUME NEW p \in Posts, Push(p)
      PROVE  TableInv'
  <2>1. Still
    BY <1>5, <1>9 DEF Push, Still, pass
  <2> QED
    BY <1>2, <2>1
<1>10. CASE UNCHANGED vars
  <2>1. Still
    BY <1>5, <1>10 DEF vars, Still, pass
  <2> QED
    BY <1>2, <2>1
<1> QED
  BY <1>3, <1>4, <1>6, <1>7, <1>8, <1>9, <1>10 DEF Next, Pump

(* The invariant the two theorems below rest on holds in every state.      *)
THEOREM TableInvariant == Spec => []TableInv
BY TableInit, TableNext, PTL DEF Spec

(* create() counts the table while it changes and inserts later: calls that *)
(* overlap take it over the ceiling by their number less one, never by      *)
(* more, however they interleave with posts, evictions and terminations;    *)
(* and no stream holds back more than Capacity frames.                      *)
THEOREM BoundsSound == Spec => []WithinBounds
<1>1. TableInv => WithinBounds
  <2> SUFFICES ASSUME TableInv PROVE WithinBounds
    OBVIOUS
  <2>1. {} \in SUBSET Passing /\ {} \in SUBSET Clients /\ TypeOK
    BY DEF TableInv
  <2>2. RoomFor({}) /\ New({}) = table
    BY <2>1 DEF TableInv, Room, New
  <2>3. /\ Cardinality(table) \in Nat /\ Cardinality(Inserting) \in Nat
        /\ MaxSessions \in Nat \ {0} /\ Parallel \in Nat \ {0}
    BY <2>1, Sizes
  <2>4. Cardinality({}) = 0
    BY FS_EmptySet
  <2>5. TableCapped
    BY <2>2, <2>3, <2>4 DEF TableCapped, RoomFor
  <2> QED
    BY <2>5 DEF TableInv, WithinBounds
<1> QED
  BY <1>1, TableInvariant, PTL

(* The session that create() evicts is at most as much younger than any its *)
(* pass cannot have missed as the pass took, whatever other calls insert,   *)
(* evict and terminate meanwhile.                                           *)
THEOREM EvictsOldest == Spec => OldestEvicted
<1> DEFINE Victims ==
      \A c \in Clients : pc[c] = "scan" /\ pc'[c] = "evict" =>
        \A d \in table \cap since[c] : born[victim'[c]] - born[d] <= now - began[c]
<1>1. TableInv /\ [Next]_vars => Victims
  <2> SUFFICES ASSUME TableInv, [Next]_vars, NEW c \in Clients, pc[c] = "scan", pc'[c] = "evict",
                      NEW d \in table \cap since[c]
               PROVE  born[victim'[c]] - born[d] <= now - began[c]
    OBVIOUS
  <2>1. TypeOK /\ pc \in [Clients -> Streams]
    BY DEF TableInv, TypeOK
  <2>2. FoundOldest(c)
    <3>1. ASSUME NEW e \in Clients, FoundOldest(e)
          PROVE  e = c
      BY <2>1, <3>1 DEF FoundOldest, Choose, Goto
    <3>2. ASSUME NEW e \in Clients,
                 Connect(e) \/ Prune(e) \/ Count(e) \/ Counted(e) \/ Scan(e) \/ FoundNone(e) \/ Evict(e)
          PROVE  FALSE
      BY <2>1, <3>2 DEF Connect, Prune, Count, Counted, Scan, FoundNone, Evict, Begin, Leave, Goto
    <3>3. ASSUME NEW e \in Clients, Stamp(e) \/ Insert(e) \/ Pump(e) \/ Disconnect(e) \/ Terminate(e)
          PROVE  FALSE
      BY <2>1, <3>3 DEF Stamp, Insert, Pump, WriteInitial, Subscribe, WriteFrame, StreamCloses, Disconnect,
                        Terminate, Goto
    <3>4. ASSUME NEW p \in Posts, Push(p) \/ \E e \in Clients : Post(p, e)
          PROVE  FALSE
      BY <3>4 DEF Push, Post
    <3>5. ~ (Tick \/ UNCHANGED vars)
      BY DEF Tick, vars
    <3> QED
      BY <3>1, <3>2, <3>3, <3>4, <3>5 DEF Next, Handler
  <2>3. passed[c] # {} /\ Complete(c) /\ victim'[c] = victim[c]
    BY <2>1, <2>2 DEF FoundOldest, Choose, SetPass, TypeOK
  <2>4. d \in passed[c] /\ d \in Clients /\ victim[c] \in Clients
    BY <2>1, <2>3 DEF Complete, TypeOK
  <2>5. began[c] - born[d] <= age[c] /\ age[c] <= now - born[victim[c]]
    BY <2>3, <2>4 DEF TableInv, Scanned, ScanOf
  <2>6. born[d] \in Int /\ born[victim[c]] \in Int /\ began[c] \in Int /\ now \in Int /\ age[c] \in Int
    <3>1. /\ now \in 0..Horizon /\ began \in [Clients -> 0..Horizon] /\ born \in [Clients -> 0..Horizon]
          /\ age \in [Clients -> Int]
      BY <2>1 DEF TypeOK
    <3>2. \A x \in 0..Horizon : x \in Int
      OBVIOUS
    <3> QED
      BY <2>4, <3>1, <3>2
  <2> QED
    BY <2>3, <2>5, <2>6
<1>2. Spec => [][Victims]_vars
  BY <1>1, TableInvariant, PTL DEF Spec
<1> QED
  BY <1>2 DEF OldestEvicted
-----------------------------------------------------------------------------
(* A stream: the frames received r, those the receiver holds b, those       *)
(* pushed u and those it lagged over d                                      *)

Distinct(u) == \A i, j \in 1..Len(u) : u[i] = u[j] => i = j

(* The receiver holds the frames pushed last; each earlier one was received *)
(* or lagged over, and those received are in the order of the pushes.       *)
Flows(r, b, u, d) ==
  LET n == Len(u) - Len(b) IN
  /\ n >= 0
  /\ \A k \in 1..Len(b) : b[k] = u[n + k]
  /\ \A k \in 1..Len(r) : r[k] \notin d /\ \E i \in 1..n : r[k] = u[i]
  /\ \A q \in d : \E i \in 1..n : q = u[i] /\ i + Capacity <= Len(u)
  /\ \A i \in 1..n : u[i] \in d \/ \E k \in 1..Len(r) : r[k] = u[i]
  /\ SameOrder(r, u)

(* The first frame the receiver holds, and the frames behind it.            *)
LEMMA Behind ==
  ASSUME NEW s \in Seq(Posts), s # << >>
  PROVE  /\ Len(s) \in Nat \ {0} /\ Head(s) = s[1] /\ Head(s) \in Posts
         /\ Tail(s) \in Seq(Posts) /\ Len(Tail(s)) = Len(s) - 1
         /\ \A k \in 1..(Len(s) - 1) : Tail(s)[k] = s[k + 1]
OBVIOUS

(* One frame more.                                                          *)
LEMMA Longer ==
  ASSUME NEW s \in Seq(Posts), NEW e \in Posts
  PROVE  /\ Append(s, e) \in Seq(Posts) /\ Len(s) \in Nat /\ Len(Append(s, e)) = Len(s) + 1
         /\ Append(s, e)[Len(s) + 1] = e
         /\ \A k \in 1..Len(s) : Append(s, e)[k] = s[k] /\ k \in 1..Len(Append(s, e))
         /\ \A k \in 1..Len(Append(s, e)) : k \in 1..Len(s) \/ k = Len(s) + 1
OBVIOUS

(* The pump writes the first frame it holds.                                *)
LEMMA FlowWrite ==
  ASSUME NEW r \in Seq(Posts), NEW b \in Seq(Posts), NEW u \in Seq(Posts), NEW d,
         Flows(r, b, u, d), Distinct(u), b # << >>
  PROVE  Flows(Append(r, Head(b)), Tail(b), u, d)
<1>1. PICK n : n = Len(u) - Len(b)
  OBVIOUS
<1>2. PICK s : s = Append(r, Head(b))
  OBVIOUS
<1>3. PICK t : t = Tail(b)
  OBVIOUS
<1>4. /\ n \in Nat /\ Len(b) \in Nat \ {0} /\ Len(u) \in Nat /\ Len(t) = Len(b) - 1
      /\ Len(u) - Len(t) = n + 1 /\ n + 1 \in 1..Len(u)
  BY <1>1, <1>3, Behind DEF Flows
<1>5. /\ \A k \in 1..Len(b) : b[k] = u[n + k]
      /\ \A k \in 1..Len(r) : r[k] \notin d /\ \E i \in 1..n : r[k] = u[i]
      /\ \A q \in d : \E i \in 1..n : q = u[i] /\ i + Capacity <= Len(u)
      /\ \A i \in 1..n : u[i] \in d \/ \E k \in 1..Len(r) : r[k] = u[i]
      /\ SameOrder(r, u)
  BY <1>1 DEF Flows
<1>6. Head(b) = u[n + 1] /\ Head(b) \in Posts
  <2>1. Head(b) = b[1] /\ 1 \in 1..Len(b) /\ Head(b) \in Posts
    BY <1>4, Behind
  <2> QED
    BY <1>5, <2>1
<1>7. /\ Len(r) \in Nat /\ Len(s) = Len(r) + 1 /\ s[Len(r) + 1] = u[n + 1]
      /\ \A k \in 1..Len(r) : s[k] = r[k] /\ k \in 1..Len(s)
      /\ \A k \in 1..Len(s) : k \in 1..Len(r) \/ k = Len(r) + 1
  BY <1>2, <1>6, Longer
<1>8. \A k \in 1..Len(t) : t[k] = u[(n + 1) + k]
  <2> SUFFICES ASSUME NEW k \in 1..Len(t) PROVE t[k] = u[(n + 1) + k]
    OBVIOUS
  <2>1. k \in 1..(Len(b) - 1) /\ k + 1 \in 1..Len(b) /\ n + (k + 1) = (n + 1) + k
    BY <1>4
  <2>2. t[k] = b[k + 1]
    BY <1>3, <2>1, Behind
  <2> QED
    BY <1>5, <2>1, <2>2
<1>9. u[n + 1] \notin d
  <2> SUFFICES ASSUME u[n + 1] \in d PROVE FALSE
    OBVIOUS
  <2>1. PICK i \in 1..n : u[n + 1] = u[i]
    BY <1>5
  <2>2. i \in 1..Len(u) /\ i # n + 1
    BY <1>4
  <2> QED
    BY <1>4, <2>1, <2>2 DEF Distinct
<1>10. \A k \in 1..Len(s) : s[k] \notin d /\ \E i \in 1..(n + 1) : s[k] = u[i]
  <2> SUFFICES ASSUME NEW k \in 1..Len(s)
               PROVE  s[k] \notin d /\ \E i \in 1..(n + 1) : s[k] = u[i]
    OBVIOUS
  <2>1. CASE k \in 1..Len(r)
    <3>1. PICK i \in 1..n : r[k] = u[i]
      BY <1>5, <2>1
    <3>2. i \in 1..(n + 1)
      BY <1>4
    <3> QED
      BY <1>5, <1>7, <2>1, <3>1, <3>2
  <2>2. CASE k = Len(r) + 1
    <3>1. n + 1 \in 1..(n + 1)
      BY <1>4
    <3> QED
      BY <1>7, <1>9, <2>2, <3>1
  <2> QED
    BY <1>7, <2>1, <2>2
<1>11. \A q \in d : \E i \in 1..(n + 1) : q = u[i] /\ i + Capacity <= Len(u)
  <2>1. \A i \in 1..n : i \in 1..(n + 1)
    BY <1>4
  <2> QED
    BY <1>5, <2>1
<1>12. \A i \in 1..(n + 1) : u[i] \in d \/ \E k \in 1..Len(s) : s[k] = u[i]
  <2> SUFFICES ASSUME NEW i \in 1..(n + 1), u[i] \notin d
               PROVE  \E k \in 1..Len(s) : s[k] = u[i]
    OBVIOUS
  <2>1. CASE i \in 1..n
    BY <1>5, <1>7, <2>1
  <2>2. CASE i = n + 1
    <3>1. Len(r) + 1 \in 1..Len(s)
      BY <1>7
    <3> QED
      BY <1>7, <2>2, <3>1
  <2> QED
    BY <1>4, <2>1, <2>2
<1>13. SameOrder(s, u)
  <2> SUFFICES ASSUME NEW k \in 1..Len(s), NEW l \in 1..Len(s), NEW i \in 1..Len(u), NEW j \in 1..Len(u),
                      s[k] = u[i], s[l] = u[j]
               PROVE  k < l <=> i < j
    BY DEF SameOrder
  <2>1. ASSUME NEW m \in 1..Len(s), NEW h \in 1..Len(u), s[m] = u[h]
        PROVE  /\ m \in 1..Len(r) => h \in 1..n /\ r[m] = u[h]
               /\ m = Len(r) + 1 => h = n + 1
    <3>1. CASE m \in 1..Len(r)
      <4>1. PICK g \in 1..n : r[m] = u[g]
        BY <1>5, <3>1
      <4>2. g \in 1..Len(u) /\ u[g] = u[h]
        BY <1>4, <1>7, <2>1, <3>1, <4>1
      <4>3. g = h
        BY <4>2 DEF Distinct
      <4>4. m # Len(r) + 1
        BY <1>7, <3>1
      <4> QED
        BY <4>1, <4>3, <4>4
    <3>2. CASE m = Len(r) + 1
      <4>1. h = n + 1
        BY <1>4, <1>7, <2>1, <3>2 DEF Distinct
      <4>2. m \notin 1..Len(r)
        BY <1>7, <3>2
      <4> QED
        BY <4>1, <4>2
    <3> QED
      BY <1>7, <3>1, <3>2
  <2>2. CASE k \in 1..Len(r) /\ l \in 1..Len(r)
    BY <1>5, <2>1, <2>2 DEF SameOrder
  <2>3. CASE k \in 1..Len(r) /\ l = Len(r) + 1
    <3>1. i \in 1..n /\ j = n + 1
      BY <2>1, <2>3
    <3> QED
      BY <1>4, <1>7, <2>3, <3>1
  <2>4. CASE k = Len(r) + 1 /\ l \in 1..Len(r)
    <3>1. j \in 1..n /\ i = n + 1
      BY <2>1, <2>4
    <3> QED
      BY <1>4, <1>7, <2>4, <3>1
  <2>5. CASE k = Len(r) + 1 /\ l = Len(r) + 1
    <3>1. i = n + 1 /\ j = n + 1
      BY <2>1, <2>5
    <3> QED
      BY <1>4, <1>7, <2>5, <3>1
  <2> QED
    BY <1>7, <2>2, <2>3, <2>4, <2>5
<1>14. n + 1 >= 0
  BY <1>4
<1>15. PICK m : m = n + 1
  OBVIOUS
<1>16. m = Len(u) - Len(t)
  BY <1>4, <1>15
<1>17. Flows(s, t, u, d)
  BY <1>8, <1>10, <1>11, <1>12, <1>13, <1>14, <1>15, <1>16, Zenon DEF Flows
<1> QED
  BY <1>2, <1>3, <1>17

(* A frame that is new behind those pushed leaves their order alone.        *)
LEMMA OrderKept ==
  ASSUME NEW r \in Seq(Posts), NEW u \in Seq(Posts), NEW p \in Posts,
         SameOrder(r, u), \A k \in 1..Len(r) : r[k] # p
  PROVE  SameOrder(r, Append(u, p))
<1>1. PICK v : v = Append(u, p)
  OBVIOUS
<1>2. /\ \A k \in 1..Len(u) : v[k] = u[k]
      /\ \A k \in 1..Len(v) : k \in 1..Len(u) \/ v[k] = p
  BY <1>1, Longer
<1> SUFFICES ASSUME NEW k \in 1..Len(r), NEW l \in 1..Len(r), NEW i \in 1..Len(v), NEW j \in 1..Len(v),
                    r[k] = v[i], r[l] = v[j]
             PROVE  k < l <=> i < j
  BY <1>1 DEF SameOrder
<1>3. i \in 1..Len(u) /\ j \in 1..Len(u) /\ r[k] = u[i] /\ r[l] = u[j]
  BY <1>2
<1> QED
  BY <1>3 DEF SameOrder

(* A frame is pushed and the receiver has room for it.                      *)
LEMMA FlowPush ==
  ASSUME NEW r \in Seq(Posts), NEW b \in Seq(Posts), NEW u \in Seq(Posts), NEW d, NEW p \in Posts,
         Flows(r, b, u, d), \A k \in 1..Len(u) : u[k] # p
  PROVE  Flows(r, Append(b, p), Append(u, p), d)
<1>1. PICK n : n = Len(u) - Len(b)
  OBVIOUS
<1>2. PICK c : c = Append(b, p)
  OBVIOUS
<1>3. PICK v : v = Append(u, p)
  OBVIOUS
<1>4. /\ n \in Nat /\ n >= 0
      /\ \A k \in 1..Len(b) : b[k] = u[n + k]
      /\ \A k \in 1..Len(r) : r[k] \notin d /\ \E i \in 1..n : r[k] = u[i]
      /\ \A q \in d : \E i \in 1..n : q = u[i] /\ i + Capacity <= Len(u)
      /\ \A i \in 1..n : u[i] \in d \/ \E k \in 1..Len(r) : r[k] = u[i]
      /\ SameOrder(r, u)
  <2>1. /\ n >= 0
        /\ \A k \in 1..Len(b) : b[k] = u[n + k]
        /\ \A k \in 1..Len(r) : r[k] \notin d /\ \E i \in 1..n : r[k] = u[i]
        /\ \A q \in d : \E i \in 1..n : q = u[i] /\ i + Capacity <= Len(u)
        /\ \A i \in 1..n : u[i] \in d \/ \E k \in 1..Len(r) : r[k] = u[i]
        /\ SameOrder(r, u)
    BY <1>1, ZenonT(30) DEF Flows
  <2>2. n \in Nat
    BY <1>1, <2>1
  <2> QED
    BY <2>1, <2>2
<1>5. /\ Len(u) \in Nat /\ Len(v) = Len(u) + 1 /\ v[Len(u) + 1] = p
      /\ \A k \in 1..Len(u) : v[k] = u[k]
  BY <1>3, Longer
<1>6. /\ Len(b) \in Nat /\ Len(c) = Len(b) + 1 /\ c[Len(b) + 1] = p
      /\ \A k \in 1..Len(b) : c[k] = b[k]
  BY <1>2, Longer
<1>7. n = Len(v) - Len(c)
  BY <1>1, <1>5, <1>6
<1>8. \A k \in 1..Len(c) : c[k] = v[n + k]
  <2> SUFFICES ASSUME NEW k \in 1..Len(c) PROVE c[k] = v[n + k]
    OBVIOUS
  <2>1. CASE k \in 1..Len(b)
    <3>1. n + k \in 1..Len(u)
      BY <1>1, <1>4, <1>5, <1>6, <2>1
    <3> QED
      BY <1>4, <1>5, <1>6, <2>1, <3>1
  <2>2. CASE k = Len(b) + 1
    <3>1. n + k = Len(u) + 1
      BY <1>1, <1>5, <1>6, <2>2
    <3> QED
      BY <1>5, <1>6, <2>2, <3>1
  <2> QED
    BY <1>6, <2>1, <2>2
<1>9. \A i \in 1..n : v[i] = u[i] /\ i \in 1..Len(u)
  BY <1>1, <1>4, <1>5, <1>6
<1>10. \A k \in 1..Len(r) : r[k] \notin d /\ \E i \in 1..n : r[k] = v[i]
  BY <1>4, <1>9
<1>11. \A q \in d : \E i \in 1..n : q = v[i] /\ i + Capacity <= Len(v)
  <2> SUFFICES ASSUME NEW q \in d PROVE \E i \in 1..n : q = v[i] /\ i + Capacity <= Len(v)
    OBVIOUS
  <2>1. PICK i \in 1..n : q = u[i] /\ i + Capacity <= Len(u)
    BY <1>4
  <2>2. i + Capacity <= Len(v)
    BY <1>4, <1>5, <2>1, McpSessionAssumption
  <2> QED
    BY <1>9, <2>1, <2>2
<1>12. \A i \in 1..n : v[i] \in d \/ \E k \in 1..Len(r) : r[k] = v[i]
  BY <1>4, <1>9
<1>13. SameOrder(r, v)
  <2>1. \A k \in 1..Len(r) : r[k] # p
    BY <1>4, <1>9
  <2> QED
    BY <1>3, <1>4, <2>1, OrderKept
<1>14. Flows(r, c, v, d)
  BY <1>4, <1>7, <1>8, <1>10, <1>11, <1>12, <1>13, Zenon DEF Flows
<1> QED
  BY <1>2, <1>3, <1>14

(* A frame is pushed on a full receiver, which lags over its first.         *)
LEMMA FlowLag ==
  ASSUME NEW r \in Seq(Posts), NEW b \in Seq(Posts), NEW u \in Seq(Posts), NEW d, NEW p \in Posts,
         Flows(r, b, u, d), Distinct(u), \A k \in 1..Len(u) : u[k] # p, Len(b) = Capacity
  PROVE  Flows(r, Append(Tail(b), p), Append(u, p), d \cup {Head(b)})
<1>1. PICK n : n = Len(u) - Len(b)
  OBVIOUS
<1>2. PICK c : c = Append(Tail(b), p)
  OBVIOUS
<1>3. PICK v : v = Append(u, p)
  OBVIOUS
<1>4. PICK e : e = d \cup {Head(b)}
  OBVIOUS
<1>5. /\ n \in Nat
      /\ \A k \in 1..Len(b) : b[k] = u[n + k]
      /\ \A k \in 1..Len(r) : r[k] \notin d /\ \E i \in 1..n : r[k] = u[i]
      /\ \A q \in d : \E i \in 1..n : q = u[i] /\ i + Capacity <= Len(u)
      /\ \A i \in 1..n : u[i] \in d \/ \E k \in 1..Len(r) : r[k] = u[i]
      /\ SameOrder(r, u)
  BY <1>1 DEF Flows
<1>6. /\ Len(u) \in Nat /\ Len(v) = Len(u) + 1 /\ v[Len(u) + 1] = p
      /\ \A k \in 1..Len(u) : v[k] = u[k]
  BY <1>3, Longer
<1>7. Capacity \in Nat \ {0} /\ b # << >>
  BY McpSessionAssumption
<1>8. /\ Len(b) \in Nat \ {0} /\ Head(b) = b[1] /\ Tail(b) \in Seq(Posts) /\ Len(Tail(b)) = Len(b) - 1
      /\ \A k \in 1..(Len(b) - 1) : Tail(b)[k] = b[k + 1]
  BY <1>7, Behind
<1>9. /\ Len(c) = Len(b) /\ c[Len(b)] = p
      /\ \A k \in 1..(Len(b) - 1) : c[k] = b[k + 1]
  <2>1. PICK t : t = Tail(b)
    OBVIOUS
  <2>2. /\ t \in Seq(Posts) /\ Len(t) = Len(b) - 1 /\ Len(c) = Len(t) + 1 /\ c[Len(t) + 1] = p
        /\ \A k \in 1..Len(t) : c[k] = t[k]
    BY <1>2, <1>8, <2>1, Longer
  <2> QED
    BY <1>8, <2>1, <2>2
<1>10. PICK m : m = n + 1
  OBVIOUS
<1>11. /\ m = Len(v) - Len(c) /\ m \in Nat /\ m >= 0 /\ m \in 1..m /\ m \in 1..Len(u)
       /\ m + Capacity = Len(v)
  <2>1. /\ n \in Nat /\ Len(u) \in Nat /\ Len(b) \in Nat \ {0} /\ n = Len(u) - Len(b) /\ m = n + 1
        /\ Len(v) = Len(u) + 1 /\ Len(c) = Len(b) /\ Len(b) = Capacity
    BY <1>1, <1>5, <1>6, <1>8, <1>9, <1>10
  <2> QED
    BY <2>1
<1>12. Head(b) = u[m]
  <2>1. 1 \in 1..Len(b)
    BY <1>8
  <2> QED
    BY <1>5, <1>8, <1>10, <2>1
<1>13. \A i \in 1..m : v[i] = u[i] /\ i \in 1..Len(u) /\ (i \in 1..n \/ i = m)
  BY <1>5, <1>6, <1>10, <1>11
<1>14. \A i \in 1..n : i \in 1..m /\ i # m
  BY <1>5, <1>10
<1>15. \A k \in 1..Len(c) : c[k] = v[m + k]
  <2> SUFFICES ASSUME NEW k \in 1..Len(c) PROVE c[k] = v[m + k]
    OBVIOUS
  <2>1. CASE k \in 1..(Len(b) - 1)
    <3>1. k + 1 \in 1..Len(b) /\ n + (k + 1) = m + k /\ m + k \in 1..Len(u)
      <4>1. n \in Nat /\ Len(u) \in Nat /\ Len(b) \in Nat \ {0} /\ n = Len(u) - Len(b) /\ m = n + 1
        BY <1>1, <1>5, <1>6, <1>8, <1>10
      <4> QED
        BY <2>1, <4>1
    <3> QED
      BY <1>5, <1>6, <1>9, <2>1, <3>1, ZenonT(30)
  <2>2. CASE k = Len(b)
    <3>1. m + k = Len(u) + 1
      BY <1>1, <1>5, <1>6, <1>8, <1>10, <2>2, SMTT(30)
    <3> QED
      BY <1>6, <1>9, <2>2, <3>1
  <2> QED
    BY <1>8, <1>9, <2>1, <2>2
<1>16. \A k \in 1..Len(r) : r[k] \notin e /\ \E i \in 1..m : r[k] = v[i]
  <2> SUFFICES ASSUME NEW k \in 1..Len(r)
               PROVE  r[k] \notin e /\ \E i \in 1..m : r[k] = v[i]
    OBVIOUS
  <2>1. PICK i \in 1..n : r[k] = u[i]
    BY <1>5
  <2>2. i \in 1..Len(u) /\ u[i] # u[m]
    BY <1>11, <1>13, <1>14 DEF Distinct
  <2> QED
    BY <1>4, <1>5, <1>12, <1>13, <1>14, <2>1, <2>2
<1>17. \A q \in e : \E i \in 1..m : q = v[i] /\ i + Capacity <= Len(v)
  <2> SUFFICES ASSUME NEW q \in e PROVE \E i \in 1..m : q = v[i] /\ i + Capacity <= Len(v)
    OBVIOUS
  <2>1. CASE q \in d
    <3>1. PICK i \in 1..n : q = u[i] /\ i + Capacity <= Len(u)
      BY <1>5, <2>1
    <3>2. i + Capacity <= Len(v)
      BY <1>5, <1>6, <1>7, <3>1
    <3> QED
      BY <1>13, <1>14, <3>1, <3>2
  <2>2. CASE q = Head(b)
    <3>1. q = v[m] /\ m + Capacity <= Len(v)
      BY <1>6, <1>11, <1>12, <1>13, <2>2
    <3> QED
      BY <1>11, <3>1
  <2> QED
    BY <1>4, <2>1, <2>2
<1>18. \A i \in 1..m : v[i] \in e \/ \E k \in 1..Len(r) : r[k] = v[i]
  BY <1>4, <1>5, <1>12, <1>13
<1>19. SameOrder(r, v)
  <2>1. \A k \in 1..Len(r) : r[k] # p
    BY <1>5, <1>13, <1>14
  <2> QED
    BY <1>3, <1>5, <2>1, OrderKept
<1>20. Flows(r, c, v, e)
  BY <1>11, <1>15, <1>16, <1>17, <1>18, <1>19, Zenon DEF Flows
<1> QED
  BY <1>2, <1>3, <1>4, <1>20

(* What was received and what waits to be written are the frames that were  *)
(* pushed and not lagged over, in the order of the pushes.                  *)
LEMMA FlowOrder ==
  ASSUME NEW r \in Seq(Posts), NEW b \in Seq(Posts), NEW u \in Seq(Posts), NEW d,
         Flows(r, b, u, d), Distinct(u)
  PROVE  /\ ToSet(r \o b) = ToSet(u) \ d /\ ToSet(u) = ToSet(r) \cup ToSet(b) \cup d
         /\ SameOrder(r \o b, u)
         /\ \A q \in d : \E i \in 1..Len(u) : u[i] = q /\ i + Capacity <= Len(u)
<1>1. PICK n : n = Len(u) - Len(b)
  OBVIOUS
<1>2. PICK s : s = r \o b
  OBVIOUS
<1>3. /\ n \in Nat /\ Len(u) \in Nat /\ Len(b) \in Nat /\ Len(r) \in Nat
      /\ \A k \in 1..Len(b) : b[k] = u[n + k]
      /\ \A k \in 1..Len(r) : r[k] \notin d /\ \E i \in 1..n : r[k] = u[i]
      /\ \A q \in d : \E i \in 1..n : q = u[i] /\ i + Capacity <= Len(u)
      /\ \A i \in 1..n : u[i] \in d \/ \E k \in 1..Len(r) : r[k] = u[i]
      /\ SameOrder(r, u)
  <2>1. Len(u) \in Nat /\ Len(b) \in Nat /\ Len(r) \in Nat
    OBVIOUS
  <2>2. Len(u) - Len(b) >= 0
    BY DEF Flows
  <2>3. n \in Nat
    BY <1>1, <2>1, <2>2
  <2> QED
    BY <1>1, <2>1, <2>3, Zenon DEF Flows
<1>4. /\ s \in Seq(Posts) /\ Len(s) = Len(r) + Len(b)
      /\ \A k \in 1..Len(r) : s[k] = r[k]
      /\ \A k \in 1..Len(b) : s[Len(r) + k] = b[k]
      /\ DOMAIN s = 1..Len(s) /\ DOMAIN r = 1..Len(r) /\ DOMAIN b = 1..Len(b) /\ DOMAIN u = 1..Len(u)
  BY <1>2
<1>5. \A k \in 1..Len(b) : n + k \in 1..Len(u) /\ n + k \notin 1..n
  BY <1>1, <1>3
<1>6. \A i \in 1..n : i \in 1..Len(u)
  BY <1>1, <1>3
<1>7. \A i \in 1..Len(u) : i \in 1..n \/ (i - n \in 1..Len(b) /\ i = n + (i - n))
  BY <1>1, <1>3
<1>8. ToSet(u) = ToSet(r) \cup ToSet(b) \cup d
  <2>1. \A i \in 1..Len(u) : u[i] \in ToSet(r) \cup ToSet(b) \cup d
    <3> SUFFICES ASSUME NEW i \in 1..Len(u) PROVE u[i] \in ToSet(r) \cup ToSet(b) \cup d
      OBVIOUS
    <3>1. CASE i \in 1..n
      BY <1>3, <1>4, <3>1 DEF ToSet
    <3>2. CASE i - n \in 1..Len(b) /\ i = n + (i - n)
      <4>1. PICK k \in 1..Len(b) : i = n + k
        BY <3>2
      <4> QED
        BY <1>3, <1>4, <4>1 DEF ToSet
    <3> QED
      BY <1>7, <3>1, <3>2
  <2>2. \A k \in 1..Len(r) : r[k] \in ToSet(u)
    BY <1>3, <1>4, <1>6 DEF ToSet
  <2>3. \A k \in 1..Len(b) : b[k] \in ToSet(u)
    BY <1>3, <1>4, <1>5 DEF ToSet
  <2>4. \A q \in d : q \in ToSet(u)
    BY <1>3, <1>4, <1>6 DEF ToSet
  <2> QED
    BY <1>4, <2>1, <2>2, <2>3, <2>4, ZenonT(30) DEF ToSet
<1>9. \A k \in 1..Len(b) : b[k] \notin d
  <2> SUFFICES ASSUME NEW k \in 1..Len(b), b[k] \in d PROVE FALSE
    OBVIOUS
  <2>1. PICK i \in 1..n : b[k] = u[i]
    BY <1>3
  <2>2. n + k = i
    BY <1>3, <1>5, <1>6, <2>1 DEF Distinct
  <2> QED
    BY <1>5, <2>2
<1>10. ToSet(s) = ToSet(u) \ d
  <2>1. ToSet(s) = ToSet(r) \cup ToSet(b)
    <3>1. \A k \in 1..Len(s) : k \in 1..Len(r) \/ (k - Len(r) \in 1..Len(b) /\ k = Len(r) + (k - Len(r)))
      BY <1>3, <1>4
    <3>2. \A k \in 1..Len(s) : s[k] \in ToSet(r) \cup ToSet(b)
      BY <1>4, <3>1 DEF ToSet
    <3>3. \A k \in 1..Len(r) : k \in 1..Len(s)
      BY <1>3, <1>4
    <3>4. \A k \in 1..Len(b) : Len(r) + k \in 1..Len(s)
      BY <1>3, <1>4
    <3>5. ToSet(r) \subseteq ToSet(s) /\ ToSet(b) \subseteq ToSet(s)
      BY <1>4, <3>3, <3>4 DEF ToSet
    <3> QED
      BY <1>4, <3>2, <3>5 DEF ToSet
  <2>2. \A x \in ToSet(r) \cup ToSet(b) : x \notin d
    BY <1>3, <1>4, <1>9 DEF ToSet
  <2> QED
    BY <1>8, <2>1, <2>2
<1>11. SameOrder(s, u)
  <2> SUFFICES ASSUME NEW k \in 1..Len(s), NEW l \in 1..Len(s), NEW i \in 1..Len(u), NEW j \in 1..Len(u),
                      s[k] = u[i], s[l] = u[j]
               PROVE  k < l <=> i < j
    BY DEF SameOrder
  <2>1. ASSUME NEW m \in 1..Len(s), NEW h \in 1..Len(u), s[m] = u[h]
        PROVE  \/ m \in 1..Len(r) /\ h \in 1..n /\ r[m] = u[h]
               \/ m \notin 1..Len(r) /\ h \notin 1..n /\ h - n = m - Len(r)
    <3>1. CASE m \in 1..Len(r)
      <4>1. PICK g \in 1..n : r[m] = u[g]
        BY <1>3, <3>1
      <4>2. g = h
        BY <1>4, <1>6, <2>1, <3>1, <4>1 DEF Distinct
      <4> QED
        BY <1>4, <2>1, <3>1, <4>1, <4>2
    <3>2. CASE m \notin 1..Len(r)
      <4>1. m - Len(r) \in 1..Len(b) /\ m = Len(r) + (m - Len(r))
        BY <1>3, <1>4, <3>2
      <4>2. PICK g \in 1..Len(b) : m = Len(r) + g
        BY <4>1
      <4>3. u[h] = u[n + g] /\ n + g \in 1..Len(u) /\ n + g \notin 1..n
        BY <1>3, <1>4, <1>5, <2>1, <4>2
      <4>4. h = n + g
        BY <4>3 DEF Distinct
      <4> QED
        BY <1>3, <3>2, <4>2, <4>3, <4>4
    <3> QED
      BY <3>1, <3>2
  <2>2. CASE k \in 1..Len(r) /\ l \in 1..Len(r)
    <3>1. r[k] = u[i] /\ r[l] = u[j]
      BY <2>1, <2>2
    <3>2. SameOrder(r, u)
      BY <1>3
    <3> QED
      BY <2>2, <3>1, <3>2 DEF SameOrder
  <2>3. CASE k \in 1..Len(r) /\ l \notin 1..Len(r)
    BY <1>3, <2>1, <2>3
  <2>4. CASE k \notin 1..Len(r) /\ l \in 1..Len(r)
    BY <1>3, <2>1, <2>4
  <2>5. CASE k \notin 1..Len(r) /\ l \notin 1..Len(r)
    BY <1>3, <1>4, <2>1, <2>5
  <2> QED
    BY <2>2, <2>3, <2>4, <2>5
<1>12. \A q \in d : \E i \in 1..Len(u) : u[i] = q /\ i + Capacity <= Len(u)
  BY <1>3, <1>6
<1> QED
  BY <1>2, <1>8, <1>10, <1>11, <1>12

-----------------------------------------------------------------------------
(* The streams                                                              *)

Opened == {"pumping", "closed"}
Greeted == Opened \cup {"greeted"}
Accepted(c) == [state |-> "accepted", client |-> c]

(* Nothing is pushed on a stream before its pump subscribed.                *)
Fresh ==
  \A c \in Clients : pc[c] \notin Opened =>
    received[c] = << >> /\ buffer[c] = << >> /\ pushed[c] = << >> /\ dropped[c] = {}

Addressed ==
  \A p \in Posts : post[p] # Unsent => post[p].client \in Clients /\ pc[post[p].client] \in Greeted

(* What was pushed is of a request that is accepted, and the frame of such  *)
(* a request was pushed, if to nobody.                                      *)
Gone(p, c) == p \in missed[c] \/ \E i \in 1..Len(pushed[c]) : pushed[c][i] = p
Recorded ==
  /\ \A c \in Clients : \A i \in 1..Len(pushed[c]) : post[pushed[c][i]] = Accepted(c)
  /\ \A p \in Posts : post[p] # Unsent /\ post[p].state = "accepted" => Gone(p, post[p].client)

Flowing ==
  \A c \in Clients :
    /\ Distinct(pushed[c])
    /\ pc[c] = "pumping" => Flows(received[c], buffer[c], pushed[c], dropped[c])

StreamInv == TypeOK /\ Fresh /\ Addressed /\ Recorded /\ Flowing

(* Nothing was pushed and nothing waits.                                    *)
LEMMA FlowEmpty == Flows(<< >>, << >>, << >>, {}) /\ Distinct(<< >>)
BY DEF Flows, Distinct, SameOrder

LEMMA StreamInit == Init => StreamInv
<1> SUFFICES ASSUME Init PROVE StreamInv
  OBVIOUS
<1>1. \A c \in Clients : received[c] = << >> /\ buffer[c] = << >> /\ pushed[c] = << >> /\ dropped[c] = {}
  BY DEF Init
<1>2. \A p \in Posts : post[p] = Unsent
  BY DEF Init
<1>3. Fresh /\ Addressed
  BY <1>1, <1>2 DEF Fresh, Addressed
<1>4. Recorded
  BY <1>1, <1>2 DEF Recorded
<1>5. Flowing
  BY <1>1, FlowEmpty DEF Flowing
<1> QED
  BY <1>3, <1>4, <1>5, TypeInit DEF StreamInv

(* A stream that opens, ends or stays leaves what was sent on it.           *)
LEMMA StreamStays ==
  ASSUME StreamInv, TypeOK', UNCHANGED <<frames, post>>,
         \A c \in Clients : pc'[c] = pc[c] \/ pc'[c] = "closed" \/ pc[c] \notin Opened,
         \A c \in Clients : pc[c] \in Greeted => pc'[c] \in Greeted
  PROVE  StreamInv'
<1>1. UNCHANGED <<received, buffer, pushed, missed, dropped, post>>
  BY DEF frames
<1>2. Fresh'
  BY <1>1 DEF StreamInv, Fresh, Opened
<1>3. Addressed'
  BY <1>1 DEF StreamInv, Addressed
<1>4. Recorded'
  BY <1>1 DEF StreamInv, Recorded, Gone
<1>5. Flowing'
  <2> SUFFICES ASSUME NEW c \in Clients
               PROVE  /\ Distinct(pushed[c])
                      /\ pc'[c] = "pumping" => Flows(received[c], buffer[c], pushed[c], dropped[c])
    BY <1>1 DEF Flowing
  <2>1. Distinct(pushed[c]) /\ (pc[c] = "pumping" => Flows(received[c], buffer[c], pushed[c], dropped[c]))
    BY DEF StreamInv, Flowing
  <2>2. pc[c] \notin Opened => Flows(received[c], buffer[c], pushed[c], dropped[c])
    BY FlowEmpty DEF StreamInv, Fresh
  <2>3. pc'[c] = "pumping" => pc[c] = "pumping" \/ pc[c] \notin Opened
    OBVIOUS
  <2> QED
    BY <2>1, <2>2, <2>3
<1> QED
  BY <1>2, <1>3, <1>4, <1>5 DEF StreamInv

LEMMA StreamWrite ==
  ASSUME StreamInv, TypeOK', NEW c \in Clients, WriteFrame(c)
  PROVE  StreamInv'
<1>1. /\ pc[c] = "pumping" /\ buffer[c] # << >>
      /\ received' = [received EXCEPT ![c] = Append(received[c], Head(buffer[c]))]
      /\ buffer' = [buffer EXCEPT ![c] = Tail(buffer[c])]
      /\ UNCHANGED <<pc, pushed, missed, dropped, post>>
  BY DEF WriteFrame
<1>2. /\ received \in [Clients -> Seq(Posts)] /\ buffer \in [Clients -> Seq(Posts)]
      /\ pushed \in [Clients -> Seq(Posts)]
  BY DEF StreamInv, TypeOK
<1>3. Fresh'
  BY <1>1, <1>2 DEF StreamInv, Fresh, Opened
<1>4. Addressed' /\ Recorded'
  BY <1>1 DEF StreamInv, Addressed, Recorded, Gone
<1>5. Flowing'
  <2> SUFFICES ASSUME NEW e \in Clients
               PROVE  /\ Distinct(pushed[e])
                      /\ pc[e] = "pumping" => Flows(received'[e], buffer'[e], pushed[e], dropped[e])
    BY <1>1 DEF Flowing
  <2>1. Distinct(pushed[e]) /\ (pc[e] = "pumping" => Flows(received[e], buffer[e], pushed[e], dropped[e]))
    BY DEF StreamInv, Flowing
  <2>2. CASE e = c
    <3>1. Flows(Append(received[c], Head(buffer[c])), Tail(buffer[c]), pushed[c], dropped[c])
      <4>1. received[c] \in Seq(Posts) /\ buffer[c] \in Seq(Posts) /\ pushed[c] \in Seq(Posts)
        BY <1>2
      <4> QED
        BY <1>1, <2>1, <2>2, <4>1, FlowWrite
    <3> QED
      BY <1>1, <1>2, <2>1, <2>2, <3>1
  <2>3. CASE e # c
    BY <1>1, <1>2, <2>1, <2>3
  <2> QED
    BY <2>2, <2>3
<1> QED
  BY <1>3, <1>4, <1>5 DEF StreamInv

(* A request reaches a session its client learned of on its stream.         *)
LEMMA StreamPost ==
  ASSUME StreamInv, TypeOK', NEW p \in Posts, NEW c \in Clients, Post(p, c)
  PROVE  StreamInv'
<1>1. /\ post[p] = Unsent /\ pc[c] \in Greeted
      /\ UNCHANGED <<pc, received, buffer, pushed, missed, dropped>>
  BY DEF Post, Knows, frames, Greeted, Opened
<1>2. PICK state \in {"dispatching", "refused"} : post' = [post EXCEPT ![p] = [state |-> state, client |-> c]]
  BY DEF Post, Carry
<1>3. post \in [Posts -> Requests \cup {Unsent}] /\ pushed \in [Clients -> Seq(Posts)]
  BY DEF StreamInv, TypeOK
<1>4. /\ post'[p].state = state /\ post'[p].client = c
      /\ \A q \in Posts : q # p => post'[q] = post[q]
  BY <1>2, <1>3
<1>5. Fresh' /\ Flowing'
  BY <1>1 DEF StreamInv, Fresh, Flowing
<1>6. Addressed'
  BY <1>1, <1>4 DEF StreamInv, Addressed
<1>7. Recorded'
  <2>1. \A d \in Clients : \A i \in 1..Len(pushed[d]) : pushed[d][i] # p /\ pushed[d][i] \in Posts
    <3> SUFFICES ASSUME NEW d \in Clients, NEW i \in 1..Len(pushed[d])
                 PROVE  pushed[d][i] # p /\ pushed[d][i] \in Posts
      OBVIOUS
    <3>1. post[pushed[d][i]] = Accepted(d)
      BY DEF StreamInv, Recorded
    <3>2. Accepted(d).state # Unsent.state
      BY DEF Accepted, Unsent
    <3>3. pushed[d] \in Seq(Posts)
      BY <1>3
    <3> QED
      BY <1>1, <3>1, <3>2, <3>3
  <2>2. \A q \in Posts : post'[q] # Unsent /\ post'[q].state = "accepted" => q # p
    BY <1>4
  <2>3. \A d \in Clients : \A i \in 1..Len(pushed[d]) : post'[pushed[d][i]] = Accepted(d)
    BY <1>4, <2>1 DEF StreamInv, Recorded
  <2>4. \A q \in Posts : post'[q] # Unsent /\ post'[q].state = "accepted" => Gone(q, post'[q].client)
    BY <1>4, <2>2 DEF StreamInv, Recorded
  <2>5. \A q, d : Gone(q, d)' <=> Gone(q, d)
    BY <1>1 DEF Gone
  <2>6. \A q \in Posts : post'[q] # Unsent /\ post'[q].state = "accepted" =>
          (q \in missed'[post'[q].client] \/ \E i \in 1..Len(pushed'[post'[q].client]) : pushed'[post'[q].client][i] = q)
    BY <1>1, <2>4 DEF Gone
  <2>7. \A d \in Clients : \A i \in 1..Len(pushed'[d]) : post'[pushed'[d][i]] = Accepted(d)'
    BY <1>1, <2>3 DEF Accepted
  <2> QED
    BY <2>6, <2>7 DEF Recorded, Gone
<1> QED
  BY <1>5, <1>6, <1>7 DEF StreamInv

(* The response of a request is pushed once, on the stream it is for.       *)
LEMMA StreamPush ==
  ASSUME StreamInv, TypeOK', NEW p \in Posts, Push(p), pc[post[p].client] = "pumping"
  PROVE  StreamInv'
<1>1. PICK c : c = post[p].client
  OBVIOUS
<1>2. /\ post[p].state = "dispatching"
      /\ pushed' = [pushed EXCEPT ![c] = Append(pushed[c], p)]
      /\ Broadcast(p, c)
      /\ post' = [post EXCEPT ![p] = Accepted(c)]
      /\ UNCHANGED <<pc, received, missed>>
  BY <1>1 DEF Push, Carry, Accepted
<1>3. /\ received \in [Clients -> Seq(Posts)] /\ buffer \in [Clients -> Seq(Posts)]
      /\ pushed \in [Clients -> Seq(Posts)] /\ dropped \in [Clients -> SUBSET Posts]
      /\ post \in [Posts -> Requests \cup {Unsent}]
      /\ \A d \in Clients : Len(buffer[d]) <= Capacity
  BY DEF StreamInv, TypeOK
<1>4. post[p] # Unsent
  BY <1>2 DEF Unsent
<1>5. c \in Clients /\ pc[c] = "pumping" /\ pc[c] \in Opened /\ pc[c] \in Greeted
  BY <1>1, <1>4 DEF StreamInv, Addressed, Opened, Greeted
<1>6. /\ post'[p] = Accepted(c) /\ post'[p].state = "accepted" /\ post'[p].client = c
      /\ \A q \in Posts : q # p => post'[q] = post[q]
  BY <1>2, <1>3 DEF Accepted
<1>7. \A d \in Clients : \A i \in 1..Len(pushed[d]) : pushed[d][i] # p /\ pushed[d][i] \in Posts
  <2> SUFFICES ASSUME NEW d \in Clients, NEW i \in 1..Len(pushed[d])
               PROVE  pushed[d][i] # p /\ pushed[d][i] \in Posts
    OBVIOUS
  <2>1. post[pushed[d][i]] = Accepted(d)
    BY DEF StreamInv, Recorded
  <2>2. pushed[d] \in Seq(Posts)
    BY <1>3
  <2> QED
    BY <1>2, <2>1, <2>2 DEF Accepted
<1>8. /\ pushed[c] \in Seq(Posts) /\ received[c] \in Seq(Posts) /\ buffer[c] \in Seq(Posts)
      /\ Len(buffer[c]) <= Capacity /\ Len(buffer[c]) \in Nat
      /\ pushed'[c] = Append(pushed[c], p)
      /\ \A d \in Clients : d # c => pushed'[d] = pushed[d]
  BY <1>2, <1>3, <1>5
<1>9. /\ Len(pushed[c]) \in Nat /\ Len(pushed'[c]) = Len(pushed[c]) + 1 /\ pushed'[c][Len(pushed[c]) + 1] = p
      /\ \A k \in 1..Len(pushed[c]) : pushed'[c][k] = pushed[c][k] /\ k \in 1..Len(pushed'[c])
      /\ \A k \in 1..Len(pushed'[c]) : k \in 1..Len(pushed[c]) \/ k = Len(pushed[c]) + 1
  BY <1>8, Longer
<1>10. /\ \A d \in Clients : d # c => buffer'[d] = buffer[d] /\ dropped'[d] = dropped[d]
  BY <1>2, <1>3 DEF Broadcast
<1>11. Fresh'
  BY <1>2, <1>5, <1>8, <1>10 DEF StreamInv, Fresh
<1>12. Addressed'
  BY <1>2, <1>5, <1>6 DEF StreamInv, Addressed
<1>13. Recorded'
  <2>1. ASSUME NEW d \in Clients, NEW i \in 1..Len(pushed'[d])
        PROVE  post'[pushed'[d][i]] = Accepted(d)
    <3>1. \A e \in Clients : \A k \in 1..Len(pushed[e]) : post'[pushed[e][k]] = Accepted(e)
      BY <1>6, <1>7 DEF StreamInv, Recorded
    <3>2. CASE d = c
      BY <1>6, <1>9, <2>1, <3>1, <3>2
    <3>3. CASE d # c
      BY <1>8, <2>1, <3>1, <3>3
    <3> QED
      BY <3>2, <3>3
  <2>2. ASSUME NEW q \in Posts, post'[q] # Unsent, post'[q].state = "accepted"
        PROVE  \/ q \in missed'[post'[q].client]
               \/ \E i \in 1..Len(pushed'[post'[q].client]) : pushed'[post'[q].client][i] = q
    <3>1. CASE q = p
      <4>1. Len(pushed[c]) + 1 \in 1..Len(pushed'[c])
        BY <1>9
      <4> QED
        BY <1>6, <1>9, <3>1, <4>1
    <3>2. CASE q # p
      <4>1. post'[q] = post[q]
        BY <1>6, <3>2
      <4>2. \/ q \in missed[post[q].client]
            \/ \E i \in 1..Len(pushed[post[q].client]) : pushed[post[q].client][i] = q
        BY <2>2, <4>1 DEF StreamInv, Recorded, Gone
      <4>3. post[q].client \in Clients
        BY <2>2, <4>1 DEF StreamInv, Addressed
      <4>4. CASE q \in missed[post[q].client]
        BY <1>2, <4>1, <4>4
      <4>5. ASSUME NEW i \in 1..Len(pushed[post[q].client]), pushed[post[q].client][i] = q
            PROVE  \E k \in 1..Len(pushed'[post'[q].client]) : pushed'[post'[q].client][k] = q
        BY <1>8, <1>9, <4>1, <4>3, <4>5
      <4> QED
        BY <4>2, <4>4, <4>5
    <3> QED
      BY <3>1, <3>2
  <2> QED
    BY <2>1, <2>2 DEF Recorded, Accepted, Gone
<1>14. Distinct(pushed'[c])
  BY <1>5, <1>7, <1>9 DEF StreamInv, Flowing, Distinct
<1>15. pc[c] = "pumping" => Flows(received[c], buffer'[c], pushed'[c], dropped'[c])
  <2> SUFFICES ASSUME pc[c] = "pumping" PROVE Flows(received[c], buffer'[c], pushed'[c], dropped'[c])
    OBVIOUS
  <2>1. Flows(received[c], buffer[c], pushed[c], dropped[c]) /\ Distinct(pushed[c])
    BY <1>5 DEF StreamInv, Flowing
  <2>2. \A k \in 1..Len(pushed[c]) : pushed[c][k] # p
    BY <1>5, <1>7
  <2>3. CASE Len(buffer[c]) < Capacity
    <3>1. buffer'[c] = Append(buffer[c], p) /\ dropped'[c] = dropped[c]
      BY <1>2, <1>3, <1>5, <2>3 DEF Broadcast
    <3>2. Flows(received[c], Append(buffer[c], p), Append(pushed[c], p), dropped[c])
      BY <1>8, <2>1, <2>2, FlowPush
    <3> QED
      BY <1>8, <3>1, <3>2
  <2>4. CASE ~ (Len(buffer[c]) < Capacity)
    <3>1. Len(buffer[c]) = Capacity
      BY <1>8, <2>4, McpSessionAssumption
    <3>2. buffer'[c] = Append(Tail(buffer[c]), p) /\ dropped'[c] = dropped[c] \cup {Head(buffer[c])}
      BY <1>2, <1>3, <1>5, <2>4 DEF Broadcast
    <3>3. Flows(received[c], Append(Tail(buffer[c]), p), Append(pushed[c], p), dropped[c] \cup {Head(buffer[c])})
      BY <1>8, <2>1, <2>2, <3>1, FlowLag
    <3> QED
      BY <1>8, <3>2, <3>3
  <2> QED
    BY <2>3, <2>4
<1>16. Flowing'
  BY <1>2, <1>8, <1>10, <1>14, <1>15 DEF StreamInv, Flowing
<1> QED
  BY <1>11, <1>12, <1>13, <1>16 DEF StreamInv

(* A response that is pushed while no pump is subscribed is gone.           *)
LEMMA StreamMiss ==
  ASSUME StreamInv, TypeOK', NEW p \in Posts, Push(p), pc[post[p].client] # "pumping"
  PROVE  StreamInv'
<1>1. PICK c : c = post[p].client
  OBVIOUS
<1>2. /\ post[p].state = "dispatching"
      /\ missed' = [missed EXCEPT ![c] = @ \cup {p}]
      /\ post' = [post EXCEPT ![p] = Accepted(c)]
      /\ UNCHANGED <<pc, received, buffer, pushed, dropped>>
  BY <1>1 DEF Push, Carry, Accepted
<1>3. /\ pushed \in [Clients -> Seq(Posts)] /\ missed \in [Clients -> SUBSET Posts]
      /\ post \in [Posts -> Requests \cup {Unsent}]
  BY DEF StreamInv, TypeOK
<1>4. post[p] # Unsent
  BY <1>2 DEF Unsent
<1>5. c \in Clients /\ pc[c] \in Greeted
  BY <1>1, <1>4 DEF StreamInv, Addressed
<1>6. /\ post'[p] = Accepted(c) /\ post'[p].state = "accepted" /\ post'[p].client = c
      /\ \A q \in Posts : q # p => post'[q] = post[q]
  BY <1>2, <1>3 DEF Accepted
<1>7. /\ missed'[c] = missed[c] \cup {p}
      /\ \A d \in Clients : missed[d] \subseteq missed'[d]
  BY <1>2, <1>3, <1>5
<1>8. Fresh' /\ Flowing'
  BY <1>2 DEF StreamInv, Fresh, Flowing
<1>9. Addressed'
  BY <1>2, <1>5, <1>6 DEF StreamInv, Addressed
<1>10. \A d \in Clients : \A i \in 1..Len(pushed[d]) : pushed[d][i] # p /\ pushed[d][i] \in Posts
  <2> SUFFICES ASSUME NEW d \in Clients, NEW i \in 1..Len(pushed[d])
               PROVE  pushed[d][i] # p /\ pushed[d][i] \in Posts
    OBVIOUS
  <2>1. post[pushed[d][i]] = Accepted(d)
    BY DEF StreamInv, Recorded
  <2>2. pushed[d] \in Seq(Posts)
    BY <1>3
  <2> QED
    BY <1>2, <2>1, <2>2 DEF Accepted
<1>11. Recorded'
  <2>1. \A d \in Clients : \A i \in 1..Len(pushed'[d]) : post'[pushed'[d][i]] = Accepted(d)
    BY <1>2, <1>6, <1>10 DEF StreamInv, Recorded
  <2>2. ASSUME NEW q \in Posts, post'[q] # Unsent, post'[q].state = "accepted"
        PROVE  \/ q \in missed'[post'[q].client]
               \/ \E i \in 1..Len(pushed'[post'[q].client]) : pushed'[post'[q].client][i] = q
    <3>1. CASE q = p
      BY <1>6, <1>7, <3>1
    <3>2. CASE q # p
      <4>1. post'[q] = post[q]
        BY <1>6, <3>2
      <4>2. \/ q \in missed[post[q].client]
            \/ \E i \in 1..Len(pushed[post[q].client]) : pushed[post[q].client][i] = q
        BY <2>2, <4>1 DEF StreamInv, Recorded, Gone
      <4>3. post[q].client \in Clients
        BY <2>2, <4>1 DEF StreamInv, Addressed
      <4> QED
        BY <1>2, <1>7, <4>1, <4>2, <4>3
    <3> QED
      BY <3>1, <3>2
  <2> QED
    BY <2>1, <2>2 DEF Recorded, Accepted, Gone
<1> QED
  BY <1>8, <1>9, <1>11 DEF StreamInv

LEMMA StreamNext == StreamInv /\ [Next]_vars => StreamInv'
<1> SUFFICES ASSUME StreamInv, [Next]_vars PROVE StreamInv'
  OBVIOUS
<1>1. TypeOK /\ TypeOK' /\ pc \in [Clients -> Streams]
  BY TypeNext DEF StreamInv, TypeOK
<1>2. CASE Tick \/ UNCHANGED vars
  BY <1>1, <1>2, StreamStays DEF Tick, vars, frames
<1>3. ASSUME NEW c \in Clients, Connect(c) \/ Handler(c) \/ WriteInitial(c) \/ Subscribe(c)
      PROVE  StreamInv'
  <2>1. /\ UNCHANGED <<frames, post>> /\ pc[c] \notin Opened /\ \A d \in Clients \ {c} : pc'[d] = pc[d]
        /\ pc[c] \in Greeted => pc'[c] \in Greeted
    <3>1. ASSUME Connect(c) \/ Prune(c) \/ Counted(c) \/ FoundNone(c) \/ FoundOldest(c) \/ Evict(c)
          PROVE  /\ UNCHANGED <<frames, post>> /\ pc[c] \notin Greeted /\ \A d \in Clients \ {c} : pc'[d] = pc[d]
      BY <1>1, <3>1 DEF Connect, Prune, Counted, FoundNone, FoundOldest, Evict, Begin, Leave, Choose, Goto,
                        Opened, Greeted, frames
    <3>2. ASSUME Count(c) \/ Scan(c) \/ Stamp(c) \/ Insert(c) \/ WriteInitial(c)
          PROVE  /\ UNCHANGED <<frames, post>> /\ pc[c] \notin Greeted /\ \A d \in Clients \ {c} : pc'[d] = pc[d]
      BY <1>1, <3>2 DEF Count, Scan, Stamp, Insert, WriteInitial, Goto, Opened, Greeted, frames
    <3>3. ASSUME Subscribe(c)
          PROVE  /\ UNCHANGED <<frames, post>> /\ pc[c] \notin Opened /\ \A d \in Clients \ {c} : pc'[d] = pc[d]
                 /\ pc'[c] \in Greeted
      BY <1>1, <3>3 DEF Subscribe, Goto, Opened, Greeted, frames
    <3> QED
      BY <1>3, <3>1, <3>2, <3>3 DEF Handler, Greeted
  <2> QED
    BY <1>1, <2>1, StreamStays
<1>4. ASSUME NEW c \in Clients, StreamCloses(c) \/ Disconnect(c)
      PROVE  StreamInv'
  <2>1. UNCHANGED <<frames, post>> /\ pc'[c] = "closed" /\ \A d \in Clients \ {c} : pc'[d] = pc[d]
    BY <1>1, <1>4 DEF StreamCloses, Disconnect, Goto, frames
  <2>2. "closed" \in Greeted
    BY DEF Greeted, Opened
  <2> QED
    BY <1>1, <2>1, <2>2, StreamStays
<1>5. ASSUME NEW c \in Clients, Terminate(c)
      PROVE  StreamInv'
  BY <1>1, <1>5, StreamStays DEF Terminate, frames
<1>6. ASSUME NEW c \in Clients, WriteFrame(c)
      PROVE  StreamInv'
  BY <1>1, <1>6, StreamWrite
<1>7. ASSUME NEW p \in Posts, NEW c \in Clients, Post(p, c)
      PROVE  StreamInv'
  BY <1>1, <1>7, StreamPost
<1>8. ASSUME NEW p \in Posts, Push(p)
      PROVE  StreamInv'
  BY <1>1, <1>8, StreamPush, StreamMiss
<1> QED
  BY <1>2, <1>3, <1>4, <1>5, <1>6, <1>7, <1>8 DEF Next, Pump

(* The response of an accepted POST is pushed, to nobody unless the pump is *)
(* subscribed; from then on it is on the stream, waits to be written or was *)
(* lagged over, and the stream carries the responses in the order they were *)
(* pushed, each once, skipping one only when Capacity newer ones waited.    *)
THEOREM AnswersSound == Spec => []AnswersArrive
<1>1. StreamInv => AnswersArrive
  <2> SUFFICES ASSUME StreamInv PROVE AnswersArrive
    OBVIOUS
  <2>1. ASSUME NEW c \in Clients, pc[c] = "pumping"
        PROVE  /\ ToSet(received[c] \o buffer[c]) = ToSet(pushed[c]) \ dropped[c]
               /\ ToSet(pushed[c]) = ToSet(received[c]) \cup ToSet(buffer[c]) \cup dropped[c]
               /\ SameOrder(received[c] \o buffer[c], pushed[c])
               /\ \A q \in dropped[c] : \E i \in 1..Len(pushed[c]) :
                    pushed[c][i] = q /\ i + Capacity <= Len(pushed[c])
    <3>1. received[c] \in Seq(Posts) /\ buffer[c] \in Seq(Posts) /\ pushed[c] \in Seq(Posts)
      BY DEF StreamInv, TypeOK
    <3>2. Flows(received[c], buffer[c], pushed[c], dropped[c]) /\ Distinct(pushed[c])
      BY <2>1 DEF StreamInv, Flowing
    <3> QED
      BY <3>1, <3>2, FlowOrder
  <2>2. StreamInOrder
    BY <2>1, Zenon DEF StreamInOrder
  <2>3. AcceptedIsPushed
    <3> SUFFICES ASSUME NEW p \in Posts, NEW c, c = post[p].client,
                        post[p] # Unsent, post[p].state = "accepted"
                 PROVE  p \in ToSet(pushed[c]) \cup missed[c]
      BY DEF AcceptedIsPushed
    <3>1. c \in Clients
      BY DEF StreamInv, Addressed
    <3>2. p \in missed[c] \/ \E i \in 1..Len(pushed[c]) : pushed[c][i] = p
      BY DEF StreamInv, Recorded, Gone
    <3>3. pushed[c] \in Seq(Posts)
      BY <3>1 DEF StreamInv, TypeOK
    <3> QED
      BY <3>2, <3>3 DEF ToSet
  <2> QED
    BY <2>2, <2>3 DEF AnswersArrive
<1>2. StreamInv /\ [Next]_vars => StreamInv'
  BY StreamNext
<1> QED
  BY <1>1, <1>2, StreamInit, PTL DEF Spec

-----------------------------------------------------------------------------
(* The exchange of messages (McpProtocol), whatever is asked of it.           *)

(* The record the handlers change, field by field.                            *)
ExchangeShape(x) ==
  x = [env |-> x.env, table |-> x.table, minted |-> x.minted, known |-> x.known, lost |-> x.lost,
       pushed |-> x.pushed, owed |-> x.owed, inline |-> x.inline, status |-> x.status]

InStep(x) ==
  /\ DOMAIN x.pushed = Sessions
  /\ DOMAIN x.owed = Sessions
  /\ \A s \in Sessions : x.pushed[s] = x.owed[s]

IsNamed(x, s) == s \in x.known \cup x.lost
SpeaksSupported(entry) == entry.initialized => entry.version \in Supported
LiveAreNamed(x) ==
  /\ x.table = [s \in DOMAIN x.table |-> x.table[s]]
  /\ \A s \in DOMAIN x.table : s \in Sessions /\ IsNamed(x, s) /\ SpeaksSupported(x.table[s])

(* The strengthening that is inductive: a live session is one whose stream    *)
(* exists, every stream is in step with what is owed on it.                   *)
ExchangeInv(x) == ExchangeShape(x) /\ x.inline.sent = x.inline.owed /\ InStep(x) /\ LiveAreNamed(x)

(* McpEngine::dispatch answers a body as often as it is owed an answer and    *)
(* under the id it is owed, whatever its method comes to.                     *)
LEMMA DispatchOwes ==
  ASSUME NEW body, NEW code, Parses(body)
  PROVE  Ids(Dispatch(body, code)) = Owed(body)
<1>1. CASE body.id = "absent" /\ body.version = "2.0"
  <2>1. Dispatch(body, code) = << >> /\ Owed(body) = << >> BY <1>1 DEF Dispatch, Owed, IsNotification
  <2>2. Ids(<< >>) = << >> BY DEF Ids
  <2> QED BY <2>1, <2>2
<1>2. CASE ~ (body.id = "absent" /\ body.version = "2.0")
  <2>1. PICK k : Dispatch(body, code) = <<Answer(Replied(body), k)>>
    BY <1>2 DEF Dispatch, IsNotification
  <2>2. Ids(<<Answer(Replied(body), k)>>) = <<Replied(body)>> BY DEF Ids, Answer
  <2>3. Owed(body) = <<Replied(body)>> BY <1>2 DEF Owed, Replied
  <2> QED BY <2>1, <2>2, <2>3
<1> QED BY <1>1, <1>2

(* A body that does not parse is owed one fault, and gets it.                 *)
LEMMA FailureOwes ==
  ASSUME NEW body, ~Parses(body)
  PROVE  Ids(<<ParseFailure(body)>>) = Owed(body)
BY DEF Ids, ParseFailure, Answer, Owed

(* initialize enters a version only when it is supported.                     *)
LEMMA TouchEnters ==
  ASSUME NEW body, NEW code \in Route(body), NEW entry, SpeaksSupported(entry)
  PROVE  SpeaksSupported(Touch(entry, body, code))
<1>1. CASE body.version = "2.0" /\ body.method = "initialize" /\ code = 0
  <2>1. Route(body) = {IF Requested(body) \in Supported THEN 0 ELSE -32600} BY <1>1 DEF Route
  <2>2. Requested(body) \in Supported BY <2>1, <1>1
  <2> QED BY <1>1, <2>2 DEF Touch, SpeaksSupported
<1>2. CASE ~ (body.version = "2.0" /\ body.method = "initialize" /\ code = 0)
  BY <1>2 DEF Touch
<1> QED BY <1>1, <1>2

LEMMA BlankEnters == SpeaksSupported(Blank)
BY DEF SpeaksSupported, Blank

(* A message that finds no session to change: a refusal, an unknown session.  *)
LEMMA PlainKeeps ==
  ASSUME ExchangeInv(exchange), NEW status, Plain(status)
  PROVE  ExchangeInv(exchange')
BY DEF ExchangeInv, ExchangeShape, InStep, LiveAreNamed, IsNamed, Plain, Quiet, Says

(* A reply in line of the answers a body is owed.                             *)
LEMMA InlineKeeps ==
  ASSUME ExchangeInv(exchange), NEW owed, NEW status,
         exchange' = [exchange EXCEPT !.inline = Says(owed, owed), !.status = status]
  PROVE  ExchangeInv(exchange')
BY DEF ExchangeInv, ExchangeShape, InStep, LiveAreNamed, IsNamed, Says

(* A session entered anew or once more, under a name that is known from then  *)
(* on.                                                                        *)
Enters(s, entry) ==
  /\ ExchangeShape(exchange')
  /\ exchange'.inline.sent = exchange'.inline.owed
  /\ exchange'.pushed = exchange.pushed /\ exchange'.owed = exchange.owed
  /\ exchange'.table = With(exchange.table, s, entry)
  /\ exchange.known \subseteq exchange'.known /\ exchange.lost \subseteq exchange'.lost
  /\ IsNamed(exchange', s)

LEMMA EntryKeeps ==
  ASSUME ExchangeInv(exchange), NEW s \in Sessions, NEW entry, SpeaksSupported(entry), Enters(s, entry)
  PROVE  ExchangeInv(exchange')
<1> DEFINE entries == With(exchange.table, s, entry)
<1>1. /\ DOMAIN entries = DOMAIN exchange.table \cup {s} /\ entries[s] = entry
      /\ \A t \in DOMAIN exchange.table : t # s => entries[t] = exchange.table[t]
      /\ entries = [t \in DOMAIN entries |-> entries[t]]
  BY DEF With
<1> HIDE DEF entries
<1>2. exchange'.table = entries
  BY DEF Enters, entries
<1>3. LiveAreNamed(exchange')
  <2>1. ASSUME NEW t \in DOMAIN entries
        PROVE  t \in Sessions /\ IsNamed(exchange', t) /\ SpeaksSupported(entries[t])
    <3>1. CASE t = s BY <3>1, <1>1 DEF Enters
    <3>2. CASE t # s
      <4>1. t \in DOMAIN exchange.table /\ entries[t] = exchange.table[t] BY <3>2, <1>1
      <4> QED BY <3>2, <4>1 DEF Enters, ExchangeInv, LiveAreNamed, IsNamed
    <3> QED BY <3>1, <3>2
  <2> QED BY <1>1, <1>2, <2>1 DEF LiveAreNamed
<1> QED BY <1>3 DEF ExchangeInv, Enters, InStep

LEMMA SseKeeps ==
  ASSUME ExchangeInv(exchange), NEW r, HandleSse(r)
  PROVE  ExchangeInv(exchange')
<1>1. CASE ~Authenticate(exchange.env, r).allowed
  BY <1>1, PlainKeeps DEF HandleSse
<1>2. CASE Authenticate(exchange.env, r).allowed
  <2>1. Mint \in Sessions BY <1>2 DEF HandleSse, CanMint
  <2>2. Enters(Mint, Blank)
    <3>1. exchange' = [exchange EXCEPT !.table = With(@, Mint, Blank), !.minted = Mint,
                                       !.known = @ \cup {Mint}, !.inline = Quiet, !.status = 200]
      BY <1>2 DEF HandleSse
    <3> DEFINE s == Mint
               entry == Blank
    <3> HIDE DEF s, entry
    <3>2. exchange' = [exchange EXCEPT !.table = With(exchange.table, s, entry), !.minted = s,
                                       !.known = exchange.known \cup {s}, !.inline = Quiet, !.status = 200]
      BY <3>1 DEF s, entry
    <3>3. Enters(s, entry)
      BY <3>2 DEF Quiet, Says, Enters, IsNamed, ExchangeInv, ExchangeShape
    <3> QED BY <3>3 DEF s, entry
  <2> QED BY <2>1, <2>2, BlankEnters, EntryKeeps
<1> QED BY <1>1, <1>2

(* serve_with_session: what is owed goes on the session's stream, which stays *)
(* in step.                                                                   *)
LEMMA StreamKeeps ==
  ASSUME ExchangeInv(exchange), NEW s \in Table, NEW owed, NEW entry, SpeaksSupported(entry), NEW status,
         exchange' = [exchange EXCEPT !.pushed[s] = @ \o owed, !.owed[s] = @ \o owed,
                                      !.table[s] = entry, !.inline = Quiet, !.status = status]
  PROVE  ExchangeInv(exchange')
<1>1. /\ ExchangeShape(exchange') /\ exchange'.inline = Says(<< >>, << >>)
      /\ exchange'.table = [exchange.table EXCEPT ![s] = entry]
      /\ exchange'.known = exchange.known /\ exchange'.lost = exchange.lost
      /\ exchange'.pushed = [exchange.pushed EXCEPT ![s] = @ \o owed]
      /\ exchange'.owed = [exchange.owed EXCEPT ![s] = @ \o owed]
  BY DEF ExchangeInv, ExchangeShape, Quiet
<1>2. InStep(exchange')
  BY <1>1 DEF ExchangeInv, InStep
<1>3. LiveAreNamed(exchange')
  BY <1>1 DEF ExchangeInv, LiveAreNamed, IsNamed, Table
<1> QED BY <1>1, <1>2, <1>3 DEF ExchangeInv, Says

LEMMA ServeWithSessionKeeps ==
  ASSUME ExchangeInv(exchange), NEW s \in Table, NEW body, ServeWithSession(s, body)
  PROVE  ExchangeInv(exchange')
<1>1. SpeaksSupported(exchange.table[s]) BY DEF ExchangeInv, LiveAreNamed, Table
<1>2. CASE ~Parses(body)
  <2>1. exchange' = [exchange EXCEPT !.pushed[s] = @ \o Owed(body), !.owed[s] = @ \o Owed(body),
                                     !.inline = Quiet, !.status = 202]
    BY <1>2, FailureOwes DEF ServeWithSession
  <2>2. exchange' = [exchange EXCEPT !.pushed[s] = @ \o Owed(body), !.owed[s] = @ \o Owed(body),
                                     !.table[s] = exchange.table[s], !.inline = Quiet, !.status = 202]
    <3>1. exchange.table = [exchange.table EXCEPT ![s] = exchange.table[s]]
      BY DEF ExchangeInv, LiveAreNamed
    <3> QED BY <2>1, <3>1 DEF ExchangeInv, ExchangeShape
  <2> QED BY <2>2, <1>1, StreamKeeps
<1>3. CASE Parses(body)
  <2>1. PICK code \in Route(body) :
          exchange' = [exchange EXCEPT !.pushed[s] = @ \o Ids(Dispatch(body, code)), !.owed[s] = @ \o Owed(body),
                                       !.table[s] = Touch(@, body, code), !.inline = Quiet, !.status = 202]
    BY <1>3 DEF ServeWithSession
  <2>2. Ids(Dispatch(body, code)) = Owed(body) BY <1>3, DispatchOwes
  <2>3. SpeaksSupported(Touch(exchange.table[s], body, code)) BY <1>1, TouchEnters
  <2> QED BY <2>1, <2>2, <2>3, StreamKeeps
<1> QED BY <1>2, <1>3

LEMMA ServeStatelessKeeps ==
  ASSUME ExchangeInv(exchange), NEW body, ServeStateless(body)
  PROVE  ExchangeInv(exchange')
<1>1. CASE ~Parses(body)
  BY <1>1, FailureOwes, InlineKeeps DEF ServeStateless
<1>2. CASE Parses(body)
  <2>1. PICK code \in Route(body) : \E status :
          exchange' = [exchange EXCEPT !.inline = Says(Owed(body), Ids(Dispatch(body, code))), !.status = status]
    BY <1>2 DEF ServeStateless
  <2>2. Ids(Dispatch(body, code)) = Owed(body) BY <1>2, DispatchOwes
  <2> QED BY <2>1, <2>2, InlineKeeps
<1> QED BY <1>1, <1>2

LEMMA MessageKeeps ==
  ASSUME ExchangeInv(exchange), NEW r, HandleMessage(r)
  PROVE  ExchangeInv(exchange')
<1>1. CASE \E status : Plain(status)
  BY <1>1, PlainKeeps
<1>2. CASE r.session \in Table /\ ServeWithSession(r.session, r.body)
  BY <1>2, ServeWithSessionKeeps
<1>3. CASE ServeStateless(r.body)
  BY <1>3, ServeStatelessKeeps
<1> QED BY <1>1, <1>2, <1>3 DEF HandleMessage

(* handle_streamable: the session is entered, and the reply carries what is   *)
(* owed.                                                                      *)
LEMMA StreamableKeeps ==
  ASSUME ExchangeInv(exchange), NEW r, HandleStreamable(r)
  PROVE  ExchangeInv(exchange')
<1> DEFINE verdict == Authenticate(exchange.env, r)
           fresh == r.session = 0
           s == IF fresh THEN Mint ELSE r.session
           entry == IF fresh THEN Blank ELSE exchange.table[s]
           minted == IF fresh THEN Mint ELSE exchange.minted
           enters == verdict.allowed /\ (fresh \/ s \in Table)
<1>1. CASE ~enters
  <2>1. Plain(Refusal(verdict)) \/ Plain(404) BY <1>1 DEF HandleStreamable
  <2> QED BY <2>1, PlainKeeps
<1>2. CASE enters
  <2>1. s \in Sessions /\ SpeaksSupported(entry)
    <3>1. CASE fresh
      <4>1. CanMint BY <1>2, <3>1 DEF HandleStreamable
      <4> QED BY <3>1, <4>1, BlankEnters DEF CanMint
    <3>2. CASE ~fresh
      <4>1. r.session \in DOMAIN exchange.table BY <1>2, <3>2 DEF Table
      <4> QED BY <3>2, <4>1 DEF ExchangeInv, LiveAreNamed
    <3> QED BY <3>1, <3>2
  <2>2. CASE ~Parses(r.body)
    <3>1. exchange' = [exchange EXCEPT !.table = With(@, s, entry), !.minted = IF fresh THEN Mint ELSE @,
                                       !.lost = IF fresh THEN @ \cup {s} ELSE @, !.status = 400,
                                       !.inline = Says(Owed(r.body), Owed(r.body))]
      BY <1>2, <2>2, FailureOwes DEF HandleStreamable
    <3>2. fresh \/ IsNamed(exchange, s)
      BY <1>2 DEF ExchangeInv, LiveAreNamed, Table
    <3> HIDE DEF s, entry, fresh
    <3>3. Enters(s, entry)
      BY <3>1, <3>2 DEF Says, Enters, IsNamed, ExchangeInv, ExchangeShape
    <3> QED BY <2>1, <3>3, EntryKeeps
  <2>3. CASE Parses(r.body)
    <3>1. PICK code \in Route(r.body) : \E status :
            exchange' = [exchange EXCEPT !.table = With(exchange.table, s, Touch(entry, r.body, code)), !.minted = minted,
                                         !.known = exchange.known \cup {s},
                                         !.inline = Says(Owed(r.body), Ids(Dispatch(r.body, code))), !.status = status]
      BY <1>2, <2>3 DEF HandleStreamable
    <3>2. SpeaksSupported(Touch(entry, r.body, code)) BY <2>1, TouchEnters
    <3> HIDE DEF minted, s, entry
    <3>3. Enters(s, Touch(entry, r.body, code))
      <4>1. Ids(Dispatch(r.body, code)) = Owed(r.body) BY <2>3, DispatchOwes
      <4>2. PICK status :
              exchange' = [exchange EXCEPT !.table = With(exchange.table, s, Touch(entry, r.body, code)), !.minted = minted,
                                           !.known = exchange.known \cup {s},
                                           !.inline = Says(Owed(r.body), Owed(r.body)), !.status = status]
        BY <3>1, <4>1
      <4> QED BY <4>2 DEF Says, Enters, IsNamed, ExchangeInv, ExchangeShape
    <3> QED BY <2>1, <3>2, <3>3, EntryKeeps
  <2> QED BY <2>2, <2>3
<1> QED BY <1>1, <1>2

LEMMA TerminateKeeps ==
  ASSUME ExchangeInv(exchange), NEW r, HandleTerminate(r)
  PROVE  ExchangeInv(exchange')
<1>1. CASE \E status : Plain(status)
  BY <1>1, PlainKeeps
<1>2. CASE exchange' = [exchange EXCEPT !.table = [t \in Table \ {r.session} |-> exchange.table[t]],
                                        !.inline = Quiet, !.status = 200]
  BY <1>2 DEF ExchangeInv, ExchangeShape, InStep, LiveAreNamed, IsNamed, Quiet, Says, Table
<1> QED BY <1>1, <1>2 DEF HandleTerminate

LEMMA LineKeeps ==
  ASSUME ExchangeInv(exchange), NEW body, HandleLine(body)
  PROVE  ExchangeInv(exchange')
<1>1. CASE body.text = "nothing"
  BY <1>1, PlainKeeps DEF HandleLine
<1>2. CASE body.text # "nothing" /\ ~Parses(body)
  BY <1>2, FailureOwes, InlineKeeps DEF HandleLine
<1>3. CASE body.text # "nothing" /\ Parses(body)
  <2>1. PICK code \in Route(body) :
          exchange' = [exchange EXCEPT !.inline = Says(Owed(body), Ids(Dispatch(body, code))), !.status = 0]
    BY <1>3 DEF HandleLine
  <2> QED BY <2>1, <1>3, DispatchOwes, InlineKeeps
<1> QED BY <1>1, <1>2, <1>3

LEMMA ExchangeSteps ==
  ASSUME NEW requests, ExchangeInv(exchange), [ExchangeNext(requests)]_exchange
  PROVE  ExchangeInv(exchange')
<1>1. CASE ExchangeNext(requests)
  <2>1. PICK r \in requests : \/ HandleSse(r) \/ HandleMessage(r) \/ HandleStreamable(r)
                             \/ HandleTerminate(r) \/ HandleLine(r.body)
    BY <1>1 DEF ExchangeNext
  <2> QED BY <2>1, SseKeeps, MessageKeeps, StreamableKeeps, TerminateKeeps, LineKeeps
<1>2. CASE UNCHANGED exchange
  BY <1>2
<1> QED BY <1>1, <1>2

(* Every request is answered once, under its id and where its transport       *)
(* answers, a notification never; a live session is known to a client or was  *)
(* lost with a body that does not parse, and speaks a supported version       *)
(* (mcp/transport.rs, stdio.rs, McpEngine::dispatch), whatever the            *)
(* configuration, the sessions, the versions and the requests.                *)
THEOREM ExchangeSound ==
  ASSUME NEW envs, NEW requests
  PROVE  ExchangeInit(envs) /\ [][ExchangeNext(requests)]_exchange => []ExchangeIsSound
<1>1. ExchangeInit(envs) => ExchangeInv(exchange)
  BY DEF ExchangeInit, ExchangeInv, ExchangeShape, InStep, LiveAreNamed
<1>2. ExchangeInv(exchange) => ExchangeIsSound
  BY DEF ExchangeInv, InStep, LiveAreNamed, IsNamed, SpeaksSupported, ExchangeIsSound, AnsweredOnce, SessionsAreKnown, Table
<1>3. ExchangeInv(exchange) /\ [ExchangeNext(requests)]_exchange => ExchangeInv(exchange)'
  BY ExchangeSteps
<1> QED BY <1>1, <1>2, <1>3, PTL
=============================================================================
