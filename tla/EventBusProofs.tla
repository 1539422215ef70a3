---------------------------- MODULE EventBusProofs ----------------------------
(***************************************************************************)
(* Theorems about EventBus for every set of handlers, every ring and any   *)
(* number of events.                                                       *)
(***************************************************************************)
EXTENDS EventBus, TLAPS

-----------------------------------------------------------------------------
(* The parts of the inductive invariant.                                    *)

(* Positions stay in order: subscribed at, read next, accepted next.        *)
Ordered ==
  /\ Len(published) = tail
  /\ \A h \in Handlers : joined[h] <= next[h] /\ next[h] <= tail

(* A slot holds an event that was published, at the position it claims.     *)
Truthful ==
  \A s \in Slots : ring[s].pos >= 0 =>
    ring[s].pos < tail /\ ring[s].type = published[ring[s].pos + 1]

(* The last Capacity events are all still in the ring.                      *)
Kept == \A p \in 0..(tail - 1) : tail - p <= Capacity => ring[p % Capacity].pos = p

(* Who never subscribed was never called; who runs a handler was.           *)
Called ==
  \A h \in Handlers : /\ task[h] = "unregistered" => handled[h] = << >>
                      /\ task[h] = "handling" => handled[h] # << >>

IInv == BusTypeOK /\ Ordered /\ Truthful /\ Kept /\ Called /\ GaplessDelivery /\ EndsForCause

-----------------------------------------------------------------------------
(* Slots of the ring                                                        *)

LEMMA SlotOf ==
  ASSUME NEW a \in Nat
  PROVE  a % Capacity \in Slots
BY EventBusAssumption DEF Slots

LEMMA NoMultipleBetween ==
  ASSUME NEW k \in Int, 0 < Capacity * k, Capacity * k < Capacity
  PROVE  FALSE
<1> USE EventBusAssumption
<1>1. CASE k <= 0
  BY <1>1
<1>2. CASE k >= 1
  BY <1>2
<1> QED
  BY <1>1, <1>2

(* Events fewer than Capacity apart are in different slots.                 *)
LEMMA SlotsDiffer ==
  ASSUME NEW a \in Nat, NEW b \in Nat, b < a, a - b < Capacity
  PROVE  a % Capacity # b % Capacity
<1> SUFFICES ASSUME a % Capacity = b % Capacity PROVE FALSE
  OBVIOUS
<1> USE EventBusAssumption
<1>1. PICK r : r = a % Capacity
  OBVIOUS
<1>2. PICK k : k = a \div Capacity
  OBVIOUS
<1>3. PICK l : l = b \div Capacity
  OBVIOUS
<1>4. a = Capacity * k + r /\ k \in Int /\ r \in Int
  BY <1>1, <1>2
<1>5. b = Capacity * l + r /\ l \in Int
  BY <1>1, <1>3
<1>6. a - b = Capacity * (k - l) /\ k - l \in Int
  BY <1>4, <1>5
<1> QED
  BY <1>6, NoMultipleBetween

-----------------------------------------------------------------------------
(* Positions                                                                *)

(* One position more at the end of an ascending sequence.                   *)
LEMMA Extended ==
  ASSUME NEW s \in Seq(Nat), NEW e \in Nat
  PROVE  /\ ToSet(Append(s, e)) = ToSet(s) \cup {e}
         /\ Ascending(s) /\ (\A d \in ToSet(s) : d < e) => Ascending(Append(s, e))
<1>1. PICK u : u = Append(s, e)
  OBVIOUS
<1>2. /\ u \in Seq(Nat) /\ Len(u) = Len(s) + 1 /\ u[Len(s) + 1] = e /\ Len(s) \in Nat
      /\ \A i \in 1..Len(s) : u[i] = s[i] /\ i \in 1..Len(u)
      /\ DOMAIN s = 1..Len(s) /\ DOMAIN u = 1..Len(u)
  BY <1>1
<1>3. ToSet(u) = ToSet(s) \cup {e}
  <2>1. \A i \in 1..Len(u) : u[i] \in ToSet(s) \cup {e}
    <3> SUFFICES ASSUME NEW i \in 1..Len(u) PROVE u[i] \in ToSet(s) \cup {e}
      OBVIOUS
    <3>1. CASE i \in 1..Len(s)
      BY <1>2, <3>1 DEF ToSet
    <3>2. CASE i = Len(s) + 1
      BY <1>2, <3>2
    <3> QED
      BY <1>2, <3>1, <3>2
  <2>2. \A i \in 1..Len(s) : s[i] \in ToSet(u)
    BY <1>2 DEF ToSet
  <2>3. e \in ToSet(u)
    <3>1. Len(s) + 1 \in DOMAIN u /\ u[Len(s) + 1] = e
      BY <1>2
    <3> QED
      BY <3>1 DEF ToSet
  <2> QED
    BY <1>2, <2>1, <2>2, <2>3 DEF ToSet
<1>4. ASSUME Ascending(s), \A d \in ToSet(s) : d < e
      PROVE  Ascending(u)
  <2> SUFFICES ASSUME NEW i \in 1..Len(u), NEW j \in 1..Len(u), i < j
               PROVE  u[i] < u[j]
    BY DEF Ascending
  <2>1. i \in 1..Len(s)
    BY <1>2
  <2>2. s[i] \in ToSet(s) /\ u[i] = s[i]
    BY <1>2, <2>1 DEF ToSet
  <2>3. CASE j \in 1..Len(s)
    BY <1>2, <1>4, <2>1, <2>3 DEF Ascending
  <2>4. CASE j = Len(s) + 1
    <3>1. u[j] = e
      BY <1>2, <2>4
    <3> QED
      BY <1>4, <2>2, <3>1
  <2>5. j \in 1..Len(s) \/ j = Len(s) + 1
    BY <1>2
  <2> QED
    BY <2>3, <2>4, <2>5
<1> QED
  BY <1>1, <1>3, <1>4

-----------------------------------------------------------------------------
(* The steps                                                                *)

LEMMA InvInit == BusInit => IInv
<1> SUFFICES ASSUME BusInit PROVE IInv
  OBVIOUS
<1>1. BusTypeOK
  BY EventBusAssumption DEF BusInit, BusTypeOK, HandlerStates
<1>2. Ordered /\ Called /\ EndsForCause
  BY DEF BusInit, Ordered, Called, EndsForCause
<1>3. Truthful
  BY DEF BusInit, Truthful, NoEvent
<1>4. Kept
  BY DEF BusInit, Kept
<1>5. GaplessDelivery
  BY DEF BusInit, GaplessDelivery, Wanted, Ascending, ToSet
<1> QED
  BY <1>1, <1>2, <1>3, <1>4, <1>5 DEF IInv

(* What is published goes into the slot of the event it is Capacity after.  *)
LEMMA InvPublish ==
  ASSUME IInv, NEW type \in Types, Publish(type)
  PROVE  IInv'
<1> USE EventBusAssumption
<1>1. /\ tail \in Nat /\ tail < MaxEvents /\ tail' = tail + 1
      /\ ring' = [ring EXCEPT ![tail % Capacity] = [pos |-> tail, type |-> type]]
      /\ published' = Append(published, type) /\ published \in Seq(Types) /\ Len(published) = tail
      /\ UNCHANGED <<next, task, joined, handled>>
      /\ ring \in [Slots -> Events \cup {NoEvent}]
  BY DEF Publish, IInv, BusTypeOK, Ordered
<1>2. tail % Capacity \in Slots
  BY <1>1, SlotOf
<1>3. PICK e : e = [pos |-> tail, type |-> type]
  OBVIOUS
<1>4. e \in Events /\ e.pos = tail /\ e.type = type
  BY <1>1, <1>3 DEF Events
<1>5. ring'[tail % Capacity] = e /\ \A s \in Slots : s # tail % Capacity => ring'[s] = ring[s]
  BY <1>1, <1>2, <1>3
<1>6. /\ published' \in Seq(Types) /\ Len(published') = tail + 1 /\ published'[tail + 1] = type
      /\ \A i \in 1..tail : published'[i] = published[i]
  BY <1>1
<1>7. BusTypeOK'
  BY <1>1, <1>2, <1>3, <1>4, <1>6 DEF IInv, BusTypeOK
<1>8. Ordered'
  BY <1>1, <1>6, <1>7 DEF IInv, Ordered, BusTypeOK
<1>9. Truthful'
  <2> SUFFICES ASSUME NEW s \in Slots, ring'[s].pos >= 0
               PROVE  ring'[s].pos < tail' /\ ring'[s].type = published'[ring'[s].pos + 1]
    BY DEF Truthful
  <2>1. CASE s = tail % Capacity
    BY <1>1, <1>4, <1>5, <1>6, <2>1
  <2>2. CASE s # tail % Capacity
    <3>1. ring'[s] = ring[s] /\ ring[s] \in Events \cup {NoEvent} /\ ring[s].pos >= 0
      BY <1>1, <1>5, <2>2
    <3>2. ring[s].pos \in Int
      BY <3>1 DEF Events, NoEvent
    <3>3. ring[s].pos < tail /\ ring[s].type = published[ring[s].pos + 1]
      BY <3>1 DEF IInv, Truthful
    <3>4. ring[s].pos + 1 \in 1..tail
      BY <1>1, <3>1, <3>2, <3>3
    <3> QED
      BY <1>1, <1>6, <3>1, <3>2, <3>3, <3>4
  <2> QED
    BY <2>1, <2>2
<1>10. Kept'
  <2> SUFFICES ASSUME NEW p \in 0..tail, tail + 1 - p <= Capacity
               PROVE  ring'[p % Capacity].pos = p
    BY <1>1 DEF Kept
  <2>1. CASE p = tail
    BY <1>4, <1>5, <2>1
  <2>2. CASE p # tail
    <3>1. p \in Nat /\ p < tail /\ p \in 0..(tail - 1) /\ tail - p < Capacity /\ tail - p <= Capacity
      BY <1>1, <2>2
    <3>2. p % Capacity \in Slots /\ p % Capacity # tail % Capacity
      BY <1>1, <3>1, SlotOf, SlotsDiffer
    <3> QED
      BY <1>5, <3>1, <3>2 DEF IInv, Kept
  <2> QED
    BY <2>1, <2>2
<1>11. Called'
  BY <1>1 DEF IInv, Called
<1>12. GaplessDelivery'
  <2> SUFFICES ASSUME NEW h \in Handlers
               PROVE  Wanted(h, joined[h], next[h])' = Wanted(h, joined[h], next[h])
    BY <1>1 DEF IInv, GaplessDelivery, Ascending
  <2>1. joined[h] \in Nat /\ next[h] \in Nat /\ next[h] <= tail
    BY DEF IInv, BusTypeOK, Ordered
  <2>2. \A pos \in joined[h]..(next[h] - 1) : published'[pos + 1] = published[pos + 1]
    BY <1>1, <1>6, <2>1
  <2>3. \A pos \in joined[h]..(next[h] - 1) : pos < tail /\ pos < tail'
    BY <1>1, <2>1
  <2> QED
    BY <1>1, <2>2, <2>3 DEF Wanted
<1>13. EndsForCause'
  <2>1. \A h \in Handlers : next[h] \in Nat
    BY DEF IInv, BusTypeOK
  <2> QED
    BY <1>1, <2>1 DEF IInv, EndsForCause
<1> QED
  BY <1>7, <1>8, <1>9, <1>10, <1>11, <1>12, <1>13 DEF IInv

(* A handler subscribes.                                                    *)
LEMMA InvRegister ==
  ASSUME IInv, NEW h \in Handlers, RegisterHandler(h)
  PROVE  IInv'
<1>1. /\ task[h] = "unregistered" /\ handled[h] = << >> /\ tail \in 0..MaxEvents
      /\ task' = [task EXCEPT ![h] = "waiting"]
      /\ next' = [next EXCEPT ![h] = tail] /\ joined' = [joined EXCEPT ![h] = tail]
      /\ UNCHANGED <<ring, tail, published, handled>>
  BY DEF RegisterHandler, IInv, BusTypeOK, Called
<1>2. /\ task'[h] = "waiting" /\ next'[h] = tail /\ joined'[h] = tail
      /\ \A g \in Handlers \ {h} : task'[g] = task[g] /\ next'[g] = next[g] /\ joined'[g] = joined[g]
  BY <1>1 DEF IInv, BusTypeOK
<1>3. BusTypeOK'
  BY <1>1 DEF IInv, BusTypeOK, HandlerStates
<1>4. Ordered'
  BY <1>1, <1>2, EventBusAssumption DEF IInv, Ordered
<1>5. Truthful' /\ Kept'
  BY <1>1 DEF IInv, Truthful, Kept
<1>6. Called'
  BY <1>1, <1>2 DEF IInv, Called
<1>7. GaplessDelivery'
  <2>1. Wanted(h, joined[h], next[h])' = {} /\ ToSet(handled[h]) = {}
    BY <1>1, <1>2 DEF Wanted, ToSet
  <2>2. \A g \in Handlers \ {h} : Wanted(g, joined[g], next[g])' = Wanted(g, joined[g], next[g])
    BY <1>1, <1>2 DEF Wanted
  <2> QED
    BY <1>1, <2>1, <2>2 DEF IInv, GaplessDelivery, Ascending
<1>8. EndsForCause'
  BY <1>1, <1>2 DEF IInv, EndsForCause
<1> QED
  BY <1>3, <1>4, <1>5, <1>6, <1>7, <1>8 DEF IInv

(* The task of a subscription goes on, without reading from the channel.    *)
LEMMA InvGoesOn ==
  ASSUME IInv, NEW h \in Handlers, Lag(h) \/ Handled(h) \/ Panic(h)
  PROVE  IInv'
<1>1. /\ UNCHANGED <<ring, tail, next, published, joined, handled>>
      /\ task[h] \in {"waiting", "handling"}
      /\ task'[h] \in {"waiting", "lagged", "panicked"}
      /\ \A g \in Handlers \ {h} : task'[g] = task[g]
  BY DEF Lag, Handled, Panic, IInv, BusTypeOK
<1>2. BusTypeOK'
  <2>1. task' = [task EXCEPT ![h] = task'[h]]
    BY DEF Lag, Handled, Panic, IInv, BusTypeOK
  <2> QED
    BY <1>1, <2>1 DEF IInv, BusTypeOK, HandlerStates
<1>3. Ordered' /\ Truthful' /\ Kept' /\ GaplessDelivery'
  BY <1>1 DEF IInv, Ordered, Truthful, Kept, GaplessDelivery, Wanted, Ascending
<1>4. Called'
  BY <1>1 DEF IInv, Called
<1>5. EndsForCause'
  <2>1. ASSUME Lag(h) PROVE tail - next[h] > Capacity
    <3>1. next[h] \in Nat /\ tail \in Nat /\ next[h] < tail /\ ring[next[h] % Capacity].pos # next[h]
      BY <2>1, EventBusAssumption DEF Lag, Lagged, Slot, IInv, BusTypeOK
    <3>2. next[h] \in 0..(tail - 1)
      BY <3>1
    <3> QED
      BY <3>1, <3>2, EventBusAssumption DEF IInv, Kept
  <2>2. ASSUME Panic(h) PROVE h \in Fragile /\ handled[h] # << >>
    BY <2>2 DEF Panic, IInv, Called
  <2>3. /\ task'[h] = "lagged" => Lag(h)
        /\ task'[h] = "panicked" => Panic(h)
    BY DEF Lag, Handled, Panic, IInv, BusTypeOK
  <2> QED
    BY <1>1, <2>1, <2>2, <2>3 DEF IInv, EndsForCause
<1> QED
  BY <1>2, <1>3, <1>4, <1>5 DEF IInv

(* What the receiver reads is the event of the position it stands at.       *)
LEMMA InvDispatch ==
  ASSUME IInv, NEW h \in Handlers, Deliver(h)
  PROVE  IInv'
<1> USE EventBusAssumption
<1>1. PICK pos : pos = next[h]
  OBVIOUS
<1>2. PICK event : event = ring[pos % Capacity]
  OBVIOUS
<1>3. /\ pos \in Nat /\ pos < tail /\ tail \in 0..MaxEvents /\ joined[h] \in Nat /\ joined[h] <= pos
      /\ event.pos = pos /\ task[h] = "waiting" /\ handled[h] \in Seq(Nat)
      /\ next' = [next EXCEPT ![h] = pos + 1]
      /\ UNCHANGED <<ring, tail, published, joined>>
  BY <1>1, <1>2 DEF Deliver, Ready, Slot, IInv, BusTypeOK, Ordered
<1>4. event.type = published[pos + 1]
  BY <1>2, <1>3, SlotOf DEF IInv, Truthful
<1>5. next'[h] = pos + 1 /\ \A g \in Handlers \ {h} : next'[g] = next[g]
  BY <1>3 DEF IInv, BusTypeOK
<1>6. \/ /\ published[pos + 1] = Wants[h]
         /\ task' = [task EXCEPT ![h] = "handling"] /\ handled' = [handled EXCEPT ![h] = Append(@, pos)]
      \/ published[pos + 1] # Wants[h] /\ UNCHANGED <<task, handled>>
  BY <1>1, <1>2, <1>3, <1>4 DEF Deliver, Slot
<1>7. BusTypeOK'
  <2>1. next' \in [Handlers -> 0..MaxEvents] /\ task' \in [Handlers -> HandlerStates]
    BY <1>3, <1>6 DEF IInv, BusTypeOK, HandlerStates
  <2>2. handled' \in [Handlers -> Seq(Nat)]
    <3>1. Append(handled[h], pos) \in Seq(Nat) /\ handled \in [Handlers -> Seq(Nat)]
      BY <1>3 DEF IInv, BusTypeOK
    <3> QED
      BY <1>6, <3>1
  <2> QED
    BY <1>3, <2>1, <2>2 DEF IInv, BusTypeOK
<1>8. Ordered'
  BY <1>3, <1>5 DEF IInv, Ordered
<1>9. Truthful' /\ Kept'
  BY <1>3 DEF IInv, Truthful, Kept
<1>10. Called' /\ EndsForCause'
  <2>1. /\ task'[h] \in {"waiting", "handling"}
        /\ task'[h] = "handling" => handled'[h] # << >>
        /\ \A g \in Handlers \ {h} : task'[g] = task[g] /\ handled'[g] = handled[g]
    <3>1. Append(handled[h], pos) # << >>
      BY <1>3
    <3> QED
      BY <1>3, <1>6, <3>1 DEF IInv, BusTypeOK
  <2> QED
    BY <1>3, <1>5, <2>1 DEF IInv, Called, EndsForCause
<1>11. GaplessDelivery'
  <2>1. /\ ToSet(handled[h]) = {p \in joined[h]..(pos - 1) : published[p + 1] = Wants[h]}
        /\ Ascending(handled[h])
    BY <1>1, <1>3 DEF IInv, GaplessDelivery, Wanted
  <2>2. Wanted(h, joined[h], next[h])' = {p \in joined[h]..pos : published[p + 1] = Wants[h]}
    BY <1>3, <1>5 DEF Wanted
  <2>3. joined[h]..pos = (joined[h]..(pos - 1)) \cup {pos}
    BY <1>3
  <2>4. ToSet(handled'[h]) = Wanted(h, joined[h], next[h])' /\ Ascending(handled'[h])
    <3>1. CASE published[pos + 1] = Wants[h]
      <4>1. handled'[h] = Append(handled[h], pos)
        BY <1>6, <3>1 DEF IInv, BusTypeOK
      <4>2. \A d \in ToSet(handled[h]) : d < pos
        BY <1>3, <2>1
      <4>3. ToSet(handled'[h]) = ToSet(handled[h]) \cup {pos} /\ Ascending(handled'[h])
        BY <1>3, <2>1, <4>1, <4>2, Extended
      <4> QED
        BY <2>1, <2>2, <2>3, <3>1, <4>3
    <3>2. CASE published[pos + 1] # Wants[h]
      <4>1. handled'[h] = handled[h]
        BY <1>6, <3>2
      <4> QED
        BY <2>1, <2>2, <2>3, <3>2, <4>1
    <3> QED
      BY <3>1, <3>2
  <2>5. ASSUME NEW g \in Handlers \ {h}
        PROVE  handled'[g] = handled[g] /\ Wanted(g, joined[g], next[g])' = Wanted(g, joined[g], next[g])
    BY <1>3, <1>5, <1>6 DEF IInv, BusTypeOK, Wanted
  <2> QED
    BY <2>4, <2>5 DEF IInv, GaplessDelivery, Ascending
<1> QED
  BY <1>7, <1>8, <1>9, <1>10, <1>11 DEF IInv

-----------------------------------------------------------------------------
(* Theorems                                                                 *)

(* The inductive invariant holds in every state of every behaviour.         *)
THEOREM Invariant == BusSpec => []IInv
<1>1. IInv /\ [BusNext]_busVars => IInv'
  <2> SUFFICES ASSUME IInv, [BusNext]_busVars PROVE IInv'
    OBVIOUS
  <2>1. CASE UNCHANGED busVars
    BY <2>1 DEF busVars, IInv, BusTypeOK, Ordered, Truthful, Kept, Called, GaplessDelivery, Wanted, Ascending, EndsForCause
  <2> QED
    BY <2>1, InvPublish, InvRegister, InvGoesOn, InvDispatch DEF BusNext, HandlerStep
<1> QED
  BY <1>1, InvInit, PTL DEF BusSpec

(* However publishers, receivers and registrations interleave, a handler is *)
(* called with exactly the events of its type published while it was        *)
(* subscribed, up to where its receiver stands, once each and in order; and *)
(* its subscription ends only by its own panic or by falling more than      *)
(* Capacity events behind.                                                  *)
THEOREM DeliverySound == BusSpec => []DeliveryIsExact
<1>1. IInv => DeliveryIsExact
  BY DEF IInv, DeliveryIsExact
<1> QED
  BY <1>1, Invariant, PTL
=============================================================================
