------------------------------ MODULE EventBus ------------------------------
(***************************************************************************)
(* The in-process event bus of src/src/core/event_bus.rs: a broadcast      *)
(* channel that every subscribed handler reads on a task of its own.       *)
(*                                                                         *)
(* The channel (tokio::sync::broadcast) keeps the last Capacity events in  *)
(* a ring; a reader that fell behind the ring gets an error, and the loop  *)
(* of register_handler ends on the first error. A handler that panics ends *)
(* its task too. Publishers, readers and registrations interleave freely.  *)
(***************************************************************************)
EXTENDS Integers, Sequences, FiniteSets, SequencesExt

CONSTANTS
  Handlers,   (* Subscriptions: one per handler registered on the bus.     *)
  Types,      (* Event types.                                              *)
  Wants,      (* Wants[h]: the event type handler h downcasts to.          *)
  Capacity,   (* Slots of the ring (EventBus::init asks for 1024).         *)
  MaxEvents,  (* Events published in a behaviour, at most.                 *)
  Fragile     (* Handlers whose handle() may panic.                        *)

ASSUME EventBusAssumption ==
  /\ Capacity \in Nat \ {0}
  /\ MaxEvents \in Nat
  /\ Wants \in [Handlers -> Types]
  /\ Fragile \subseteq Handlers

VARIABLES
  ring,       (* ring[s]: the event in slot s of the channel.              *)
  tail,       (* Position of the next event the channel accepts.           *)
  next,       (* next[h]: position the receiver of h reads next.           *)
  task,       (* task[h]: where the task of h stands.                        *)
  published,  (* History: the types of the accepted events, in order.      *)
  joined,     (* joined[h]: history, the position h subscribed at.         *)
  handled     (* handled[h]: history, the positions h was called with.     *)

busVars == <<ring, tail, next, task, published, joined, handled>>

Slots == 0..(Capacity - 1)
Events == [pos : Nat, type : Types]
NoEvent == [pos |-> -1, type |-> CHOOSE t \in Types : TRUE]
HandlerStates == {"unregistered", "waiting", "handling", "lagged", "panicked"}

BusTypeOK ==
  /\ ring \in [Slots -> Events \cup {NoEvent}]
  /\ tail \in 0..MaxEvents
  /\ next \in [Handlers -> 0..MaxEvents]
  /\ task \in [Handlers -> HandlerStates]
  /\ published \in Seq(Types)
  /\ joined \in [Handlers -> 0..MaxEvents]
  /\ handled \in [Handlers -> Seq(Nat)]

BusInit ==
  /\ ring = [s \in Slots |-> NoEvent]
  /\ tail = 0
  /\ next = [h \in Handlers |-> 0]
  /\ task = [h \in Handlers |-> "unregistered"]
  /\ published = << >>
  /\ joined = [h \in Handlers |-> 0]
  /\ handled = [h \in Handlers |-> << >>]

Alive(h) == task[h] \in {"waiting", "handling"}

(* A channel without receivers refuses the event; publish ignores that.     *)
Publish(type) ==
  /\ tail < MaxEvents
  /\ \E h \in Handlers : Alive(h)
  /\ ring' = [ring EXCEPT ![tail % Capacity] = [pos |-> tail, type |-> type]]
  /\ tail' = tail + 1
  /\ published' = Append(published, type)
  /\ UNCHANGED <<next, task, joined, handled>>

(* Mutation of RegisterHandler: the receiver starts one event too late.     *)
RegisterHandlerLate(h) ==
  /\ task[h] = "unregistered"
  /\ task' = [task EXCEPT ![h] = "waiting"]
  /\ next' = [next EXCEPT ![h] = tail + 1]
  /\ joined' = [joined EXCEPT ![h] = tail]
  /\ UNCHANGED <<ring, tail, published, handled>>

(* register_handler: subscribe, then spawn the task. Only what is published *)
(* from now on is seen.                                                     *)
RegisterHandler(h) ==
  /\ task[h] = "unregistered"
  /\ task' = [task EXCEPT ![h] = "waiting"]
  /\ next' = [next EXCEPT ![h] = tail]
  /\ joined' = [joined EXCEPT ![h] = tail]
  /\ UNCHANGED <<ring, tail, published, handled>>

(* What recv() finds in the slot the receiver of h reads next.              *)
Slot(h) == ring[next[h] % Capacity]
Ready(h) == next[h] < tail /\ Slot(h).pos = next[h]
Lagged(h) == next[h] < tail /\ Slot(h).pos # next[h]

(* Mutation of Deliver: an event of another type is not consumed.           *)
DeliverWanted(h) ==
  /\ task[h] = "waiting"
  /\ Ready(h)
  /\ Slot(h).type = Wants[h]
  /\ next' = [next EXCEPT ![h] = @ + 1]
  /\ task' = [task EXCEPT ![h] = "handling"]
  /\ handled' = [handled EXCEPT ![h] = Append(@, Slot(h).pos)]
  /\ UNCHANGED <<ring, tail, published, joined>>

(* The payload is dispatched: the handler runs if the downcast succeeds.    *)
Deliver(h) ==
  /\ task[h] = "waiting"
  /\ Ready(h)
  /\ next' = [next EXCEPT ![h] = @ + 1]
  /\ IF Slot(h).type = Wants[h]
     THEN /\ task' = [task EXCEPT ![h] = "handling"]
          /\ handled' = [handled EXCEPT ![h] = Append(@, Slot(h).pos)]
     ELSE UNCHANGED <<task, handled>>
  /\ UNCHANGED <<ring, tail, published, joined>>

(* Mutation of Lag: the loop goes on with the oldest event still there.     *)
LagResume(h) ==
  /\ task[h] = "waiting"
  /\ Lagged(h)
  /\ next' = [next EXCEPT ![h] = tail - Capacity]
  /\ UNCHANGED <<ring, tail, task, published, joined, handled>>

(* recv() returned Err(Lagged): the while-let ends, the task with it.       *)
Lag(h) ==
  /\ task[h] = "waiting"
  /\ Lagged(h)
  /\ task' = [task EXCEPT ![h] = "lagged"]
  /\ UNCHANGED <<ring, tail, next, published, joined, handled>>

Handled(h) ==
  /\ task[h] = "handling"
  /\ task' = [task EXCEPT ![h] = "waiting"]
  /\ UNCHANGED <<ring, tail, next, published, joined, handled>>

(* Mutation of Panic: one task runs the handlers of every subscription.     *)
PanicEverywhere(h) ==
  /\ task[h] = "handling"
  /\ h \in Fragile
  /\ task' = [g \in Handlers |-> IF Alive(g) THEN "panicked" ELSE task[g]]
  /\ UNCHANGED <<ring, tail, next, published, joined, handled>>

(* handle() panics: nothing catches it inside the task.                     *)
Panic(h) ==
  /\ task[h] = "handling"
  /\ h \in Fragile
  /\ task' = [task EXCEPT ![h] = "panicked"]
  /\ UNCHANGED <<ring, tail, next, published, joined, handled>>

HandlerStep(h) == Deliver(h) \/ Lag(h) \/ Handled(h) \/ Panic(h)

BusNext ==
  \/ \E type \in Types : Publish(type)
  \/ \E h \in Handlers : RegisterHandler(h) \/ HandlerStep(h)

(* The runtime polls every task and a handler returns; nobody has to        *)
(* publish or to register.                                                  *)
BusFairness == \A h \in Handlers : WF_busVars(HandlerStep(h))

BusSpec == BusInit /\ [][BusNext]_busVars /\ BusFairness
-----------------------------------------------------------------------------
(***************************************************************************)
(* Properties                                                              *)
(***************************************************************************)

(* The positions from first to last - 1 at which an event h wants was       *)
(* published.                                                               *)
Wanted(h, first, last) ==
  {pos \in first..(last - 1) : pos < tail /\ published[pos + 1] = Wants[h]}

Ascending(positions) ==
  \A i, j \in 1..Len(positions) : i < j => positions[i] < positions[j]

(* A handler is called with exactly the events of its type among those      *)
(* published between its registration and the event its receiver reads      *)
(* next, each once and in the order of publication: the ring overwriting    *)
(* its slots never makes a handler skip, repeat or mistake an event.        *)
GaplessDelivery ==
  \A h \in Handlers : /\ ToSet(handled[h]) = Wanted(h, joined[h], next[h])
                      /\ Ascending(handled[h])

(* A subscription ends only for what its own handler did: it panicked, or   *)
(* it let more than Capacity events pile up. Exactly Capacity events do not *)
(* end it, and no handler is ended by its neighbours.                       *)
EndsForCause ==
  \A h \in Handlers : /\ task[h] = "lagged" => tail - next[h] > Capacity
                      /\ task[h] = "panicked" => h \in Fragile /\ handled[h] # << >>

(* Every event published after a handler was registered is reached by its   *)
(* task, or the subscription has ended: a slow or dead neighbour delays     *)
(* nobody.                                                                  *)
EventuallyReached ==
  \A h \in Handlers, pos \in 0..(MaxEvents - 1) :
    (Alive(h) /\ next[h] <= pos /\ pos < tail) ~> (next[h] > pos \/ ~ Alive(h))

(* A handler gets all of its events as long as it is subscribed, and is     *)
(* subscribed as long as it keeps up.                                       *)
DeliveryIsExact == BusTypeOK /\ GaplessDelivery /\ EndsForCause
=============================================================================
