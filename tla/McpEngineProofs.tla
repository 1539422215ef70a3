-------------------------- MODULE McpEngineProofs --------------------------
(***************************************************************************)
(* Theorems about McpEngine for every set of calls, tools, resources and   *)
(* administrators, every number of registrations and every capacity.       *)
(***************************************************************************)
EXTENDS McpEngine, FiniteSetTheorems, TLAPS

-----------------------------------------------------------------------------
(* The parts of the inductive invariant.                                    *)

HasSlot == {"fetched", "enabled", "permitted"}

(* A dispatch knows its message, and holds a slot from the look-up to the   *)
(* end of the invocation.                                                   *)
Bound(c) ==
  /\ pc[c] # "idle" => call[c] \in Messages
  /\ pc[c] \in HasSlot => call[c].method = "tools/call"
  /\ pc[c] \in HasSlot \/ (pc[c] = "invoking" /\ call[c].method = "tools/call") => at[c] # 0
  /\ pc[c] = "record" => due[c] # << >>

TypeInv == EngineTypeOK /\ \A c \in Calls : Bound(c)

(* A slot knows the name it is registered under.                            *)
SlotsNamed == \A t \in Tools : Registered(t) => slots[tools[t]].tool = t

(* What is closed to call c is not open under its name; the slot c has      *)
(* fetched carries the name c asked for and is off if that name is closed;  *)
(* behind the switch, c asks for nothing that is closed.                    *)
Switched(c) ==
  /\ \A t \in closed[c] : ~ Open(t)
  /\ pc[c] \in HasSlot => slots[at[c]].tool = call[c].target
  /\ pc[c] = "fetched" /\ call[c].target \in closed[c] => ~ slots[at[c]].enabled
  /\ pc[c] \in Passed /\ call[c].method = "tools/call" => call[c].target \notin closed[c]

(* Names are only collected, not yet looked up, during the scan.            *)
ListedOpen(c) ==
  /\ pc[c] # "scan" => listed[c] \cap closed[c] = {}
  /\ pc[c] = "idle" => listed[c] = {}

(* The role was checked on the slot c still holds.                          *)
RoleChecked(c) ==
  /\ pc[c] = "permitted" => Permits(c, at[c])
  /\ pc[c] = "invoking" /\ call[c].method = "tools/call" => Permits(c, at[c])
  /\ /\ pc[c] = "invoking" /\ call[c].method = "resources/read"
     /\ call[c].target \in Gated
     => c \in Privileged

Safe(c) == Switched(c) /\ ListedOpen(c) /\ RoleChecked(c)

IInv == TypeInv /\ SlotsNamed /\ \A c \in Calls : Safe(c)

-----------------------------------------------------------------------------
(* Types.                                                                   *)

(* Replacing an element of a sequence.                                      *)
LEMMA SeqUpdate ==
  ASSUME NEW S, NEW q \in Seq(S), NEW i \in 1..Len(q), NEW x \in S
  PROVE  LET p == [q EXCEPT ![i] = x] IN
         /\ p \in Seq(S) /\ Len(p) = Len(q)
         /\ \A j \in 1..Len(q) : p[j] = IF j = i THEN x ELSE q[j]
OBVIOUS

LEMMA RequestType ==
  ASSUME NEW r \in Requests
  PROVE  /\ r.notif \in BOOLEAN
         /\ r.target \in Tools \cup Resources \cup Prompts \cup {Unknown}
         /\ r.method = "tools/call" => r.target \in Tools \cup {Unknown}
BY DEF Requests

(* What the step of a call that leaves the registry's names alone may do to *)
(* the slots: nothing that other calls decide on.                           *)
Counted ==
  /\ Len(slots') = Len(slots)
  /\ slots' \in Seq(Slots)
  /\ \A s \in 1..Len(slots) : /\ slots'[s].tool = slots[s].tool
                              /\ slots'[s].gated = slots[s].gated
                              /\ slots'[s].enabled = slots[s].enabled

LEMMA CountedSame ==
  ASSUME EngineTypeOK, UNCHANGED slots
  PROVE  Counted
BY DEF EngineTypeOK, Counted

LEMMA CountedDeny ==
  ASSUME EngineTypeOK, NEW c \in Calls, at[c] # 0, Deny(c)
  PROVE  Counted
<1> DEFINE s == at[c]
<1>1. s \in 1..Len(slots) /\ slots \in Seq(Slots) /\ Len(slots) \in Nat
  BY DEF EngineTypeOK
<1>2. slots[s] \in Slots
  BY <1>1
<1>3. slots' = [slots EXCEPT ![s] = [slots[s] EXCEPT !.denied = slots[s].denied + 1]]
  BY DEF Deny
<1>4. [slots[s] EXCEPT !.denied = slots[s].denied + 1] \in Slots
  BY <1>2 DEF Slots
<1> DEFINE new == [slots[s] EXCEPT !.denied = slots[s].denied + 1]
<1>5. new.tool = slots[s].tool /\ new.gated = slots[s].gated /\ new.enabled = slots[s].enabled
  BY <1>2 DEF Slots
<1> HIDE DEF new
<1>6. /\ slots' \in Seq(Slots) /\ Len(slots') = Len(slots)
      /\ \A j \in 1..Len(slots) : slots'[j] = IF j = s THEN new ELSE slots[j]
  BY <1>1, <1>3, <1>4, SeqUpdate DEF new
<1> QED
  BY <1>5, <1>6 DEF Counted

LEMMA CountedReturns ==
  ASSUME EngineTypeOK, NEW c \in Calls, at[c] # 0, NEW outcome \in {"ok", "failed"},
         ToolReturns(c, outcome)
  PROVE  Counted
<1> DEFINE s == at[c]
           x == [slots[s] EXCEPT !.invocations = slots[s].invocations + 1]
           f == IF outcome = "failed" THEN slots[s].failures + 1 ELSE slots[s].failures
           y == [x EXCEPT !.failures = f]
<1>1. s \in 1..Len(slots) /\ slots \in Seq(Slots) /\ Len(slots) \in Nat
  BY DEF EngineTypeOK
<1>2. slots[s] \in Slots
  BY <1>1
<1>3. y \in Slots /\ y.tool = slots[s].tool /\ y.gated = slots[s].gated /\ y.enabled = slots[s].enabled
  <2>1. x \in Slots /\ x.tool = slots[s].tool /\ x.gated = slots[s].gated /\ x.enabled = slots[s].enabled
    BY <1>2 DEF Slots
  <2>2. f \in Nat
    BY <1>2 DEF Slots
  <2> HIDE DEF x, f
  <2> QED
    BY <2>1, <2>2 DEF Slots
<1>4. slots' = [slots EXCEPT ![s] = y]
  BY <1>1, <1>2 DEF ToolReturns, Slots
<1> HIDE DEF y
<1>5. /\ slots' \in Seq(Slots) /\ Len(slots') = Len(slots)
      /\ \A j \in 1..Len(slots) : slots'[j] = IF j = s THEN y ELSE slots[j]
  BY <1>1, <1>3, <1>4, SeqUpdate
<1> QED
  BY <1>3, <1>5 DEF Counted

LEMMA RegisteredSlots ==
  ASSUME EngineTypeOK, NEW t \in Tools, NEW schema \in Schemas, RegisterTool(t, schema)
  PROVE  /\ slots' \in Seq(Slots)
         /\ Len(slots') = Len(slots) + 1
         /\ \A s \in 1..Len(slots) : slots'[s] = slots[s]
         /\ slots'[Len(slots) + 1].enabled = schema.enabled
         /\ tools' = [tools EXCEPT ![t] = Len(slots) + 1]
         /\ schema.enabled \in BOOLEAN
<1>1. schema \in [gated : BOOLEAN, enabled : BOOLEAN]
  BY McpEngineAssumption
<1> DEFINE new == [tool |-> t, gated |-> schema.gated, enabled |-> schema.enabled,
                   invocations |-> 0, failures |-> 0, denied |-> 0]
<1>2. new \in Slots /\ new.enabled = schema.enabled
  BY <1>1 DEF Slots
<1>3. slots' = Append(slots, new) /\ tools' = [tools EXCEPT ![t] = Len(slots) + 1]
  BY DEF RegisterTool
<1>4. slots \in Seq(Slots)
  BY DEF EngineTypeOK
<1> HIDE DEF new
<1> QED
  BY <1>1, <1>2, <1>3, <1>4

LEMMA StoredSlots ==
  ASSUME EngineTypeOK, NEW a \in Operators, ToggleStore(a)
  PROVE  /\ slots' \in Seq(Slots)
         /\ Len(slots') = Len(slots)
         /\ toggles[a].slot \in 1..Len(slots)
         /\ toggles[a].value \in BOOLEAN
         /\ slots[toggles[a].slot].tool \in Tools
         /\ \A s \in 1..Len(slots) :
              /\ slots'[s].gated = slots[s].gated
              /\ slots'[s].tool = slots[s].tool
              /\ slots'[s].enabled =
                   IF s = toggles[a].slot THEN toggles[a].value ELSE slots[s].enabled
<1> DEFINE s0 == toggles[a].slot
           v == toggles[a].value
           new == [slots[s0] EXCEPT !.enabled = v]
<1>1. s0 \in 1..Len(slots) /\ slots \in Seq(Slots) /\ Len(slots) \in Nat /\ v \in BOOLEAN
  BY DEF EngineTypeOK, ToggleStore
<1>2. slots[s0] \in Slots
  BY <1>1
<1>3. /\ new \in Slots /\ new.enabled = v
      /\ new.tool = slots[s0].tool /\ new.gated = slots[s0].gated
  BY <1>1, <1>2 DEF Slots
<1>4. slots' = [slots EXCEPT ![s0] = new]
  BY <1>1, <1>2 DEF ToggleStore
<1>5. slots[s0].tool \in Tools
  BY <1>2 DEF Slots
<1> HIDE DEF new
<1>6. /\ slots' \in Seq(Slots) /\ Len(slots') = Len(slots)
      /\ \A j \in 1..Len(slots) : slots'[j] = IF j = s0 THEN new ELSE slots[j]
  BY <1>1, <1>3, <1>4, SeqUpdate
<1> QED
  BY <1>1, <1>3, <1>5, <1>6

LEMMA TypeInit == EngineInit => TypeInv
BY McpEngineAssumption DEF EngineInit, TypeInv, EngineTypeOK, Bound, NoRequest, NoToggle, States, HasSlot

(* Recording, refusing and answering: what concludes a dispatch.            *)
LEMMA ConcludeType ==
  ASSUME TypeInv, NEW c \in Calls, NEW o \in Seq(Outcomes), Conclude(c, o)
  PROVE  /\ due' \in [Calls -> Seq(Outcomes)]
         /\ pc' \in [Calls -> States]
         /\ pc'[c] \in {"done", "record"}
         /\ pc'[c] = "record" => due'[c] # << >>
         /\ \A d \in Calls \ {c} : pc'[d] = pc[d] /\ due'[d] = due[d]
BY DEF TypeInv, EngineTypeOK, Conclude, Goto, States

LEMMA GotoType ==
  ASSUME TypeInv, NEW c \in Calls, NEW state \in States, Goto(c, state)
  PROVE  /\ pc' \in [Calls -> States]
         /\ pc'[c] = state
         /\ \A d \in Calls \ {c} : pc'[d] = pc[d]
BY DEF TypeInv, EngineTypeOK, Goto

(* What a call may record after Err.                                        *)
LEMMA EchoType ==
  ASSUME TypeInv, NEW c \in Calls
  PROVE  /\ Echo(c) \in Seq(Outcomes)
         /\ \A o \in Outcomes : <<o>> \o Echo(c) \in Seq(Outcomes) /\ <<o>> \in Seq(Outcomes)
<1>1. << >> \in Seq(Outcomes) /\ <<"failed">> \in Seq(Outcomes)
  BY DEF Outcomes
<1>2. Echo(c) \in Seq(Outcomes)
  BY <1>1 DEF Echo
<1>3. ASSUME NEW o \in Outcomes
      PROVE  <<o>> \in Seq(Outcomes) /\ <<o>> \o Echo(c) \in Seq(Outcomes)
  BY <1>2
<1> QED
  BY <1>2, <1>3

(* The names of the outcomes.                                               *)
LEMMA OutcomeType ==
  /\ << >> \in Seq(Outcomes)
  /\ \A o \in {"ok", "denied", "invalid", "failed", "rejected"} : <<o>> \in Seq(Outcomes)
  /\ \A o \in {"ok", "denied", "invalid", "failed", "rejected"} : o \in Outcomes
BY DEF Outcomes

(* A step of one call that leaves the registry's names, the messages and    *)
(* the other calls alone keeps the types if its own part has them.          *)
LEMMA StepType ==
  ASSUME TypeInv, NEW c \in Calls, Counted,
         UNCHANGED <<tools, toggles, call, closed>>,
         at' \in [Calls -> 0..Len(slots)],
         names' \in [Calls -> SUBSET Tools], listed' \in [Calls -> SUBSET Tools],
         due' \in [Calls -> Seq(Outcomes)], pc' \in [Calls -> States],
         ring' \in Seq([call : Calls, outcome : Outcomes]), Len(ring') <= Capacity,
         trail' \in [Calls -> Seq(Outcomes)],
         \A d \in Calls \ {c} : pc'[d] = pc[d] /\ at'[d] = at[d] /\ due'[d] = due[d],
         Bound(c)'
  PROVE  TypeInv'
<1>1. EngineTypeOK'
  BY DEF TypeInv, EngineTypeOK, Counted
<1>2. ASSUME NEW d \in Calls \ {c}
      PROVE  Bound(d)'
  BY <1>2 DEF TypeInv, Bound
<1> QED
  BY <1>1, <1>2 DEF TypeInv

(* The steps that record nothing and look at no slot.                       *)
LEMMA PlainType ==
  ASSUME TypeInv, NEW c \in Calls, UNCHANGED <<registry, call, at, auditLog, closed>>,
         names' \in [Calls -> SUBSET Tools], listed' \in [Calls -> SUBSET Tools],
         due' \in [Calls -> Seq(Outcomes)], pc' \in [Calls -> States],
         \A d \in Calls \ {c} : pc'[d] = pc[d] /\ due'[d] = due[d],
         Bound(c)'
  PROVE  TypeInv'
<1>1. EngineTypeOK /\ Counted
  BY CountedSame DEF TypeInv, registry
<1>2. /\ UNCHANGED <<tools, toggles, call, closed>>
      /\ at' \in [Calls -> 0..Len(slots)]
      /\ ring' \in Seq([call : Calls, outcome : Outcomes]) /\ Len(ring') <= Capacity
      /\ trail' \in [Calls -> Seq(Outcomes)]
      /\ \A d \in Calls : at'[d] = at[d]
  BY <1>1 DEF EngineTypeOK, registry, auditLog
<1> QED
  BY <1>1, <1>2, StepType

(* A dispatch that ends before its tool is looked up.                       *)
LEMMA AnswerType ==
  ASSUME TypeInv, NEW c \in Calls, UNCHANGED <<registry, call, at, names, listed, auditLog, closed>>,
         pc[c] # "idle", NEW o \in Seq(Outcomes), Conclude(c, o)
  PROVE  TypeInv'
<1>1. EngineTypeOK
  BY DEF TypeInv
<1>2. /\ names' \in [Calls -> SUBSET Tools] /\ listed' \in [Calls -> SUBSET Tools]
  BY <1>1 DEF EngineTypeOK
<1>3. Bound(c)'
  BY ConcludeType DEF TypeInv, Bound, HasSlot
<1> QED
  BY <1>2, <1>3, PlainType, ConcludeType

LEMMA TypeRegister ==
  ASSUME TypeInv, NEW t \in Tools, NEW schema \in Schemas, RegisterTool(t, schema)
  PROVE  TypeInv'
<1>1. EngineTypeOK /\ Len(slots) < MaxSlots /\ Len(slots) \in Nat /\ MaxSlots \in Nat
  BY McpEngineAssumption DEF TypeInv, EngineTypeOK, RegisterTool
<1>2. /\ slots' \in Seq(Slots) /\ Len(slots') = Len(slots) + 1
      /\ tools' = [tools EXCEPT ![t] = Len(slots) + 1]
  BY <1>1, RegisteredSlots
<1>3. closed' \in [Calls -> SUBSET Tools]
  BY <1>1 DEF RegisterTool, Reopen, EngineTypeOK
<1>4. UNCHANGED <<call, pc, at, names, listed, due, ring, trail, toggles>>
  BY DEF RegisterTool, auditLog
<1>5. EngineTypeOK'
  BY <1>1, <1>2, <1>3, <1>4 DEF EngineTypeOK
<1>6. ASSUME NEW c \in Calls
      PROVE  Bound(c)'
  BY <1>4 DEF TypeInv, Bound
<1> QED
  BY <1>5, <1>6 DEF TypeInv

LEMMA TypeToggleFetch ==
  ASSUME TypeInv, NEW a \in Operators, NEW t \in Tools, NEW value \in BOOLEAN,
         ToggleFetch(a, t, value)
  PROVE  TypeInv'
<1>1. EngineTypeOK /\ tools[t] \in 0..Len(slots)
  BY DEF TypeInv, EngineTypeOK
<1>2. toggles' \in [Operators -> [slot : 0..Len(slots), value : BOOLEAN]]
  BY <1>1 DEF EngineTypeOK, ToggleFetch
<1>3. UNCHANGED <<slots, tools, call, pc, at, names, listed, due, ring, trail, closed>>
  BY DEF ToggleFetch, auditLog
<1>4. EngineTypeOK'
  BY <1>1, <1>2, <1>3 DEF EngineTypeOK
<1>5. ASSUME NEW c \in Calls
      PROVE  Bound(c)'
  BY <1>3 DEF TypeInv, Bound
<1> QED
  BY <1>4, <1>5 DEF TypeInv

LEMMA TypeToggleStore ==
  ASSUME TypeInv, NEW a \in Operators, ToggleStore(a)
  PROVE  TypeInv'
<1>1. EngineTypeOK
  BY DEF TypeInv
<1>2. slots' \in Seq(Slots) /\ Len(slots') = Len(slots)
  BY <1>1, StoredSlots
<1>3. toggles' \in [Operators -> [slot : 0..Len(slots), value : BOOLEAN]]
  <2>1. NoToggle \in [slot : 0..Len(slots), value : BOOLEAN]
    BY <1>1 DEF NoToggle, EngineTypeOK
  <2> QED
    BY <1>1, <2>1 DEF ToggleStore, EngineTypeOK
<1>4. closed' \in [Calls -> SUBSET Tools]
  BY <1>1 DEF ToggleStore, Reopen, EngineTypeOK
<1>5. UNCHANGED <<tools, call, pc, at, names, listed, due, ring, trail>>
  BY DEF ToggleStore, auditLog
<1>6. EngineTypeOK'
  BY <1>1, <1>2, <1>3, <1>4, <1>5 DEF EngineTypeOK
<1>7. ASSUME NEW c \in Calls
      PROVE  Bound(c)'
  BY <1>5 DEF TypeInv, Bound
<1> QED
  BY <1>6, <1>7 DEF TypeInv

LEMMA TypeArrive ==
  ASSUME TypeInv, NEW c \in Calls, NEW r \in Messages, Arrive(c, r)
  PROVE  TypeInv'
<1>1. EngineTypeOK /\ r \in Requests
  BY McpEngineAssumption DEF TypeInv
<1>2. /\ pc' \in [Calls -> States] /\ pc'[c] = "dispatched"
      /\ \A d \in Calls \ {c} : pc'[d] = pc[d]
  BY GotoType DEF Arrive, States
<1>3. /\ call' \in [Calls -> Requests \cup {NoRequest}] /\ call'[c] = r
      /\ \A d \in Calls \ {c} : call'[d] = call[d]
  BY <1>1 DEF Arrive, EngineTypeOK
<1>4. closed' \in [Calls -> SUBSET Tools]
  <2>1. {t \in About(r) : ~ Open(t)} \in SUBSET Tools
    BY DEF About
  <2> QED
    BY <1>1, <2>1 DEF Arrive, EngineTypeOK
<1>5. UNCHANGED <<slots, tools, toggles, at, names, listed, due, ring, trail>>
  BY DEF Arrive, registry, auditLog
<1>6. EngineTypeOK'
  BY <1>1, <1>2, <1>3, <1>4, <1>5 DEF EngineTypeOK
<1>7. ASSUME NEW d \in Calls
      PROVE  Bound(d)'
  BY <1>2, <1>3, <1>5 DEF TypeInv, Bound, HasSlot
<1> QED
  BY <1>6, <1>7 DEF TypeInv

LEMMA TypeRecord ==
  ASSUME TypeInv, NEW c \in Calls, RecordOutcome(c)
  PROVE  TypeInv'
<1>1. EngineTypeOK /\ Capacity \in Nat \ {0}
  BY McpEngineAssumption DEF TypeInv
<1>2. due[c] \in Seq(Outcomes) /\ due[c] # << >>
  BY <1>1 DEF TypeInv, Bound, RecordOutcome, EngineTypeOK
<1>3. Head(due[c]) \in Outcomes /\ Tail(due[c]) \in Seq(Outcomes)
  BY <1>2
<1>4. ring' \in Seq([call : Calls, outcome : Outcomes]) /\ Len(ring') <= Capacity
  <2> DEFINE entry == [call |-> c, outcome |-> Head(due[c])]
  <2>1. entry \in [call : Calls, outcome : Outcomes]
    BY <1>3
  <2>2. ring' = Append(IF Len(ring) >= Capacity THEN Tail(ring) ELSE ring, entry)
    BY DEF RecordOutcome
  <2> DEFINE kept == IF Len(ring) >= Capacity THEN Tail(ring) ELSE ring
             Entries == [call : Calls, outcome : Outcomes]
  <2>3. ring \in Seq(Entries) /\ Len(ring) <= Capacity /\ Len(ring) \in Nat
    BY <1>1 DEF EngineTypeOK
  <2> HIDE DEF entry, Entries
  <2>4. kept \in Seq(Entries) /\ Len(kept) < Capacity
    <3>1. CASE Len(ring) >= Capacity
      BY <1>1, <2>3, <3>1
    <3>2. CASE ~ Len(ring) >= Capacity
      BY <1>1, <2>3, <3>2
    <3> QED
      BY <3>1, <3>2
  <2> HIDE DEF kept
  <2>5. ring' \in Seq(Entries) /\ Len(ring') = Len(kept) + 1 /\ Len(kept) \in Nat
    BY <2>1, <2>2, <2>4 DEF kept, Entries
  <2> QED
    BY <1>1, <2>4, <2>5 DEF Entries
<1>5. trail' \in [Calls -> Seq(Outcomes)]
  BY <1>1, <1>3 DEF RecordOutcome, EngineTypeOK
<1>6. Conclude(c, Tail(due[c]))
  BY DEF RecordOutcome
<1>7. /\ Counted
      /\ UNCHANGED <<tools, toggles, call, closed, at, names, listed>>
  BY <1>1, CountedSame DEF RecordOutcome, registry
<1>8. Bound(c)'
  BY <1>3, <1>6, <1>7, ConcludeType DEF TypeInv, Bound, HasSlot, RecordOutcome
<1>9. /\ due' \in [Calls -> Seq(Outcomes)] /\ pc' \in [Calls -> States]
      /\ \A d \in Calls \ {c} : pc'[d] = pc[d] /\ due'[d] = due[d]
  BY <1>3, <1>6, ConcludeType
<1>10. /\ at' \in [Calls -> 0..Len(slots)] /\ names' \in [Calls -> SUBSET Tools]
       /\ listed' \in [Calls -> SUBSET Tools]
  BY <1>1, <1>7 DEF EngineTypeOK
<1> QED
  BY <1>4, <1>5, <1>7, <1>8, <1>9, <1>10, StepType

LEMMA TypeFetchSlot ==
  ASSUME TypeInv, NEW c \in Calls, FetchSlot(c)
  PROVE  TypeInv'
<1> DEFINE t == call[c].target
<1>1. EngineTypeOK /\ call[c] \in Requests /\ pc[c] = "dispatched" /\ call[c].method = "tools/call"
  BY McpEngineAssumption DEF TypeInv, Bound, FetchSlot
<1>2. UNCHANGED <<registry, call, names, listed, auditLog, closed>>
  BY DEF FetchSlot
<1>3. CASE /\ Conclude(c, Echo(c)) \/ Conclude(c, <<"invalid">> \o Echo(c))
           /\ UNCHANGED at
  BY <1>1, <1>2, <1>3, AnswerType, EchoType, OutcomeType
<1>4. CASE /\ t # Unknown /\ Registered(t) /\ at' = [at EXCEPT ![c] = tools[t]]
           /\ Goto(c, "fetched") /\ UNCHANGED due
  <2>1. t \in Tools /\ tools[t] \in 0..Len(slots) /\ tools[t] # 0
    BY <1>1, <1>4, RequestType DEF EngineTypeOK, Registered
  <2>2. /\ at' \in [Calls -> 0..Len(slots)] /\ at'[c] # 0
        /\ \A d \in Calls \ {c} : at'[d] = at[d]
    BY <1>1, <1>4, <2>1 DEF EngineTypeOK
  <2>3. /\ pc' \in [Calls -> States] /\ pc'[c] = "fetched"
        /\ \A d \in Calls \ {c} : pc'[d] = pc[d]
    BY <1>4, GotoType DEF States
  <2>4. /\ Counted /\ UNCHANGED <<tools, toggles, call, closed>>
        /\ names' \in [Calls -> SUBSET Tools] /\ listed' \in [Calls -> SUBSET Tools]
        /\ due' \in [Calls -> Seq(Outcomes)] /\ due' = due
        /\ ring' \in Seq([call : Calls, outcome : Outcomes]) /\ Len(ring') <= Capacity
        /\ trail' \in [Calls -> Seq(Outcomes)]
    BY <1>1, <1>2, <1>4, CountedSame DEF EngineTypeOK, registry, auditLog
  <2>5. Bound(c)'
    BY <1>1, <2>2, <2>3, <2>4 DEF TypeInv, Bound, HasSlot
  <2> QED
    BY <2>2, <2>3, <2>4, <2>5, StepType
<1> QED
  BY <1>3, <1>4 DEF FetchSlot

(* What the checks of a call and the return of its tool have in common.     *)
LEMMA CheckType ==
  ASSUME TypeInv, NEW c \in Calls, Counted, pc[c] \in HasSlot \cup {"invoking"},
         UNCHANGED <<tools, toggles, call, at, names, listed, auditLog, closed>>,
         \/ \E o \in Seq(Outcomes) : Conclude(c, o)
         \/ pc[c] \in HasSlot /\ \E state \in {"enabled", "permitted", "invoking"} : Goto(c, state) /\ UNCHANGED due
  PROVE  TypeInv'
<1>1. EngineTypeOK
  BY DEF TypeInv
<1>2. /\ at' \in [Calls -> 0..Len(slots)] /\ names' \in [Calls -> SUBSET Tools]
      /\ listed' \in [Calls -> SUBSET Tools]
      /\ ring' \in Seq([call : Calls, outcome : Outcomes]) /\ Len(ring') <= Capacity
      /\ trail' \in [Calls -> Seq(Outcomes)]
      /\ UNCHANGED <<tools, toggles, call, closed>> /\ at' = at
  BY <1>1 DEF EngineTypeOK, auditLog
<1>3. CASE \E o \in Seq(Outcomes) : Conclude(c, o)
  <2>1. PICK o \in Seq(Outcomes) : Conclude(c, o)
    BY <1>3
  <2>2. Bound(c)'
    BY <1>2, <2>1, ConcludeType DEF TypeInv, Bound, HasSlot
  <2> QED
    BY <1>2, <2>1, <2>2, ConcludeType, StepType
<1>4. CASE /\ pc[c] \in HasSlot
           /\ \E state \in {"enabled", "permitted", "invoking"} : Goto(c, state) /\ UNCHANGED due
  <2>1. PICK state \in {"enabled", "permitted", "invoking"} : Goto(c, state) /\ UNCHANGED due
    BY <1>4
  <2>2. /\ pc' \in [Calls -> States] /\ pc'[c] = state
        /\ \A d \in Calls \ {c} : pc'[d] = pc[d]
    BY <2>1, GotoType DEF States
  <2>3. Bound(c)'
    BY <1>2, <1>4, <2>1, <2>2 DEF TypeInv, Bound, HasSlot
  <2>4. due' \in [Calls -> Seq(Outcomes)] /\ due' = due
    BY <1>1, <2>1 DEF EngineTypeOK
  <2> QED
    BY <1>2, <2>2, <2>3, <2>4, StepType
<1> QED
  BY <1>3, <1>4

LEMMA ChecksCounted ==
  ASSUME TypeInv, NEW c \in Calls, CheckSwitch(c) \/ CheckRole(c) \/ CheckSchema(c)
  PROVE  /\ Counted /\ pc[c] \in HasSlot
         /\ UNCHANGED <<tools, toggles, call, at, names, listed, auditLog, closed>>
         /\ \/ \E o \in Seq(Outcomes) : Conclude(c, o)
            \/ \E state \in {"enabled", "permitted", "invoking"} : Goto(c, state) /\ UNCHANGED due
<1>1. EngineTypeOK /\ pc[c] \in HasSlot /\ at[c] # 0
  BY DEF TypeInv, Bound, CheckSwitch, CheckRole, CheckSchema, HasSlot
<1>2. UNCHANGED <<tools, toggles, call, at, names, listed, auditLog, closed>>
  BY DEF CheckSwitch, CheckRole, CheckSchema
<1>3. \/ \E state \in {"enabled", "permitted", "invoking"} : Pass(c, state)
      \/ Deny(c)
      \/ Conclude(c, <<"invalid">> \o Echo(c)) /\ UNCHANGED slots
  BY DEF CheckSwitch, CheckRole, CheckSchema
<1>4. Counted
  BY <1>1, <1>3, CountedSame, CountedDeny DEF Pass
<1>5. \/ \E o \in Seq(Outcomes) : Conclude(c, o)
      \/ \E state \in {"enabled", "permitted", "invoking"} : Goto(c, state) /\ UNCHANGED due
  <2>1. <<"denied">> \o Echo(c) \in Seq(Outcomes) /\ <<"invalid">> \o Echo(c) \in Seq(Outcomes)
    BY EchoType, OutcomeType
  <2> QED
    BY <1>3, <2>1 DEF Pass, Deny
<1> QED
  BY <1>1, <1>2, <1>4, <1>5

LEMMA ReturnsCounted ==
  ASSUME TypeInv, NEW c \in Calls, NEW outcome \in {"ok", "failed"}, ToolReturns(c, outcome)
  PROVE  Counted /\ \E o \in Seq(Outcomes) : Conclude(c, o)
<1>1. EngineTypeOK /\ at[c] # 0
  BY DEF TypeInv, Bound, ToolReturns
<1>2. Counted
  BY <1>1, CountedReturns
<1>3. Conclude(c, <<outcome>>) /\ <<outcome>> \in Seq(Outcomes)
  BY OutcomeType DEF ToolReturns
<1> QED
  BY <1>2, <1>3

LEMMA TypeNext == TypeInv /\ [EngineNext]_engineVars => TypeInv'
<1> SUFFICES ASSUME TypeInv, [EngineNext]_engineVars
             PROVE  TypeInv'
  OBVIOUS
<1> USE DEF HasSlot
<1>1. EngineTypeOK
  BY DEF TypeInv
<1>2. ASSUME NEW c \in Calls
      PROVE  Echo(c) \in Seq(Outcomes)
  BY EchoType
<1>3. ASSUME NEW c \in Calls, RefuseCall(c) \/ Other(c)
      PROVE  TypeInv'
  <2>1. pc[c] # "idle" /\ UNCHANGED <<registry, call, at, names, listed, auditLog, closed>>
    BY <1>3 DEF RefuseCall, Other
  <2>2. \/ Conclude(c, <<"rejected">>) \/ Conclude(c, <<"invalid">>)
        \/ Conclude(c, << >>) \/ Conclude(c, Echo(c))
    BY <1>3 DEF RefuseCall, Other
  <2> QED
    BY <2>1, <2>2, <1>2, OutcomeType, AnswerType
<1>4. ASSUME NEW c \in Calls, CheckSwitch(c) \/ CheckRole(c) \/ CheckSchema(c)
      PROVE  TypeInv'
  BY <1>4, ChecksCounted, CheckType
<1>5. ASSUME NEW c \in Calls, NEW outcome \in {"ok", "failed"}, ToolReturns(c, outcome)
      PROVE  TypeInv'
  <2>1. /\ pc[c] \in HasSlot \cup {"invoking"}
        /\ UNCHANGED <<tools, toggles, call, at, names, listed, auditLog, closed>>
    BY <1>5 DEF ToolReturns
  <2> QED
    BY <1>5, <2>1, ReturnsCounted, CheckType
<1>6. ASSUME NEW c \in Calls, Read(c) \/ Prompt(c)
      PROVE  TypeInv'
  <2>1. /\ pc[c] = "dispatched" /\ call[c].method # "tools/call"
        /\ UNCHANGED <<registry, call, at, names, listed, auditLog, closed>>
    BY <1>6 DEF Read, Prompt
  <2>2. Conclude(c, Echo(c)) \/ (Goto(c, "invoking") /\ UNCHANGED due)
    BY <1>6 DEF Read, Prompt
  <2>3. CASE Goto(c, "invoking") /\ UNCHANGED due
    <3>1. /\ pc' \in [Calls -> States] /\ pc'[c] = "invoking"
          /\ \A d \in Calls \ {c} : pc'[d] = pc[d]
      BY <2>3, GotoType DEF States
    <3>2. /\ due' \in [Calls -> Seq(Outcomes)] /\ names' \in [Calls -> SUBSET Tools]
          /\ listed' \in [Calls -> SUBSET Tools]
      BY <1>1, <2>1, <2>3 DEF EngineTypeOK
    <3>3. Bound(c)'
      BY <2>1, <3>1 DEF TypeInv, Bound
    <3> QED
      BY <2>1, <2>3, <3>1, <3>2, <3>3, PlainType
  <2> QED
    BY <2>1, <2>2, <2>3, <1>2, AnswerType
<1>7. ASSUME NEW c \in Calls, AppReturns(c) \/ EndList(c)
      PROVE  TypeInv'
  <2>1. pc[c] # "idle" /\ UNCHANGED <<registry, call, at, names, listed, auditLog, closed>>
    BY <1>7 DEF AppReturns, EndList
  <2>2. Conclude(c, << >>) \/ Conclude(c, Echo(c))
    BY <1>7 DEF AppReturns, EndList
  <2> QED
    BY <2>1, <2>2, <1>2, OutcomeType, AnswerType
<1>8. ASSUME NEW c \in Calls, StartList(c) \/ Scan(c) \/ EndScan(c) \/ Describe(c) \/ Unwind(c)
      PROVE  TypeInv'
  <2>1. /\ pc[c] # "idle" /\ UNCHANGED <<registry, call, at, auditLog, closed, due>>
        /\ names' \in [Calls -> SUBSET Tools] /\ listed' \in [Calls -> SUBSET Tools]
        /\ due' \in [Calls -> Seq(Outcomes)]
    <3>1. CASE StartList(c) \/ EndScan(c) \/ Unwind(c)
      BY <1>1, <3>1 DEF StartList, EndScan, Unwind, EngineTypeOK
    <3>2. CASE Scan(c)
      <4>1. PICK t \in names[c] :
              /\ names' = [names EXCEPT ![c] = names[c] \ {t}]
              /\ listed' = [listed EXCEPT ![c] =
                   IF Registered(t) /\ Permits(c, tools[t]) THEN listed[c] \cup {t} ELSE listed[c]]
        BY <3>2 DEF Scan
      <4>2. t \in Tools
        BY <1>1, <4>1 DEF EngineTypeOK
      <4> QED
        BY <1>1, <3>2, <4>1, <4>2 DEF Scan, EngineTypeOK
    <3>3. CASE Describe(c)
      <4>1. PICK t \in names[c] :
              /\ names' = [names EXCEPT ![c] = names[c] \ {t}]
              /\ listed' = [listed EXCEPT ![c] = IF Open(t) THEN listed[c] \cup {t} ELSE listed[c]]
        BY <3>3 DEF Describe
      <4>2. t \in Tools
        BY <1>1, <4>1 DEF EngineTypeOK
      <4> QED
        BY <1>1, <3>3, <4>1, <4>2 DEF Describe, EngineTypeOK
    <3> QED
      BY <1>8, <3>1, <3>2, <3>3
  <2>2. UNCHANGED pc \/ \E state \in {"scan", "describe", "unwound"} : Goto(c, state)
    BY <1>8 DEF StartList, Scan, EndScan, Describe, Unwind
  <2>3. /\ pc' \in [Calls -> States] /\ pc'[c] \in {pc[c], "scan", "describe", "unwound"}
        /\ \A d \in Calls \ {c} : pc'[d] = pc[d]
    BY <1>1, <2>2, GotoType DEF States, EngineTypeOK
  <2>4. Bound(c)'
    BY <2>1, <2>3 DEF TypeInv, Bound
  <2> QED
    BY <2>1, <2>3, <2>4, PlainType
<1>9. CASE UNCHANGED engineVars
  BY <1>1, <1>9 DEF engineVars, registry, auditLog, TypeInv, EngineTypeOK, Bound
<1> QED
  BY <1>3, <1>4, <1>5, <1>6, <1>7, <1>8, <1>9, TypeRegister, TypeToggleFetch,
     TypeToggleStore, TypeArrive, TypeRecord, TypeFetchSlot DEF EngineNext, Engine, Returns
-----------------------------------------------------------------------------
(* Safety.                                                                  *)

(* A counted step changes nothing a decision depends on.                    *)
LEMMA OpenSame ==
  ASSUME EngineTypeOK, Counted, tools' = tools
  PROVE  /\ \A t \in Tools : Open(t)' = Open(t)
         /\ SlotsNamed => SlotsNamed'
         /\ \A c \in Calls, s \in 1..Len(slots) : Permits(c, s)' = Permits(c, s)
<1>1. ASSUME NEW t \in Tools, Registered(t)
      PROVE  tools[t] \in 1..Len(slots)
  BY <1>1 DEF EngineTypeOK, Registered
<1> QED
  BY <1>1 DEF Counted, Open, Registered, SlotsNamed, Permits

(* What a call has fetched exists.                                          *)
LEMMA HeldSlot ==
  ASSUME TypeInv, NEW c \in Calls,
         pc[c] \in HasSlot \/ (pc[c] = "invoking" /\ call[c].method = "tools/call")
  PROVE  at[c] \in 1..Len(slots)
BY DEF TypeInv, EngineTypeOK, Bound

(* A counted step in which a call and what it holds stay as they are.       *)
LEMMA SafeFrame ==
  ASSUME TypeInv, Counted, tools' = tools, NEW d \in Calls, Safe(d),
         pc'[d] = pc[d], at'[d] = at[d], call'[d] = call[d],
         listed'[d] = listed[d], closed'[d] = closed[d]
  PROVE  Safe(d)'
<1>1. EngineTypeOK /\ closed[d] \subseteq Tools
  BY DEF TypeInv, EngineTypeOK
<1>2. /\ \A t \in Tools : Open(t)' = Open(t)
      /\ \A s \in 1..Len(slots) : Permits(d, s)' = Permits(d, s)
  BY <1>1, OpenSame
<1>3. /\ pc[d] \in HasSlot \cup {"permitted", "fetched"} => at[d] \in 1..Len(slots)
      /\ pc[d] = "invoking" /\ call[d].method = "tools/call" => at[d] \in 1..Len(slots)
  BY HeldSlot DEF HasSlot
<1>4. Switched(d)'
  BY <1>1, <1>2, <1>3 DEF Safe, Switched, Counted
<1>5. ListedOpen(d)'
  BY DEF Safe, ListedOpen
<1>6. RoleChecked(d)'
  <2>1. pc[d] = "permitted" => Permits(d, at[d])'
    BY <1>2, <1>3 DEF Safe, RoleChecked, Permits, Counted
  <2>2. pc[d] = "invoking" /\ call[d].method = "tools/call" => Permits(d, at[d])'
    BY <1>2, <1>3 DEF Safe, RoleChecked, Permits, Counted
  <2> QED
    BY <2>1, <2>2 DEF Safe, RoleChecked
<1> QED
  BY <1>4, <1>5, <1>6 DEF Safe

(* A dispatch that is over, or has only to record.                          *)
LEMMA SafeSettled ==
  ASSUME TypeInv, Counted, tools' = tools, NEW c \in Calls, Safe(c), pc[c] # "scan",
         pc'[c] \in {"done", "record", "unwound"},
         call'[c] = call[c], listed'[c] = listed[c], closed'[c] = closed[c]
  PROVE  Safe(c)'
<1>1. EngineTypeOK /\ closed[c] \subseteq Tools
  BY DEF TypeInv, EngineTypeOK
<1>2. \A t \in Tools : Open(t)' = Open(t)
  BY <1>1, OpenSame
<1> QED
  BY <1>1, <1>2 DEF Safe, Switched, ListedOpen, RoleChecked, HasSlot, Passed

(* The step of call c alone is safe if c is.                                *)
LEMMA SafeStep ==
  ASSUME IInv, NEW c \in Calls, Counted, tools' = tools, UNCHANGED <<call, closed>>,
         \A d \in Calls \ {c} : pc'[d] = pc[d] /\ at'[d] = at[d] /\ listed'[d] = listed[d],
         Safe(c)', TypeInv'
  PROVE  IInv'
<1>1. TypeInv /\ EngineTypeOK
  BY DEF IInv, TypeInv
<1>2. SlotsNamed'
  BY <1>1, OpenSame DEF IInv
<1>3. ASSUME NEW d \in Calls \ {c}
      PROVE  Safe(d)'
  BY <1>1, <1>3, SafeFrame DEF IInv
<1> QED
  BY <1>2, <1>3 DEF IInv

LEMMA SafeInit == EngineInit => IInv
<1> SUFFICES ASSUME EngineInit PROVE IInv
  OBVIOUS
<1>1. TypeInv
  BY TypeInit
<1> QED
  BY <1>1 DEF EngineInit, IInv, SlotsNamed, Safe, Switched, ListedOpen, RoleChecked,
              Registered, Open, HasSlot, Passed
(* A tool is registered anew: opened for everybody, or born off.            *)
LEMMA SafeRegister ==
  ASSUME IInv, NEW t \in Tools, NEW schema \in Schemas, RegisterTool(t, schema)
  PROVE  IInv'
<1> DEFINE n == Len(slots) + 1
<1>1. TypeInv /\ EngineTypeOK /\ slots \in Seq(Slots) /\ Len(slots) \in Nat
  BY DEF IInv, TypeInv, EngineTypeOK
<1>2. /\ \A s \in 1..Len(slots) : slots'[s] = slots[s]
      /\ slots'[n].enabled = schema.enabled
      /\ tools' = [tools EXCEPT ![t] = n]
  BY <1>1, RegisteredSlots
<1>3. slots'[n].tool = t
  BY <1>1 DEF RegisterTool
<1>4. UNCHANGED <<call, pc, at, listed>>
  BY DEF RegisterTool
<1>5. \A c \in Calls : closed'[c] \subseteq closed[c] /\ (schema.enabled => t \notin closed'[c])
  BY <1>1 DEF RegisterTool, Reopen, EngineTypeOK
<1>6. \A u \in Tools : tools'[u] = (IF u = t THEN n ELSE tools[u]) /\ tools[u] \in 0..Len(slots)
  BY <1>1, <1>2 DEF EngineTypeOK
<1>7. SlotsNamed'
  BY <1>1, <1>2, <1>3, <1>6 DEF IInv, SlotsNamed, Registered
<1>8. ASSUME NEW u \in Tools
      PROVE  Open(u)' <=> IF u = t THEN schema.enabled ELSE Open(u)
  <2>1. CASE u = t
    <3>1. tools'[u] = n /\ n # 0
      BY <1>1, <1>6, <2>1
    <3> QED
      BY <1>2, <2>1, <3>1 DEF Open, Registered
  <2>2. CASE u # t
    <3>1. tools'[u] = tools[u] /\ (tools[u] # 0 => tools[u] \in 1..Len(slots))
      BY <1>1, <1>6, <2>2
    <3> QED
      BY <1>2, <2>2, <3>1 DEF Open, Registered
  <2> QED
    BY <2>1, <2>2
<1>9. ASSUME NEW c \in Calls
      PROVE  Safe(c)'
  <2>1. Safe(c) /\ closed[c] \subseteq Tools
    BY <1>1 DEF IInv, EngineTypeOK
  <2>2. /\ pc[c] \in HasSlot => at[c] \in 1..Len(slots)
        /\ pc[c] = "invoking" /\ call[c].method = "tools/call" => at[c] \in 1..Len(slots)
    BY <1>1, HeldSlot
  <2>3. \A u \in closed'[c] : ~ Open(u)'
    BY <1>5, <1>8, <2>1 DEF Safe, Switched
  <2>4. Switched(c)'
    BY <1>2, <1>4, <1>5, <2>1, <2>2, <2>3 DEF Safe, Switched, HasSlot
  <2>5. ListedOpen(c)'
    BY <1>4, <1>5, <2>1 DEF Safe, ListedOpen
  <2>6. RoleChecked(c)'
    BY <1>2, <1>4, <2>1, <2>2 DEF Safe, RoleChecked, Permits, HasSlot
  <2> QED
    BY <2>4, <2>5, <2>6 DEF Safe
<1> QED
  BY <1>1, <1>7, <1>9, TypeRegister DEF IInv

(* An administrator's value reaches the slot that was fetched: whoever is   *)
(* closed out of a name holds no slot of that name once it is enabled.      *)
LEMMA SafeToggleStore ==
  ASSUME IInv, NEW a \in Operators, ToggleStore(a)
  PROVE  IInv'
<1> DEFINE s0 == toggles[a].slot
<1>1. TypeInv /\ EngineTypeOK /\ Len(slots) \in Nat
  BY DEF IInv, TypeInv, EngineTypeOK
<1>2. /\ s0 \in 1..Len(slots)
      /\ \A s \in 1..Len(slots) :
           /\ slots'[s].gated = slots[s].gated
           /\ slots'[s].tool = slots[s].tool
           /\ slots'[s].enabled = IF s = s0 THEN toggles[a].value ELSE slots[s].enabled
  BY <1>1, StoredSlots
<1>3. UNCHANGED <<call, pc, at, listed, tools>>
  BY DEF ToggleStore
<1>4. \A c \in Calls : /\ closed'[c] \subseteq closed[c]
                       /\ toggles[a].value => slots[s0].tool \notin closed'[c]
  BY <1>1 DEF ToggleStore, Reopen, EngineTypeOK
<1>5. \A t \in Tools : Registered(t) => tools[t] \in 1..Len(slots)
  BY <1>1 DEF EngineTypeOK, Registered
<1>6. SlotsNamed'
  BY <1>2, <1>3, <1>5 DEF IInv, SlotsNamed, Registered
<1>7. ASSUME NEW c \in Calls
      PROVE  Safe(c)'
  <2>1. Safe(c) /\ closed[c] \subseteq Tools
    BY <1>1 DEF IInv, EngineTypeOK
  <2>2. /\ pc[c] \in HasSlot => at[c] \in 1..Len(slots)
        /\ pc[c] = "invoking" /\ call[c].method = "tools/call" => at[c] \in 1..Len(slots)
    BY <1>1, HeldSlot
  <2>3. ASSUME NEW t \in closed'[c]
        PROVE  ~ Open(t)'
    <3>1. t \in Tools /\ ~ Open(t) /\ (toggles[a].value => slots[s0].tool # t)
      BY <1>4, <2>1, <2>3 DEF Safe, Switched
    <3>2. CASE ~ Registered(t)
      BY <1>3, <3>2 DEF Open, Registered
    <3>3. CASE Registered(t)
      <4>1. tools[t] \in 1..Len(slots) /\ slots[tools[t]].tool = t /\ ~ slots[tools[t]].enabled
        BY <1>5, <3>1, <3>3 DEF IInv, SlotsNamed, Open
      <4>2. ~ slots'[tools[t]].enabled
        BY <1>2, <3>1, <4>1
      <4> QED
        BY <1>3, <4>2 DEF Open
    <3> QED
      BY <3>2, <3>3
  <2>4. pc[c] = "fetched" /\ call[c].target \in closed'[c] => ~ slots'[at[c]].enabled
    <3> HAVE pc[c] = "fetched" /\ call[c].target \in closed'[c]
    <3>1. at[c] \in 1..Len(slots) /\ slots[at[c]].tool = call[c].target /\ ~ slots[at[c]].enabled
      BY <1>4, <2>1, <2>2 DEF Safe, Switched, HasSlot
    <3> QED
      BY <1>2, <1>4, <3>1
  <2>5. Switched(c)'
    BY <1>2, <1>3, <1>4, <2>1, <2>2, <2>3, <2>4 DEF Safe, Switched
  <2>6. ListedOpen(c)'
    BY <1>3, <1>4, <2>1 DEF Safe, ListedOpen
  <2>7. RoleChecked(c)'
    BY <1>2, <1>3, <2>1, <2>2 DEF Safe, RoleChecked, Permits, HasSlot
  <2> QED
    BY <2>5, <2>6, <2>7 DEF Safe
<1> QED
  BY <1>1, <1>6, <1>7, TypeToggleStore DEF IInv

LEMMA SafeToggleFetch ==
  ASSUME IInv, NEW a \in Operators, NEW t \in Tools, NEW value \in BOOLEAN,
         ToggleFetch(a, t, value)
  PROVE  IInv'
<1>1. TypeInv /\ EngineTypeOK
  BY DEF IInv, TypeInv
<1>2. Counted /\ tools' = tools /\ UNCHANGED <<call, pc, at, listed, closed>>
  BY <1>1, CountedSame DEF ToggleFetch
<1>3. \A c \in Calls : Safe(c)'
  BY <1>1, <1>2, SafeFrame DEF IInv
<1> QED
  BY <1>1, <1>2, <1>3, OpenSame, TypeToggleFetch DEF IInv

(* What is not open when a call comes in is closed to it.                   *)
LEMMA SafeArrive ==
  ASSUME IInv, NEW c \in Calls, NEW r \in Messages, Arrive(c, r)
  PROVE  IInv'
<1>1. TypeInv /\ EngineTypeOK
  BY DEF IInv, TypeInv
<1>2. Counted /\ tools' = tools /\ UNCHANGED <<at, listed>>
  BY <1>1, CountedSame DEF Arrive, registry
<1>3. /\ pc[c] = "idle" /\ pc'[c] = "dispatched"
      /\ closed'[c] = {t \in About(r) : ~ Open(t)}
      /\ \A d \in Calls \ {c} : pc'[d] = pc[d] /\ call'[d] = call[d] /\ closed'[d] = closed[d]
  BY <1>1 DEF Arrive, Goto, EngineTypeOK
<1>4. ASSUME NEW d \in Calls \ {c}
      PROVE  Safe(d)'
  BY <1>1, <1>2, <1>3, SafeFrame DEF IInv
<1>5. Safe(c)'
  <2>1. \A t \in closed'[c] : ~ Open(t)'
    <3>1. closed'[c] \subseteq Tools
      BY <1>3 DEF About
    <3> QED
      BY <1>1, <1>2, <1>3, <3>1, OpenSame
  <2>2. listed'[c] = {}
    BY <1>2, <1>3 DEF IInv, Safe, ListedOpen
  <2> QED
    BY <1>3, <2>1, <2>2 DEF Safe, Switched, ListedOpen, RoleChecked, HasSlot, Passed
<1> QED
  BY <1>1, <1>2, <1>4, <1>5, OpenSame, TypeArrive DEF IInv
(* A step that ends a dispatch, or leaves it only its outcomes to record.   *)
LEMMA SafeConclude ==
  ASSUME IInv, NEW c \in Calls, Counted, tools' = tools, UNCHANGED <<call, closed, at, listed>>,
         pc[c] # "scan", pc'[c] \in {"done", "record", "unwound"},
         \A d \in Calls \ {c} : pc'[d] = pc[d], TypeInv'
  PROVE  IInv'
<1>1. Safe(c)'
  BY SafeSettled DEF IInv
<1> QED
  BY <1>1, SafeStep

LEMMA SafeFetchSlot ==
  ASSUME IInv, NEW c \in Calls, FetchSlot(c)
  PROVE  IInv'
<1> DEFINE t == call[c].target
<1>1. TypeInv /\ EngineTypeOK /\ call[c] \in Requests /\ TypeInv' /\ Safe(c)
  BY McpEngineAssumption, TypeFetchSlot DEF IInv, TypeInv, Bound, FetchSlot
<1>2. /\ Counted /\ UNCHANGED <<slots, tools, call, listed, closed>>
      /\ pc[c] = "dispatched" /\ call[c].method = "tools/call"
  BY <1>1, CountedSame DEF FetchSlot, registry
<1>3. CASE /\ Conclude(c, Echo(c)) \/ Conclude(c, <<"invalid">> \o Echo(c))
           /\ UNCHANGED at
  <2>1. pc'[c] \in {"done", "record"} /\ \A d \in Calls \ {c} : pc'[d] = pc[d]
    BY <1>1, <1>3, ConcludeType, EchoType, OutcomeType
  <2> QED
    BY <1>1, <1>2, <1>3, <2>1, SafeConclude
<1>4. CASE /\ t # Unknown /\ Registered(t) /\ at' = [at EXCEPT ![c] = tools[t]]
           /\ Goto(c, "fetched") /\ UNCHANGED due
  <2>1. t \in Tools /\ closed[c] \subseteq Tools
    BY <1>1, <1>2, <1>4, RequestType DEF EngineTypeOK
  <2>2. /\ at'[c] = tools[t] /\ pc'[c] = "fetched"
        /\ \A d \in Calls \ {c} : pc'[d] = pc[d] /\ at'[d] = at[d]
    BY <1>1, <1>4 DEF EngineTypeOK, Goto
  <2>3. slots[tools[t]].tool = t /\ (t \in closed[c] => ~ slots[tools[t]].enabled)
    BY <1>1, <1>4, <2>1 DEF IInv, SlotsNamed, Safe, Switched, Open
  <2>4. \A u \in closed[c] : ~ Open(u)'
    BY <1>1, <1>2 DEF Safe, Switched, Open, Registered
  <2>5. Switched(c)'
    BY <1>2, <2>2, <2>3, <2>4 DEF Switched, HasSlot, Passed
  <2>6. ListedOpen(c)' /\ RoleChecked(c)'
    BY <1>1, <1>2, <2>2 DEF Safe, ListedOpen, RoleChecked
  <2> QED
    BY <1>1, <1>2, <2>2, <2>5, <2>6, SafeStep DEF Safe
<1> QED
  BY <1>3, <1>4 DEF FetchSlot

(* The switch of the slot held, its role, and its schema: each is passed or *)
(* ends the call.                                                           *)
LEMMA SafeChecks ==
  ASSUME IInv, NEW c \in Calls, CheckSwitch(c) \/ CheckRole(c) \/ CheckSchema(c)
  PROVE  IInv'
<1>1. /\ TypeInv /\ EngineTypeOK /\ Safe(c) /\ closed[c] \subseteq Tools
      /\ Counted /\ pc[c] \in HasSlot
      /\ UNCHANGED <<tools, toggles, call, at, names, listed, auditLog, closed>>
      /\ \/ \E o \in Seq(Outcomes) : Conclude(c, o)
         \/ \E state \in {"enabled", "permitted", "invoking"} : Goto(c, state) /\ UNCHANGED due
  BY ChecksCounted DEF IInv, TypeInv, EngineTypeOK
<1>2. TypeInv'
  BY <1>1, CheckType
<1>3. CASE \E o \in Seq(Outcomes) : Conclude(c, o)
  <2>1. pc'[c] \in {"done", "record"} /\ \A d \in Calls \ {c} : pc'[d] = pc[d]
    BY <1>1, <1>3, ConcludeType
  <2> QED
    BY <1>1, <1>2, <2>1, SafeConclude DEF HasSlot
<1>4. CASE \/ pc[c] = "fetched" /\ slots[at[c]].enabled /\ Pass(c, "enabled")
           \/ pc[c] = "enabled" /\ Permits(c, at[c]) /\ Pass(c, "permitted")
           \/ pc[c] = "permitted" /\ Pass(c, "invoking")
  <2>1. /\ pc'[c] = CASE pc[c] = "fetched" -> "enabled"
                      [] pc[c] = "enabled" -> "permitted"
                      [] OTHER -> "invoking"
        /\ \A d \in Calls \ {c} : pc'[d] = pc[d]
        /\ UNCHANGED <<slots, tools, call, at, listed, closed>>
    BY <1>1, <1>4 DEF Pass, Goto, EngineTypeOK
  <2>2. call[c] \in Requests /\ call[c].method = "tools/call"
    BY <1>1, McpEngineAssumption DEF TypeInv, Bound, HasSlot
  <2>3. call[c].target \notin closed[c]
    BY <1>1, <1>4, <2>2 DEF Safe, Switched, Passed
  <2>4. \A t \in closed[c] : ~ Open(t)'
    BY <1>1, <2>1 DEF Safe, Switched, Open, Registered
  <2>5. Switched(c)'
    BY <1>1, <2>1, <2>3, <2>4 DEF Safe, Switched, HasSlot
  <2>6. ListedOpen(c)'
    BY <1>1, <1>4, <2>1 DEF Safe, ListedOpen
  <2>7. pc'[c] \in {"permitted", "invoking"} => Permits(c, at[c])
    BY <1>1, <1>4, <2>1 DEF Safe, RoleChecked
  <2>8. call[c].method # "resources/read"
    BY <2>2
  <2>9. RoleChecked(c)'
    BY <2>1, <2>7, <2>8 DEF RoleChecked, Permits
  <2> QED
    BY <1>1, <1>2, <2>1, <2>5, <2>6, <2>9, SafeStep DEF Safe
<1>5. \/ \E o \in Seq(Outcomes) : Conclude(c, o)
      \/ pc[c] = "fetched" /\ slots[at[c]].enabled /\ Pass(c, "enabled")
      \/ pc[c] = "enabled" /\ Permits(c, at[c]) /\ Pass(c, "permitted")
      \/ pc[c] = "permitted" /\ Pass(c, "invoking")
  <2>1. <<"denied">> \o Echo(c) \in Seq(Outcomes) /\ <<"invalid">> \o Echo(c) \in Seq(Outcomes)
    BY <1>1, EchoType, OutcomeType
  <2> QED
    BY <2>1 DEF CheckSwitch, CheckRole, CheckSchema, Deny
<1> QED
  BY <1>3, <1>4, <1>5

LEMMA SafeReturns ==
  ASSUME IInv, NEW c \in Calls, NEW outcome \in {"ok", "failed"}, ToolReturns(c, outcome)
  PROVE  IInv'
<1>1. /\ TypeInv /\ Counted /\ pc[c] = "invoking"
      /\ UNCHANGED <<tools, toggles, call, at, names, listed, auditLog, closed>>
      /\ \E o \in Seq(Outcomes) : Conclude(c, o)
  BY ReturnsCounted DEF IInv, ToolReturns
<1>2. TypeInv'
  BY <1>1, CheckType
<1>3. pc'[c] \in {"done", "record"} /\ \A d \in Calls \ {c} : pc'[d] = pc[d]
  BY <1>1, ConcludeType
<1> QED
  BY <1>1, <1>2, <1>3, SafeConclude

(* A resource is read, or a prompt built, once its guard has let the call   *)
(* pass.                                                                    *)
LEMMA SafeRead ==
  ASSUME IInv, NEW c \in Calls, Read(c) \/ Prompt(c), TypeInv'
  PROVE  IInv'
<1>1. TypeInv /\ EngineTypeOK /\ Safe(c) /\ closed[c] \subseteq Tools /\ Echo(c) \in Seq(Outcomes)
  BY EchoType DEF IInv, TypeInv, EngineTypeOK
<1>2. /\ pc[c] = "dispatched" /\ call[c].method # "tools/call" /\ call[c] \in Requests
      /\ UNCHANGED <<registry, call, at, names, listed, auditLog, closed>>
  BY <1>1, McpEngineAssumption DEF TypeInv, Bound, Read, Prompt
<1>3. Counted /\ UNCHANGED <<slots, tools>>
  BY <1>1, <1>2, CountedSame DEF registry
<1>4. CASE Conclude(c, Echo(c))
  <2>1. pc'[c] \in {"done", "record"} /\ \A d \in Calls \ {c} : pc'[d] = pc[d]
    BY <1>1, <1>4, ConcludeType
  <2> QED
    BY <1>1, <1>2, <1>3, <2>1, SafeConclude
<1>5. CASE Goto(c, "invoking") /\ (call[c].method = "resources/read" /\ call[c].target \in Gated => c \in Privileged)
  <2>1. pc'[c] = "invoking" /\ \A d \in Calls \ {c} : pc'[d] = pc[d]
    BY <1>1, <1>5 DEF Goto, EngineTypeOK
  <2>2. \A t \in closed[c] : ~ Open(t)'
    BY <1>1, <1>3 DEF Safe, Switched, Open, Registered
  <2>3. Safe(c)'
    BY <1>1, <1>2, <1>5, <2>1, <2>2 DEF Safe, Switched, ListedOpen, RoleChecked, HasSlot
  <2> QED
    BY <1>2, <1>3, <2>1, <2>3, SafeStep
<1> QED
  BY <1>4, <1>5 DEF Read, Prompt

(* tools/list: names are collected in the scan, dropped, and collected anew *)
(* from the slots that are open when they are looked at.                    *)
LEMMA SafeList ==
  ASSUME IInv, NEW c \in Calls, StartList(c) \/ Scan(c) \/ EndScan(c) \/ Describe(c), TypeInv'
  PROVE  IInv'
<1>1. TypeInv /\ EngineTypeOK /\ Safe(c)
  BY DEF IInv, TypeInv
<1>2. /\ Counted /\ tools' = tools /\ UNCHANGED <<slots, call, at, closed>>
      /\ pc[c] \in {"dispatched", "scan", "describe"}
  BY <1>1, CountedSame DEF StartList, Scan, EndScan, Describe, registry
<1>3. /\ pc'[c] \in {"scan", "describe"}
      /\ \A d \in Calls \ {c} : pc'[d] = pc[d] /\ listed'[d] = listed[d]
  BY <1>1 DEF StartList, Scan, EndScan, Describe, Goto, EngineTypeOK
<1>4. \A t \in closed[c] : ~ Open(t) /\ ~ Open(t)'
  BY <1>1, <1>2 DEF Safe, Switched, Open, Registered
<1>5. pc'[c] # "scan" => listed'[c] \cap closed[c] = {}
  <2>1. CASE EndScan(c)
    BY <1>1, <2>1 DEF EndScan, EngineTypeOK
  <2>2. CASE Describe(c)
    <3>1. PICK t \in names[c] :
            listed' = [listed EXCEPT ![c] = IF Open(t) THEN listed[c] \cup {t} ELSE listed[c]]
      BY <2>2 DEF Describe
    <3>2. listed'[c] = (IF Open(t) THEN listed[c] \cup {t} ELSE listed[c])
      BY <1>1, <3>1 DEF EngineTypeOK
    <3>3. listed[c] \cap closed[c] = {}
      BY <1>1, <2>2 DEF Safe, ListedOpen, Describe
    <3> QED
      BY <1>4, <3>2, <3>3
  <2>3. CASE StartList(c) \/ Scan(c)
    BY <1>1, <2>3 DEF StartList, Scan, Goto, EngineTypeOK
  <2> QED
    BY <2>1, <2>2, <2>3
<1>6. Safe(c)'
  BY <1>2, <1>3, <1>4, <1>5 DEF Safe, Switched, ListedOpen, RoleChecked, HasSlot, Passed
<1> QED
  BY <1>2, <1>3, <1>6, SafeStep

LEMMA SafeNext == IInv /\ [EngineNext]_engineVars => IInv'
<1> SUFFICES ASSUME IInv, [EngineNext]_engineVars
             PROVE  IInv'
  OBVIOUS
<1>1. TypeInv /\ EngineTypeOK /\ TypeInv'
  BY TypeNext DEF IInv, TypeInv
<1>2. ASSUME NEW c \in Calls
      PROVE  Echo(c) \in Seq(Outcomes) /\ (pc[c] = "record" => Tail(due[c]) \in Seq(Outcomes))
  BY <1>1, EchoType DEF TypeInv, EngineTypeOK, Bound
<1>3. ASSUME NEW c \in Calls, RefuseCall(c) \/ Other(c) \/ RecordOutcome(c) \/ AppReturns(c) \/ EndList(c)
      PROVE  IInv'
  <2>1. /\ UNCHANGED <<slots, tools, call, at, listed, closed>>
        /\ pc[c] \in {"dispatched", "record", "invoking", "describe"}
    BY <1>3 DEF RefuseCall, Other, RecordOutcome, AppReturns, EndList, registry
  <2>2. \E o \in Seq(Outcomes) : Conclude(c, o)
    BY <1>2, <1>3, OutcomeType DEF RefuseCall, Other, RecordOutcome, AppReturns, EndList
  <2>3. pc'[c] \in {"done", "record"} /\ \A d \in Calls \ {c} : pc'[d] = pc[d]
    BY <1>1, <2>2, ConcludeType
  <2> QED
    BY <1>1, <2>1, <2>3, CountedSame, SafeConclude
<1>4. ASSUME NEW c \in Calls, Unwind(c)
      PROVE  IInv'
  <2>1. /\ UNCHANGED <<slots, tools, call, at, listed, closed>> /\ pc[c] = "invoking"
        /\ pc'[c] = "unwound" /\ \A d \in Calls \ {c} : pc'[d] = pc[d]
    BY <1>1, <1>4 DEF Unwind, Goto, registry, EngineTypeOK
  <2> QED
    BY <1>1, <2>1, CountedSame, SafeConclude
<1>5. CASE UNCHANGED engineVars
  BY <1>1, <1>5 DEF engineVars, registry, auditLog, IInv, SlotsNamed, Safe, Switched, ListedOpen,
                    RoleChecked, Open, Registered, Permits
<1> QED
  BY <1>1, <1>3, <1>4, <1>5, SafeRegister, SafeToggleFetch, SafeToggleStore, SafeArrive,
     SafeFetchSlot, SafeChecks, SafeReturns, SafeRead, SafeList DEF EngineNext, Engine, Returns

-----------------------------------------------------------------------------
(* The theorems.                                                            *)

(* The dispatch state has its types throughout; in particular the audit log *)
(* never holds more entries than its capacity, whoever records.             *)
THEOREM EngineTypeCorrect == EngineSpec => []EngineTypeOK
<1>1. IInv => EngineTypeOK
  BY DEF IInv, TypeInv
<1> QED
  BY <1>1, SafeInit, SafeNext, PTL DEF EngineSpec

(* A tool that is off when a call comes in is not reached by that call, nor *)
(* listed in its answer, unless it is enabled meanwhile: for any number of  *)
(* concurrent calls, administrators and registrations.                      *)
THEOREM KillSwitch == EngineSpec => []KillSwitchHolds
<1>1. IInv => KillSwitchHolds
  BY DEF IInv, Safe, Switched, ListedOpen, KillSwitchHolds
<1> QED
  BY <1>1, SafeInit, SafeNext, PTL DEF EngineSpec

(* Application code behind a role runs only for a call that has the role,   *)
(* whatever is registered under its name between the checks.                *)
THEOREM RolesRespected == EngineSpec => []OnlyPermitted
<1>1. IInv => OnlyPermitted
  BY DEF IInv, Safe, RoleChecked, OnlyPermitted
<1> QED
  BY <1>1, SafeInit, SafeNext, PTL DEF EngineSpec

-----------------------------------------------------------------------------
(* The counters and the trail.                                              *)

Concluded == {"record", "done"}

(* What c has recorded and what it has still to record.                     *)
Story(c) == trail[c] \o due[c]

(* What the call of a registered tool records before it is over.            *)
Stories(notif) ==
  {q \in Seq(Outcomes) : IF notif /\ q[1] \in {"denied", "invalid"}
                         THEN Len(q) = 2 /\ q[2] = "failed"
                         ELSE Len(q) = 1}

(* A dispatch records nothing until it is concluded, and then its story.    *)
Told(c) ==
  /\ pc[c] \notin Concluded => trail[c] = << >> /\ due[c] = << >>
  /\ pc[c] = "done" => due[c] = << >>
  /\ at[c] # 0 => /\ pc[c] \in HasSlot \cup {"invoking", "unwound"} \cup Concluded
                  /\ call[c].method = "tools/call"
  /\ at[c] # 0 /\ pc[c] \in Concluded => Story(c) \in Stories(call[c].notif)

RecordInv == TypeInv /\ CountersMatchTrail /\ \A c \in Calls : Told(c)

LEMMA Joined ==
  ASSUME NEW q \in Seq(Outcomes)
  PROVE  << >> \o q = q /\ q \o << >> = q
OBVIOUS

(* Recording moves the first outcome that is due; the story stays.          *)
LEMMA Moved ==
  ASSUME NEW q \in Seq(Outcomes), NEW r \in Seq(Outcomes), r # << >>
  PROVE  Append(q, Head(r)) \o Tail(r) = q \o r
<1> DEFINE x == Append(q, Head(r)) \o Tail(r)
           y == q \o r
<1>1. /\ Len(q) \in Nat /\ Len(r) \in Nat \ {0} /\ Head(r) \in Outcomes /\ Head(r) = r[1]
      /\ Tail(r) \in Seq(Outcomes) /\ Len(Tail(r)) = Len(r) - 1
      /\ \A k \in 1..(Len(r) - 1) : Tail(r)[k] = r[k + 1]
  OBVIOUS
<1>2. /\ Append(q, Head(r)) \in Seq(Outcomes) /\ Len(Append(q, Head(r))) = Len(q) + 1
      /\ \A k \in 1..(Len(q) + 1) : Append(q, Head(r))[k] = IF k <= Len(q) THEN q[k] ELSE r[1]
  BY <1>1
<1>3. /\ x \in Seq(Outcomes) /\ Len(x) = Len(q) + Len(r)
      /\ \A k \in 1..(Len(q) + Len(r)) :
           x[k] = IF k <= Len(q) + 1 THEN Append(q, Head(r))[k] ELSE Tail(r)[k - (Len(q) + 1)]
  BY <1>1, <1>2
<1>4. /\ y \in Seq(Outcomes) /\ Len(y) = Len(q) + Len(r)
      /\ \A k \in 1..(Len(q) + Len(r)) : y[k] = IF k <= Len(q) THEN q[k] ELSE r[k - Len(q)]
  BY <1>1
<1>5. \A k \in 1..(Len(q) + Len(r)) : x[k] = y[k]
  <2> HIDE DEF x, y
  <2> SUFFICES ASSUME NEW k \in 1..(Len(q) + Len(r)) PROVE x[k] = y[k]
    OBVIOUS
  <2>1. CASE k <= Len(q)
    BY <1>1, <1>2, <1>3, <1>4, <2>1
  <2>2. CASE k = Len(q) + 1
    BY <1>1, <1>2, <1>3, <1>4, <2>2, SMTT(30)
  <2>3. CASE k > Len(q) + 1
    <3>1. k - (Len(q) + 1) \in 1..(Len(r) - 1) /\ (k - (Len(q) + 1)) + 1 = k - Len(q)
      BY <1>1, <2>3
    <3>2. k \in 1..(Len(q) + Len(r)) /\ ~ (k <= Len(q)) /\ ~ (k <= Len(q) + 1)
      BY <1>1, <2>3
    <3>3. x[k] = Tail(r)[k - (Len(q) + 1)] /\ y[k] = r[k - Len(q)]
      BY <1>3, <1>4, <3>2
    <3>4. Tail(r)[k - (Len(q) + 1)] = r[(k - (Len(q) + 1)) + 1]
      BY <1>1, <3>1
    <3> QED
      BY <3>1, <3>3, <3>4
  <2> QED
    BY <1>1, <2>1, <2>2, <2>3
<1> HIDE DEF x, y
<1>6. x = y
  BY <1>3, <1>4, <1>5
<1> QED
  BY <1>6 DEF x, y

(* What is counted per slot, and that it can be counted.                    *)
LEMMA RecordedFinite ==
  ASSUME NEW s, NEW o
  PROVE  IsFiniteSet(Recorded(s, o)) /\ Cardinality(Recorded(s, o)) \in Nat
<1>1. Recorded(s, o) \subseteq Calls
  BY DEF Recorded
<1> QED
  BY <1>1, McpEngineAssumption, FS_Subset, FS_CardinalityType

LEMMA RecordedStory ==
  ASSUME NEW s, NEW o, NEW c \in Calls
  PROVE  c \in Recorded(s, o) <=> (at[c] = s /\ Story(c) # << >> /\ Head(Story(c)) = o)
BY DEF Recorded, Story

LEMMA RecordedStoryNext ==
  ASSUME NEW s, NEW o, NEW c \in Calls
  PROVE  c \in Recorded(s, o)' <=> (at'[c] = s /\ Story(c)' # << >> /\ Head(Story(c)') = o)
BY DEF Recorded, Story

(* Steps that leave counters and stories of the slots alone.                *)
LEMMA TallySame ==
  ASSUME RecordInv, EngineTypeOK', Len(slots') = Len(slots),
         \A s \in 1..Len(slots) : /\ slots'[s].denied = slots[s].denied
                                  /\ slots'[s].failures = slots[s].failures
                                  /\ slots'[s].invocations = slots[s].invocations,
         \A c \in Calls : \/ at'[c] = at[c] /\ Story(c)' = Story(c)
                          \/ Story(c)' = << >> /\ Story(c) = << >>
                          \/ at'[c] = 0 /\ at[c] = 0
  PROVE  CountersMatchTrail'
<1>1. ASSUME NEW s \in 1..Len(slots), NEW o
      PROVE  Recorded(s, o)' = Recorded(s, o)
  <2>1. s # 0
    OBVIOUS
  <2>2. \A c \in Calls : c \in Recorded(s, o)' <=> c \in Recorded(s, o)
    <3> SUFFICES ASSUME NEW c \in Calls
                 PROVE  c \in Recorded(s, o)' <=> c \in Recorded(s, o)
      OBVIOUS
    <3>1. c \in Recorded(s, o) <=> (at[c] = s /\ Story(c) # << >> /\ Head(Story(c)) = o)
      BY RecordedStory
    <3>2. c \in Recorded(s, o)' <=> (at'[c] = s /\ Story(c)' # << >> /\ Head(Story(c)') = o)
      BY RecordedStoryNext
    <3>3. \/ at'[c] = at[c] /\ Story(c)' = Story(c)
          \/ Story(c)' = << >> /\ Story(c) = << >>
          \/ at'[c] = 0 /\ at[c] = 0
      OBVIOUS
    <3> QED
      BY <2>1, <3>1, <3>2, <3>3
  <2>3. Recorded(s, o) \subseteq Calls /\ Recorded(s, o)' \subseteq Calls
    BY DEF Recorded
  <2>4. \A d : d \in Recorded(s, o)' <=> d \in Recorded(s, o)
    BY <2>2, <2>3
  <2> QED
    BY <2>4, Zenon
<1>2. ASSUME NEW s \in 1..Len(slots)
      PROVE  /\ slots'[s].denied = Cardinality(Recorded(s, "denied")')
             /\ slots'[s].failures = Cardinality(Recorded(s, "failed")')
             /\ slots'[s].invocations = slots'[s].failures + Cardinality(Recorded(s, "ok")')
  BY <1>1 DEF RecordInv, CountersMatchTrail
<1> QED
  BY <1>2 DEF CountersMatchTrail

(* A call that has told nothing yet begins its story with o.                *)
LEMMA TallyOne ==
  ASSUME NEW c \in Calls, NEW o, Story(c) = << >>, Story(c)' # << >>, Head(Story(c)') = o,
         at'[c] = at[c], \A d \in Calls \ {c} : at'[d] = at[d] /\ Story(d)' = Story(d)
  PROVE  /\ Cardinality(Recorded(at[c], o)') = Cardinality(Recorded(at[c], o)) + 1
         /\ \A s, q : s # at[c] \/ q # o => Recorded(s, q)' = Recorded(s, q)
<1>1. c \notin Recorded(at[c], o) /\ Recorded(at[c], o)' = Recorded(at[c], o) \cup {c}
  <2>1. c \notin Recorded(at[c], o) /\ c \in Recorded(at[c], o)'
    BY RecordedStory, RecordedStoryNext
  <2>2. \A d \in Calls \ {c} : d \in Recorded(at[c], o)' <=> d \in Recorded(at[c], o)
    <3> SUFFICES ASSUME NEW d \in Calls \ {c}
                 PROVE  d \in Recorded(at[c], o)' <=> d \in Recorded(at[c], o)
      OBVIOUS
    <3>1. d \in Recorded(at[c], o) <=> (at[d] = at[c] /\ Story(d) # << >> /\ Head(Story(d)) = o)
      BY RecordedStory
    <3>2. d \in Recorded(at[c], o)' <=> (at'[d] = at[c] /\ Story(d)' # << >> /\ Head(Story(d)') = o)
      BY RecordedStoryNext
    <3> QED
      BY <3>1, <3>2
  <2>3. Recorded(at[c], o) \subseteq Calls /\ Recorded(at[c], o)' \subseteq Calls
    BY DEF Recorded
  <2> QED
    BY <2>1, <2>2, <2>3
<1>2. Cardinality(Recorded(at[c], o)') = Cardinality(Recorded(at[c], o)) + 1
  BY <1>1, RecordedFinite, FS_AddElement
<1>3. ASSUME NEW s, NEW q, s # at[c] \/ q # o
      PROVE  Recorded(s, q)' = Recorded(s, q)
  <2>1. c \notin Recorded(s, q) /\ c \notin Recorded(s, q)'
    BY <1>3, RecordedStory, RecordedStoryNext
  <2>2. \A d \in Calls \ {c} : d \in Recorded(s, q)' <=> d \in Recorded(s, q)
    <3> SUFFICES ASSUME NEW d \in Calls \ {c}
                 PROVE  d \in Recorded(s, q)' <=> d \in Recorded(s, q)
      OBVIOUS
    <3>1. d \in Recorded(s, q) <=> (at[d] = s /\ Story(d) # << >> /\ Head(Story(d)) = q)
      BY RecordedStory
    <3>2. d \in Recorded(s, q)' <=> (at'[d] = s /\ Story(d)' # << >> /\ Head(Story(d)') = q)
      BY RecordedStoryNext
    <3> QED
      BY <3>1, <3>2
  <2>3. Recorded(s, q) \subseteq Calls /\ Recorded(s, q)' \subseteq Calls
    BY DEF Recorded
  <2>4. \A d : d \in Recorded(s, q)' <=> d \in Recorded(s, q)
    BY <2>1, <2>2, <2>3
  <2> QED
    BY <2>4, Zenon
<1> QED
  BY <1>2, <1>3

LEMMA RecordInit == EngineInit => RecordInv
<1> SUFFICES ASSUME EngineInit PROVE RecordInv
  OBVIOUS
<1>1. /\ Len(slots) = 0
      /\ \A c \in Calls : pc[c] = "idle" /\ at[c] = 0 /\ trail[c] = << >> /\ due[c] = << >>
  BY DEF EngineInit
<1>2. CountersMatchTrail
  BY <1>1 DEF CountersMatchTrail
<1>3. \A c \in Calls : Told(c)
  BY <1>1 DEF Told, Concluded
<1> QED
  BY <1>2, <1>3, TypeInit DEF RecordInv

(* A call that is not concluded has told nothing.                           *)
LEMMA Untold ==
  ASSUME RecordInv, NEW c \in Calls, pc[c] \notin Concluded
  PROVE  trail[c] = << >> /\ due[c] = << >> /\ Story(c) = << >>
<1>1. trail[c] = << >> /\ due[c] = << >>
  BY DEF RecordInv, Told
<1>2. << >> \o << >> = << >>
  BY Joined, OutcomeType
<1> QED
  BY <1>1, <1>2 DEF Story

(* A dispatch is concluded with the outcomes o.                             *)
LEMMA TellConclude ==
  ASSUME RecordInv, NEW c \in Calls, NEW o \in Seq(Outcomes), pc[c] \notin Concluded,
         Conclude(c, o), UNCHANGED <<call, at, trail>>, at[c] # 0 => o \in Stories(call[c].notif)
  PROVE  /\ \A d \in Calls : Told(d)'
         /\ Story(c) = << >> /\ Story(c)' = o
         /\ \A d \in Calls \ {c} : at'[d] = at[d] /\ Story(d)' = Story(d)
<1>1. TypeInv /\ EngineTypeOK
  BY DEF RecordInv, TypeInv
<1>2. /\ pc'[c] \in Concluded /\ (pc'[c] = "done" => o = << >>) /\ due'[c] = o
      /\ \A d \in Calls \ {c} : pc'[d] = pc[d] /\ due'[d] = due[d]
  BY <1>1 DEF Conclude, Goto, EngineTypeOK, Concluded
<1>3. trail[c] = << >> /\ Story(c) = << >>
  BY Untold
<1>4. Story(c)' = o
  BY <1>2, <1>3, Joined DEF Story
<1>5. ASSUME NEW d \in Calls \ {c}
      PROVE  Told(d)' /\ at'[d] = at[d] /\ Story(d)' = Story(d)
  BY <1>2 DEF RecordInv, Told, Story
<1>6. Told(c)'
  BY <1>2, <1>4 DEF RecordInv, Told, HasSlot
<1> QED
  BY <1>3, <1>4, <1>5, <1>6

(* A call that holds no slot concludes: it is not counted.                  *)
LEMMA RecordAside ==
  ASSUME RecordInv, TypeInv', NEW c \in Calls, NEW o \in Seq(Outcomes), pc[c] \notin Concluded,
         at[c] = 0, Conclude(c, o), UNCHANGED <<slots, call, at, trail>>
  PROVE  RecordInv'
<1>1. /\ \A d \in Calls : Told(d)'
      /\ \A d \in Calls \ {c} : at'[d] = at[d] /\ Story(d)' = Story(d)
  BY TellConclude
<1>2. EngineTypeOK'
  BY DEF TypeInv
<1>3. CountersMatchTrail'
  BY <1>1, <1>2, TallySame
<1> QED
  BY <1>1, <1>3 DEF RecordInv

(* A dispatch goes on without recording anything.                           *)
LEMMA RecordMove ==
  ASSUME RecordInv, TypeInv', NEW c \in Calls, pc[c] \notin Concluded, pc'[c] \notin Concluded,
         UNCHANGED <<slots, trail, due>>,
         \A d \in Calls \ {c} : pc'[d] = pc[d] /\ call'[d] = call[d] /\ at'[d] = at[d],
         at'[c] # 0 => pc'[c] \in HasSlot \cup {"invoking", "unwound"} /\ call'[c].method = "tools/call"
  PROVE  RecordInv'
<1>1. trail[c] = << >> /\ due[c] = << >> /\ Story(c) = << >>
  BY Untold
<1>2. \A d \in Calls : Story(d)' = Story(d)
  BY DEF Story
<1>3. Told(c)'
  BY <1>1 DEF Told, Concluded
<1>4. ASSUME NEW d \in Calls \ {c}
      PROVE  Told(d)'
  BY <1>2, <1>4 DEF RecordInv, Told
<1>5. EngineTypeOK'
  BY DEF TypeInv
<1>6. CountersMatchTrail'
  BY <1>1, <1>2, <1>5, TallySame
<1> QED
  BY <1>3, <1>4, <1>6 DEF RecordInv

LEMMA RecordRecord ==
  ASSUME RecordInv, TypeInv', NEW c \in Calls, RecordOutcome(c)
  PROVE  RecordInv'
<1>1. TypeInv /\ EngineTypeOK /\ EngineTypeOK'
  BY DEF RecordInv, TypeInv
<1>2. /\ due[c] \in Seq(Outcomes) /\ due[c] # << >> /\ trail[c] \in Seq(Outcomes) /\ pc[c] = "record"
      /\ Conclude(c, Tail(due[c])) /\ UNCHANGED <<slots, call, at>>
  BY <1>1 DEF TypeInv, Bound, EngineTypeOK, RecordOutcome, registry
<1>3. /\ trail'[c] = Append(trail[c], Head(due[c]))
      /\ \A d \in Calls \ {c} : trail'[d] = trail[d]
  BY <1>1 DEF RecordOutcome, EngineTypeOK
<1>4. /\ pc'[c] \in Concluded /\ due'[c] = Tail(due[c]) /\ (pc'[c] = "done" => due'[c] = << >>)
      /\ \A d \in Calls \ {c} : pc'[d] = pc[d] /\ due'[d] = due[d]
  BY <1>1, <1>2 DEF Conclude, Goto, EngineTypeOK, Concluded
<1>5. \A d \in Calls : Story(d)' = Story(d)
  <2>1. Story(c)' = Story(c)
    BY <1>2, <1>3, <1>4, Moved DEF Story
  <2> QED
    BY <1>3, <1>4, <2>1 DEF Story
<1>6. Told(c)'
  BY <1>2, <1>4, <1>5 DEF RecordInv, Told, Concluded
<1>7. ASSUME NEW d \in Calls \ {c}
      PROVE  Told(d)'
  BY <1>2, <1>3, <1>4, <1>5, <1>7 DEF RecordInv, Told
<1>8. CountersMatchTrail'
  BY <1>1, <1>2, <1>5, TallySame
<1> QED
  BY <1>6, <1>7, <1>8 DEF RecordInv

(* Registering a tool starts its counters, and no call holds the new slot.  *)
LEMMA RecordRegister ==
  ASSUME RecordInv, TypeInv', NEW t \in Tools, NEW schema \in Schemas, RegisterTool(t, schema)
  PROVE  RecordInv'
<1>1. TypeInv /\ EngineTypeOK /\ EngineTypeOK'
  BY DEF RecordInv, TypeInv
<1>2. /\ slots \in Seq(Slots) /\ Len(slots) \in Nat /\ UNCHANGED <<call, pc, at, due, trail>>
      /\ at \in [Calls -> 0..Len(slots)]
  BY <1>1 DEF EngineTypeOK, RegisterTool, auditLog
<1>3. /\ Len(slots') = Len(slots) + 1 /\ \A s \in 1..Len(slots) : slots'[s] = slots[s]
  BY <1>1, RegisteredSlots
<1>4. LET n == slots'[Len(slots) + 1] IN n.denied = 0 /\ n.failures = 0 /\ n.invocations = 0
  BY <1>2 DEF RegisterTool
<1>5. \A c \in Calls : Told(c)'
  BY <1>2 DEF RecordInv, Told, Story
<1>6. ASSUME NEW s, NEW o
      PROVE  Recorded(s, o)' = Recorded(s, o)
  BY <1>2 DEF Recorded
<1>7. ASSUME NEW o
      PROVE  Cardinality(Recorded(Len(slots) + 1, o)) = 0
  <2>1. PICK n : n = Len(slots) + 1
    OBVIOUS
  <2>2. \A c \in Calls : at[c] # n
    BY <1>2, <2>1
  <2>3. Recorded(n, o) = {}
    BY <2>2 DEF Recorded
  <2> QED
    BY <2>1, <2>3, FS_EmptySet
<1>8. ASSUME NEW s \in 1..Len(slots')
      PROVE  /\ slots'[s].denied = Cardinality(Recorded(s, "denied")')
             /\ slots'[s].failures = Cardinality(Recorded(s, "failed")')
             /\ slots'[s].invocations = slots'[s].failures + Cardinality(Recorded(s, "ok")')
  <2>1. CASE s \in 1..Len(slots)
    BY <1>3, <1>6, <2>1 DEF RecordInv, CountersMatchTrail
  <2>2. CASE s = Len(slots) + 1
    BY <1>4, <1>6, <1>7, <2>2
  <2> QED
    BY <1>2, <1>3, <2>1, <2>2
<1>9. CountersMatchTrail'
  BY <1>8 DEF CountersMatchTrail
<1> QED
  BY <1>5, <1>9 DEF RecordInv

LEMMA RecordToggle ==
  ASSUME RecordInv, TypeInv', NEW a \in Operators, ToggleStore(a)
  PROVE  RecordInv'
<1>1. TypeInv /\ EngineTypeOK /\ EngineTypeOK'
  BY DEF RecordInv, TypeInv
<1>2. PICK i : i = toggles[a].slot
  OBVIOUS
<1>3. PICK v : v = toggles[a].value
  OBVIOUS
<1>4. /\ slots \in Seq(Slots) /\ i \in 1..Len(slots) /\ slots[i] \in Slots /\ v \in BOOLEAN
      /\ slots' = [slots EXCEPT ![i] = [slots[i] EXCEPT !.enabled = v]]
      /\ UNCHANGED <<call, pc, at, due, trail>>
  BY <1>1, <1>2, <1>3 DEF EngineTypeOK, ToggleStore, auditLog
<1>5. PICK x : x = [slots[i] EXCEPT !.enabled = v]
  OBVIOUS
<1>6. /\ x \in Slots /\ x.denied = slots[i].denied /\ x.failures = slots[i].failures
      /\ x.invocations = slots[i].invocations
  BY <1>4, <1>5 DEF Slots
<1>7. Len(slots') = Len(slots) /\ \A s \in 1..Len(slots) : slots'[s] = IF s = i THEN x ELSE slots[s]
  BY <1>4, <1>5, <1>6, SeqUpdate
<1>8. \A c \in Calls : Told(c)' /\ at'[c] = at[c] /\ Story(c)' = Story(c)
  BY <1>4 DEF RecordInv, Told, Story
<1>9. CountersMatchTrail'
  BY <1>1, <1>6, <1>7, <1>8, TallySame
<1> QED
  BY <1>8, <1>9 DEF RecordInv

LEMMA Carried ==
  ASSUME NEW a \in Nat, NEW b \in Nat, NEW n \in Nat, a = b + n
  PROVE  a + 1 = (b + 0) + (n + 1)
OBVIOUS

(* The counters of slot i become those of x, the other slots stay.          *)
LEMMA TallyStep ==
  ASSUME RecordInv, TypeInv', NEW c \in Calls, NEW o \in Seq(Outcomes), NEW i \in 1..Len(slots), NEW x \in Slots,
         i = at[c], pc[c] \notin Concluded, Conclude(c, o), UNCHANGED <<call, at, trail>>,
         o \in Stories(call[c].notif), o # << >>,
         slots' = [slots EXCEPT ![i] = x],
         x.denied = slots[i].denied + (IF Head(o) = "denied" THEN 1 ELSE 0),
         x.failures = slots[i].failures + (IF Head(o) = "failed" THEN 1 ELSE 0),
         x.invocations = slots[i].invocations + (IF Head(o) \in {"ok", "failed"} THEN 1 ELSE 0)
  PROVE  RecordInv'
<1>1. slots \in Seq(Slots) /\ slots[i] \in Slots
  BY DEF RecordInv, TypeInv, EngineTypeOK
<1>2. Len(slots') = Len(slots) /\ \A s \in 1..Len(slots) : slots'[s] = IF s = i THEN x ELSE slots[s]
  BY <1>1, SeqUpdate
<1>3. /\ \A d \in Calls : Told(d)'
      /\ Story(c) = << >> /\ Story(c)' = o
      /\ \A d \in Calls \ {c} : at'[d] = at[d] /\ Story(d)' = Story(d)
  BY TellConclude
<1>4. PICK h : h = Head(o)
  OBVIOUS
<1>5. /\ Cardinality(Recorded(i, h)') = Cardinality(Recorded(i, h)) + 1
      /\ \A s, q : s # i \/ q # h => Recorded(s, q)' = Recorded(s, q)
  <2>1. at'[c] = i /\ at'[c] = at[c]
    OBVIOUS
  <2>2. \A q : Recorded(i, q)' = Recorded(at[c], q)' /\ Recorded(i, q) = Recorded(at[c], q)
    BY <2>1 DEF Recorded
  <2>3. Cardinality(Recorded(at[c], h)') = Cardinality(Recorded(at[c], h)) + 1
    BY <1>3, <1>4, <2>1, TallyOne
  <2>4. ASSUME NEW s, NEW q, s # i \/ q # h
        PROVE  Recorded(s, q)' = Recorded(s, q)
    BY <1>3, <1>4, <2>1, <2>4, TallyOne
  <2> QED
    BY <2>2, <2>3, <2>4
<1>6. /\ slots[i].denied \in Nat /\ slots[i].failures \in Nat /\ slots[i].invocations \in Nat
  BY <1>1 DEF Slots
<1>7. ASSUME NEW s \in 1..Len(slots')
      PROVE  /\ slots'[s].denied = Cardinality(Recorded(s, "denied")')
             /\ slots'[s].failures = Cardinality(Recorded(s, "failed")')
             /\ slots'[s].invocations = slots'[s].failures + Cardinality(Recorded(s, "ok")')
  <2>1. /\ s \in 1..Len(slots)
        /\ slots[s].denied = Cardinality(Recorded(s, "denied"))
        /\ slots[s].failures = Cardinality(Recorded(s, "failed"))
        /\ slots[s].invocations = slots[s].failures + Cardinality(Recorded(s, "ok"))
    BY <1>2 DEF RecordInv, CountersMatchTrail
  <2>2. CASE s # i
    BY <1>2, <1>5, <2>1, <2>2
  <2>3. CASE s = i
    <3>1. /\ Cardinality(Recorded(i, "denied")') = Cardinality(Recorded(i, "denied")) + (IF h = "denied" THEN 1 ELSE 0)
          /\ Cardinality(Recorded(i, "failed")') = Cardinality(Recorded(i, "failed")) + (IF h = "failed" THEN 1 ELSE 0)
          /\ Cardinality(Recorded(i, "ok")') = Cardinality(Recorded(i, "ok")) + (IF h = "ok" THEN 1 ELSE 0)
      <4>1. \A q : Cardinality(Recorded(i, q)') = Cardinality(Recorded(i, q)) + (IF h = q THEN 1 ELSE 0)
        <5> SUFFICES ASSUME NEW q
                     PROVE  Cardinality(Recorded(i, q)') = Cardinality(Recorded(i, q)) + (IF h = q THEN 1 ELSE 0)
          OBVIOUS
        <5>1. CASE q = h
          BY <1>5, <5>1
        <5>2. CASE q # h
          <6>1. Recorded(i, q)' = Recorded(i, q) /\ Cardinality(Recorded(i, q)) \in Nat
            BY <1>5, <5>2, RecordedFinite
          <6> QED
            BY <5>2, <6>1
        <5> QED
          BY <5>1, <5>2
      <4> QED
        BY <4>1
    <3>2. /\ Cardinality(Recorded(i, "denied")) \in Nat /\ Cardinality(Recorded(i, "failed")) \in Nat
          /\ Cardinality(Recorded(i, "ok")) \in Nat
      BY RecordedFinite
    <3>3. slots'[s] = x
      BY <1>2, <2>1, <2>3
    <3>4. slots'[s].denied = Cardinality(Recorded(s, "denied")')
      BY <1>4, <2>1, <2>3, <3>1, <3>3
    <3>5. slots'[s].failures = Cardinality(Recorded(s, "failed")')
      BY <1>4, <2>1, <2>3, <3>1, <3>3
    <3>6. /\ slots'[s].invocations = slots[i].invocations + (IF h \in {"ok", "failed"} THEN 1 ELSE 0)
          /\ slots'[s].failures = slots[i].failures + (IF h = "failed" THEN 1 ELSE 0)
          /\ slots[i].invocations = slots[i].failures + Cardinality(Recorded(i, "ok"))
      BY <1>4, <2>1, <2>3, <3>3
    <3>7. slots'[s].invocations = slots'[s].failures + Cardinality(Recorded(s, "ok")')
      <4>1. CASE h = "ok"
        <5>1. /\ slots'[s].invocations = slots[i].invocations + 1
              /\ slots'[s].failures = slots[i].failures + 0
              /\ Cardinality(Recorded(i, "ok")') = Cardinality(Recorded(i, "ok")) + 1
          BY <3>1, <3>6, <4>1
        <5>2. Cardinality(Recorded(s, "ok")') = Cardinality(Recorded(i, "ok")) + 1
          BY <2>3, <5>1
        <5>3. slots[i].invocations + 1 = (slots[i].failures + 0) + (Cardinality(Recorded(i, "ok")) + 1)
          <6>1. PICK n : n = Cardinality(Recorded(i, "ok"))
            OBVIOUS
          <6>2. slots[i].invocations = slots[i].failures + n /\ n \in Nat
            BY <3>2, <3>6, <6>1
          <6>3. slots[i].invocations + 1 = (slots[i].failures + 0) + (n + 1)
            BY <1>6, <6>2, Carried, ZenonT(30)
          <6> QED
            BY <6>1, <6>3
        <5> QED
          BY <5>1, <5>2, <5>3
      <4>2. CASE h = "failed"
        BY <1>6, <2>3, <3>1, <3>2, <3>6, <4>2
      <4>3. CASE h \notin {"ok", "failed"}
        BY <1>6, <2>3, <3>1, <3>2, <3>6, <4>3
      <4> QED
        BY <4>1, <4>2, <4>3
    <3> QED
      BY <3>4, <3>5, <3>7
  <2> QED
    BY <2>2, <2>3
<1>8. CountersMatchTrail'
  BY <1>7 DEF CountersMatchTrail
<1> QED
  BY <1>3, <1>8 DEF RecordInv

(* The stories a dispatch may be concluded with.                            *)
LEMMA StoryType ==
  ASSUME TypeInv, NEW c \in Calls, pc[c] # "idle"
  PROVE  /\ \A o \in {"denied", "invalid"} :
              /\ <<o>> \o Echo(c) \in Stories(call[c].notif) \cap Seq(Outcomes)
              /\ <<o>> \o Echo(c) # << >> /\ Head(<<o>> \o Echo(c)) = o
         /\ \A o \in {"ok", "failed"} :
              /\ <<o>> \in Stories(call[c].notif) \cap Seq(Outcomes)
              /\ <<o>> # << >> /\ Head(<<o>>) = o
<1>1. ASSUME NEW o \in {"denied", "invalid"}
      PROVE  /\ <<o>> \o Echo(c) \in Stories(call[c].notif) \cap Seq(Outcomes)
             /\ <<o>> \o Echo(c) # << >> /\ Head(<<o>> \o Echo(c)) = o
  <2>1. PICK q : q = <<o>> \o Echo(c)
    OBVIOUS
  <2>2. q \in Seq(Outcomes)
    BY <2>1, EchoType, OutcomeType
  <2>3. CASE call[c].notif
    <3>1. q = <<o>> \o <<"failed">>
      BY <2>1, <2>3 DEF Echo
    <3>2. Len(q) = 2 /\ q[1] = o /\ q[2] = "failed"
      BY <3>1
    <3>3. q # << >> /\ Head(q) = o
      BY <2>2, <3>2
    <3> QED
      BY <2>1, <2>2, <2>3, <3>2, <3>3 DEF Stories
  <2>4. CASE ~ call[c].notif
    <3>1. q = <<o>> \o << >>
      BY <2>1, <2>4 DEF Echo
    <3>2. Len(q) = 1 /\ q[1] = o
      BY <3>1
    <3>3. q # << >> /\ Head(q) = o
      BY <2>2, <3>2
    <3> QED
      BY <2>1, <2>2, <2>4, <3>2, <3>3 DEF Stories
  <2> QED
    BY <2>3, <2>4
<1>2. ASSUME NEW o \in {"ok", "failed"}
      PROVE  /\ <<o>> \in Stories(call[c].notif) \cap Seq(Outcomes)
             /\ <<o>> # << >> /\ Head(<<o>>) = o
  <2>1. PICK q : q = <<o>>
    OBVIOUS
  <2>2. q \in Seq(Outcomes) /\ Len(q) = 1 /\ q[1] = o /\ q # << >> /\ Head(q) = o
    BY <2>1, OutcomeType
  <2> QED
    BY <2>1, <2>2 DEF Stories
<1> QED
  BY <1>1, <1>2

(* The steps between look-up and invocation: one of them denies.            *)
LEMMA RecordChecks ==
  ASSUME RecordInv, TypeInv', NEW c \in Calls, CheckSwitch(c) \/ CheckRole(c) \/ CheckSchema(c)
  PROVE  RecordInv'
<1>1. TypeInv /\ EngineTypeOK
  BY DEF RecordInv, TypeInv
<1>2. PICK i : i = at[c]
  OBVIOUS
<1>3. /\ pc[c] \in HasSlot /\ pc[c] \notin Concluded /\ pc[c] # "idle"
      /\ call[c].method = "tools/call"
      /\ i \in 1..Len(slots) /\ slots \in Seq(Slots) /\ slots[i] \in Slots
      /\ UNCHANGED <<call, at, trail>>
  <2>1. pc[c] \in HasSlot /\ UNCHANGED <<call, at, auditLog>>
    BY <1>1, ChecksCounted
  <2>2. pc[c] \notin Concluded /\ pc[c] # "idle"
    BY <2>1 DEF HasSlot, Concluded
  <2>3. call[c].method = "tools/call" /\ at[c] # 0
    BY <1>1, <2>1 DEF TypeInv, Bound
  <2>4. i \in 1..Len(slots) /\ slots \in Seq(Slots)
    BY <1>1, <1>2, <2>3 DEF EngineTypeOK
  <2> QED
    BY <2>1, <2>2, <2>3, <2>4 DEF auditLog
<1>4. \/ \E state \in {"enabled", "permitted", "invoking"} : Pass(c, state)
      \/ Deny(c)
      \/ Conclude(c, <<"invalid">> \o Echo(c)) /\ UNCHANGED slots
  BY DEF CheckSwitch, CheckRole, CheckSchema
<1>5. CASE \E state \in {"enabled", "permitted", "invoking"} : Pass(c, state)
  <2>1. PICK state \in {"enabled", "permitted", "invoking"} : Pass(c, state)
    BY <1>5
  <2>2. /\ pc'[c] = state /\ \A d \in Calls \ {c} : pc'[d] = pc[d]
        /\ UNCHANGED <<slots, due>>
    BY <1>1, <2>1 DEF Pass, Goto, EngineTypeOK
  <2> QED
    BY <1>3, <2>2, RecordMove DEF HasSlot, Concluded
<1>6. CASE Deny(c)
  <2>1. PICK o : o = <<"denied">> \o Echo(c)
    OBVIOUS
  <2>2. o \in Stories(call[c].notif) \cap Seq(Outcomes) /\ o # << >> /\ Head(o) = "denied" /\ Conclude(c, o)
    BY <1>1, <1>3, <1>6, <2>1, StoryType DEF Deny
  <2>3. PICK x : x = [slots[i] EXCEPT !.denied = slots[i].denied + 1]
    OBVIOUS
  <2>4. slots' = [slots EXCEPT ![i] = x]
    BY <1>2, <1>6, <2>3 DEF Deny
  <2>5. /\ x \in Slots /\ x.denied = slots[i].denied + 1 /\ x.failures = slots[i].failures
        /\ x.invocations = slots[i].invocations
        /\ slots[i].failures \in Nat /\ slots[i].invocations \in Nat
    <3>1. slots[i].denied \in Nat /\ slots[i].failures \in Nat /\ slots[i].invocations \in Nat
      BY <1>3 DEF Slots
    <3>2. PICK n : n = slots[i].denied + 1
      OBVIOUS
    <3>3. n \in Nat /\ x = [slots[i] EXCEPT !.denied = n]
      BY <2>3, <3>1, <3>2
    <3>4. x \in Slots
      BY <1>3, <3>3 DEF Slots
    <3>5. x.denied = n /\ x.failures = slots[i].failures /\ x.invocations = slots[i].invocations
      BY <1>3, <3>3 DEF Slots
    <3> QED
      BY <3>1, <3>2, <3>4, <3>5
  <2>6. x.failures = slots[i].failures + 0 /\ x.invocations = slots[i].invocations + 0
    BY <2>5
  <2> QED
    BY <1>2, <1>3, <2>2, <2>4, <2>5, <2>6, TallyStep
<1>7. CASE Conclude(c, <<"invalid">> \o Echo(c)) /\ UNCHANGED slots
  <2>1. PICK o : o = <<"invalid">> \o Echo(c)
    OBVIOUS
  <2>2. o \in Stories(call[c].notif) \cap Seq(Outcomes) /\ o # << >> /\ Head(o) = "invalid" /\ Conclude(c, o)
    BY <1>1, <1>3, <1>7, <2>1, StoryType
  <2>3. PICK x : x = slots[i]
    OBVIOUS
  <2>4. slots' = [slots EXCEPT ![i] = x]
    BY <1>3, <1>7, <2>3
  <2>5. /\ x \in Slots /\ x.denied = slots[i].denied + 0 /\ x.failures = slots[i].failures + 0
        /\ x.invocations = slots[i].invocations + 0
    <3>1. slots[i].denied \in Nat /\ slots[i].failures \in Nat /\ slots[i].invocations \in Nat
      BY <1>3 DEF Slots
    <3> QED
      BY <1>3, <2>3, <3>1
  <2> QED
    BY <1>2, <1>3, <2>2, <2>4, <2>5, TallyStep
<1> QED
  BY <1>4, <1>5, <1>6, <1>7

LEMMA RecordReturns ==
  ASSUME RecordInv, TypeInv', NEW c \in Calls, NEW outcome \in {"ok", "failed"}, ToolReturns(c, outcome)
  PROVE  RecordInv'
<1>1. TypeInv /\ EngineTypeOK
  BY DEF RecordInv, TypeInv
<1>2. PICK i : i = at[c]
  OBVIOUS
<1>3. /\ pc[c] = "invoking" /\ pc[c] \notin Concluded
      /\ i \in 1..Len(slots) /\ slots \in Seq(Slots) /\ slots[i] \in Slots
      /\ UNCHANGED <<call, at, trail>>
  BY <1>1, <1>2 DEF TypeInv, Bound, EngineTypeOK, Concluded, auditLog, ToolReturns
<1>4. PICK o : o = <<outcome>>
  OBVIOUS
<1>5. o \in Stories(call[c].notif) \cap Seq(Outcomes) /\ o # << >> /\ Head(o) = outcome /\ Conclude(c, o)
  BY <1>1, <1>3, <1>4, StoryType DEF ToolReturns
<1>6. PICK f : f = slots[i].failures + (IF outcome = "failed" THEN 1 ELSE 0)
  OBVIOUS
<1>7. PICK x : x = [slots[i] EXCEPT !.invocations = slots[i].invocations + 1]
  OBVIOUS
<1>8. PICK y : y = [x EXCEPT !.failures = f]
  OBVIOUS
<1>9. /\ f \in Nat /\ y \in Slots /\ y.denied = slots[i].denied + 0 /\ y.failures = f
      /\ y.invocations = slots[i].invocations + 1
  <2>1. slots[i].denied \in Nat /\ slots[i].failures \in Nat /\ slots[i].invocations \in Nat
    BY <1>3 DEF Slots
  <2>2. f \in Nat
    BY <1>6, <2>1
  <2>3. y \in Slots /\ y.denied = slots[i].denied /\ y.failures = f /\ y.invocations = slots[i].invocations + 1
    <3>1. /\ x \in Slots /\ x.denied = slots[i].denied
          /\ x.invocations = slots[i].invocations + 1
      <4>1. PICK n : n = slots[i].invocations + 1
        OBVIOUS
      <4>2. n \in Nat /\ x = [slots[i] EXCEPT !.invocations = n]
        BY <1>7, <2>1, <4>1
      <4>3. x \in Slots
        BY <1>3, <4>2 DEF Slots
      <4>4. x.denied = slots[i].denied /\ x.invocations = n
        BY <1>3, <4>2 DEF Slots
      <4> QED
        BY <4>1, <4>3, <4>4
    <3>2. y \in Slots
      BY <1>8, <2>2, <3>1 DEF Slots
    <3>3. y.denied = x.denied /\ y.failures = f /\ y.invocations = x.invocations
      BY <1>8, <3>1 DEF Slots
    <3> QED
      BY <3>1, <3>2, <3>3
  <2> QED
    BY <2>1, <2>2, <2>3
<1>10. slots' = [slots EXCEPT ![i] = y]
  <2>1. slots' = [slots EXCEPT ![i].invocations = slots[i].invocations + 1,
                               ![i].failures = IF outcome = "failed" THEN slots[i].failures + 1 ELSE slots[i].failures]
    BY <1>2, <1>3 DEF ToolReturns, Slots
  <2>2. f = IF outcome = "failed" THEN slots[i].failures + 1 ELSE slots[i].failures
    BY <1>3, <1>6 DEF Slots
  <2> QED
    BY <1>3, <1>7, <1>8, <2>1, <2>2 DEF Slots
<1> QED
  BY <1>2, <1>3, <1>5, <1>6, <1>9, <1>10, TallyStep

(* The look-up: the call takes the slot that carries its name, if any.      *)
LEMMA RecordFetch ==
  ASSUME RecordInv, TypeInv', NEW c \in Calls, FetchSlot(c)
  PROVE  RecordInv'
<1>1. TypeInv /\ EngineTypeOK
  BY DEF RecordInv, TypeInv
<1>2. /\ pc[c] = "dispatched" /\ pc[c] \notin Concluded /\ pc[c] # "idle" /\ at[c] = 0
      /\ call[c].method = "tools/call" /\ UNCHANGED <<slots, call, trail>>
  BY DEF FetchSlot, RecordInv, Told, HasSlot, Concluded, registry, auditLog
<1>3. CASE UNCHANGED at /\ (Conclude(c, Echo(c)) \/ Conclude(c, <<"invalid">> \o Echo(c)))
  <2>1. Echo(c) \in Seq(Outcomes) /\ <<"invalid">> \o Echo(c) \in Seq(Outcomes)
    BY <1>1, EchoType, OutcomeType
  <2>2. UNCHANGED <<slots, call, at, trail>>
    BY <1>2, <1>3
  <2> QED
    BY <1>2, <1>3, <2>1, <2>2, RecordAside
<1>4. CASE at' = [at EXCEPT ![c] = tools[call[c].target]] /\ Goto(c, "fetched") /\ UNCHANGED due
  <2>1. /\ pc'[c] = "fetched"
        /\ \A d \in Calls \ {c} : pc'[d] = pc[d] /\ call'[d] = call[d] /\ at'[d] = at[d]
        /\ UNCHANGED <<slots, trail, due>>
    BY <1>1, <1>2, <1>4 DEF Goto, EngineTypeOK
  <2>2. pc'[c] \notin Concluded /\ pc'[c] \in HasSlot /\ call'[c].method = "tools/call"
    BY <1>2, <2>1 DEF Concluded, HasSlot
  <2> QED
    BY <1>2, <2>1, <2>2, RecordMove
<1> QED
  BY <1>3, <1>4 DEF FetchSlot

LEMMA RecordNext == RecordInv /\ [EngineNext]_engineVars => RecordInv'
<1> SUFFICES ASSUME RecordInv, [EngineNext]_engineVars
             PROVE  RecordInv'
  OBVIOUS
<1>1. TypeInv /\ EngineTypeOK /\ TypeInv' /\ EngineTypeOK'
  BY TypeNext DEF RecordInv, TypeInv
<1>2. ASSUME NEW c \in Calls, pc[c] \in {"idle", "dispatched", "scan", "describe"}
      PROVE  at[c] = 0 /\ pc[c] \notin Concluded
  BY <1>2 DEF RecordInv, Told, HasSlot, Concluded
<1>3. ASSUME NEW c \in Calls, RefuseCall(c) \/ Other(c) \/ EndList(c) \/ AppReturns(c)
      PROVE  RecordInv'
  <2>1. at[c] = 0 /\ pc[c] \notin Concluded
    <3>1. CASE RefuseCall(c) \/ Other(c) \/ EndList(c)
      BY <1>2, <3>1 DEF RefuseCall, Other, EndList
    <3>2. CASE AppReturns(c)
      BY <3>2 DEF AppReturns, RecordInv, Told, Concluded
    <3> QED
      BY <1>3, <3>1, <3>2
  <2>2. UNCHANGED <<slots, call, at, trail>>
    BY <1>3 DEF RefuseCall, Other, EndList, AppReturns, registry, auditLog
  <2>3. \E o \in Seq(Outcomes) : Conclude(c, o)
    <3>1. Echo(c) \in Seq(Outcomes)
      BY <1>1, EchoType
    <3>2. \/ Conclude(c, <<"rejected">>) \/ Conclude(c, <<"invalid">>)
          \/ Conclude(c, << >>) \/ Conclude(c, Echo(c))
      BY <1>3 DEF RefuseCall, Other, EndList, AppReturns
    <3> QED
      BY <3>1, <3>2, OutcomeType
  <2> QED
    BY <1>1, <2>1, <2>2, <2>3, RecordAside
<1>4. ASSUME NEW c \in Calls, Read(c) \/ Prompt(c)
      PROVE  RecordInv'
  <2>1. /\ pc[c] = "dispatched" /\ UNCHANGED <<slots, call, at, trail>>
        /\ (Conclude(c, Echo(c)) \/ (Goto(c, "invoking") /\ UNCHANGED due))
    BY <1>4 DEF Read, Prompt, registry, auditLog
  <2>2. at[c] = 0 /\ pc[c] \notin Concluded
    BY <1>2, <2>1
  <2>3. CASE Conclude(c, Echo(c))
    <3>1. Echo(c) \in Seq(Outcomes)
      BY <1>1, EchoType
    <3> QED
      BY <1>1, <2>1, <2>2, <2>3, <3>1, RecordAside
  <2>4. CASE Goto(c, "invoking") /\ UNCHANGED due
    <3>1. /\ pc'[c] = "invoking" /\ pc'[c] \notin Concluded /\ at'[c] = 0
          /\ \A d \in Calls \ {c} : pc'[d] = pc[d] /\ call'[d] = call[d] /\ at'[d] = at[d]
      BY <1>1, <2>1, <2>2, <2>4 DEF Goto, EngineTypeOK, Concluded
    <3> QED
      BY <1>1, <2>1, <2>2, <2>4, <3>1, RecordMove
  <2> QED
    BY <2>1, <2>3, <2>4
<1>5. ASSUME NEW c \in Calls, StartList(c) \/ Scan(c) \/ EndScan(c) \/ Describe(c)
      PROVE  RecordInv'
  <2>1. pc[c] \in {"dispatched", "scan", "describe"} /\ UNCHANGED <<slots, call, at, trail, due>>
    BY <1>5 DEF StartList, Scan, EndScan, Describe, registry, auditLog
  <2>2. at[c] = 0 /\ pc[c] \notin Concluded
    BY <1>2, <2>1
  <2>3. UNCHANGED pc \/ \E state \in {"scan", "describe"} : Goto(c, state)
    BY <1>5 DEF StartList, Scan, EndScan, Describe
  <2>4. /\ pc'[c] \in {pc[c], "scan", "describe"} /\ \A d \in Calls \ {c} : pc'[d] = pc[d]
    BY <1>1, <2>3 DEF Goto, EngineTypeOK
  <2>5. pc'[c] \notin Concluded /\ at'[c] = 0
    BY <2>1, <2>2, <2>4 DEF Concluded
  <2> QED
    BY <1>1, <2>1, <2>2, <2>4, <2>5, RecordMove
<1>6. ASSUME NEW c \in Calls, Unwind(c)
      PROVE  RecordInv'
  <2>1. /\ pc[c] = "invoking" /\ pc[c] \notin Concluded /\ pc'[c] = "unwound" /\ pc'[c] \notin Concluded
        /\ UNCHANGED <<slots, call, at, trail, due>> /\ \A d \in Calls \ {c} : pc'[d] = pc[d]
    BY <1>1, <1>6 DEF Unwind, Goto, EngineTypeOK, Concluded, registry, auditLog
  <2>2. at'[c] # 0 => call'[c].method = "tools/call"
    BY <2>1 DEF RecordInv, Told
  <2> QED
    BY <1>1, <2>1, <2>2, RecordMove
<1>7. ASSUME NEW c \in Calls, NEW r \in Messages, Arrive(c, r)
      PROVE  RecordInv'
  <2>1. /\ pc[c] = "idle" /\ pc'[c] = "dispatched" /\ pc'[c] \notin Concluded
        /\ UNCHANGED <<slots, at, trail, due>>
        /\ \A d \in Calls \ {c} : pc'[d] = pc[d] /\ call'[d] = call[d]
    BY <1>1, <1>7 DEF Arrive, Goto, EngineTypeOK, Concluded, registry, auditLog
  <2>2. at'[c] = 0 /\ pc[c] \notin Concluded
    BY <1>2, <2>1
  <2> QED
    BY <1>1, <2>1, <2>2, RecordMove
<1>8. ASSUME UNCHANGED <<slots, call, pc, at, due, trail>>
      PROVE  RecordInv'
  BY <1>1, <1>8 DEF RecordInv, Told, Story, CountersMatchTrail, Recorded
<1>9. ASSUME NEW a \in Operators, NEW t \in Tools, NEW value \in BOOLEAN, ToggleFetch(a, t, value)
      PROVE  RecordInv'
  BY <1>8, <1>9 DEF ToggleFetch, auditLog
<1>10. CASE UNCHANGED engineVars
  BY <1>8, <1>10 DEF engineVars, registry, auditLog
<1> QED
  BY <1>1, <1>3, <1>4, <1>5, <1>6, <1>7, <1>9, <1>10, RecordRegister, RecordToggle, RecordRecord,
     RecordFetch, RecordChecks, RecordReturns DEF EngineNext, Engine, Returns

(* The counters of every slot and the audit trail tell one story: every     *)
(* denial and every invocation that returned is in both, once; a call of a  *)
(* registered tool that did not unwind left its record. For any number of   *)
(* calls, whatever is registered under a name while they run.               *)
THEOREM RecordsSound == EngineSpec => []RecordsAgree
<1>1. RecordInv => RecordsAgree
  <2> SUFFICES ASSUME RecordInv PROVE RecordsAgree
    OBVIOUS
  <2>1. ASSUME NEW c \in Calls, pc[c] = "done", at[c] # 0
        PROVE  IF call[c].notif /\ trail[c][1] \in {"denied", "invalid"}
               THEN Len(trail[c]) = 2 /\ trail[c][2] = "failed"
               ELSE Len(trail[c]) = 1
    <3>1. trail[c] \in Seq(Outcomes) /\ due[c] = << >> /\ Story(c) \in Stories(call[c].notif)
      BY <2>1 DEF RecordInv, TypeInv, EngineTypeOK, Told, Concluded
    <3>2. Story(c) = trail[c]
      BY <3>1, Joined DEF Story
    <3> QED
      BY <3>1, <3>2 DEF Stories
  <2>2. EveryCallRecorded
    BY <2>1 DEF EveryCallRecorded
  <2> QED
    BY <2>2 DEF RecordInv, TypeInv, RecordsAgree
<1> QED
  BY <1>1, RecordInit, RecordNext, PTL DEF EngineSpec
=============================================================================
