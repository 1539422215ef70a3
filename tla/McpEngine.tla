------------------------------ MODULE McpEngine ------------------------------
(***************************************************************************)
(* The MCP dispatch engine: McpEngine::dispatch of src/src/mcp/engine.rs,  *)
(* the tool registry of registry.rs it looks tools up in, the audit ring   *)
(* of audit.rs it records to, and the administrators who flip a tool's     *)
(* kill switch through src/src/gritadmin/mcp.rs meanwhile.                 *)
(*                                                                         *)
(* Calls run on several threads. A look-up in the registry (a DashMap)     *)
(* yields a slot that stays alive after the name has been registered anew; *)
(* the flag of a slot is read and written atomically; between two of these *)
(* steps anything may happen. Counters are increments nobody decides on,   *)
(* so an increment belongs to the step it follows.                         *)
(***************************************************************************)
EXTENDS Integers, Sequences, FiniteSets, SequencesExt

CONSTANTS
  Calls,       (* JSON-RPC messages, each dispatched once.                 *)
  Tools,       (* Tool names.                                              *)
  Resources,   (* URIs in the inventory of resources.                      *)
  Prompts,     (* Names in the inventory of prompts.                       *)
  Gated,       (* Resources and prompts whose required_role is set.        *)
  Unknown,     (* A name or URI that is missing or means nothing.          *)
  Schemas,     (* What a tool may be registered with: whether it asks for  *)
               (* a role, and whether it starts enabled.                   *)
  Messages,    (* The messages clients send, of the Requests below.        *)
  Privileged,  (* Calls whose context has the role that is asked for.      *)
  Operators,   (* Administrators at /admin/mcp.                            *)
  MaxSlots,    (* Tools registered in a behaviour, at most.                *)
  Capacity     (* capacity of the audit log (512).                         *)

(* Other methods (initialize, ping, ...) answer or refuse at once.          *)
Requests ==
  [method : {"tools/call"}, target : Tools \cup {Unknown}, notif : BOOLEAN] \cup
  [method : {"resources/read"}, target : Resources \cup {Unknown}, notif : BOOLEAN] \cup
  [method : {"prompts/get"}, target : Prompts \cup {Unknown}, notif : BOOLEAN] \cup
  [method : {"tools/list", "other"}, target : {Unknown}, notif : BOOLEAN]

ASSUME McpEngineAssumption ==
  /\ IsFiniteSet(Calls)
  /\ MaxSlots \in Nat
  /\ Capacity \in Nat \ {0}
  /\ Gated \subseteq Resources \cup Prompts
  /\ Privileged \subseteq Calls
  /\ Messages \subseteq Requests
  /\ Schemas \subseteq [gated : BOOLEAN, enabled : BOOLEAN]
  /\ Unknown \notin Tools \cup Resources \cup Prompts

VARIABLES
  slots,   (* Every ToolSlot made so far, in order.                        *)
  tools,   (* tools[t]: the slot registered under t, 0 if there is none.   *)
  call,    (* call[c]: the message c.                                      *)
  pc,      (* pc[c]: where the dispatch of c stands.                       *)
  at,      (* at[c]: the slot c has fetched, 0 if it has none.             *)
  names,   (* names[c]: tools tools/list still has to look at.             *)
  listed,  (* listed[c]: tools tools/list advertises.                      *)
  due,     (* due[c]: outcomes c has still to record.                      *)
  ring,    (* The audit log, the newest entry last.                        *)
  toggles, (* toggles[a]: the slot a's toggle has fetched and its new value.*)
  trail,   (* trail[c]: history, the outcomes recorded for c.              *)
  closed   (* closed[c]: history, the tools no call was allowed to reach   *)
           (* when c came in, and that nobody has enabled, or registered   *)
           (* as enabled, since.                                           *)

registry == <<slots, tools, toggles>>
auditLog == <<ring, trail>>
engineVars == <<registry, call, pc, at, names, listed, due, auditLog, closed>>

Outcomes == {"ok", "denied", "invalid", "failed", "rejected"}

Slots == [tool : Tools, gated : BOOLEAN, enabled : BOOLEAN,
          invocations : Nat, failures : Nat, denied : Nat]

NoRequest == [method |-> "none"]

States == {"idle", "dispatched", "fetched", "enabled", "permitted", "invoking",
           "scan", "describe", "record", "done", "unwound"}
NoToggle == [slot |-> 0, value |-> FALSE]

EngineTypeOK ==
  /\ slots \in Seq(Slots) /\ Len(slots) <= MaxSlots
  /\ tools \in [Tools -> 0..Len(slots)]
  /\ call \in [Calls -> Requests \cup {NoRequest}]
  /\ pc \in [Calls -> States]
  /\ at \in [Calls -> 0..Len(slots)]
  /\ names \in [Calls -> SUBSET Tools]
  /\ listed \in [Calls -> SUBSET Tools]
  /\ due \in [Calls -> Seq(Outcomes)]
  /\ ring \in Seq([call : Calls, outcome : Outcomes]) /\ Len(ring) <= Capacity
  /\ toggles \in [Operators -> [slot : 0..Len(slots), value : BOOLEAN]]
  /\ trail \in [Calls -> Seq(Outcomes)]
  /\ closed \in [Calls -> SUBSET Tools]

EngineInit ==
  /\ slots = << >>
  /\ tools = [t \in Tools |-> 0]
  /\ call = [c \in Calls |-> NoRequest]
  /\ pc = [c \in Calls |-> "idle"]
  /\ at = [c \in Calls |-> 0]
  /\ names = [c \in Calls |-> {}]
  /\ listed = [c \in Calls |-> {}]
  /\ due = [c \in Calls |-> << >>]
  /\ ring = << >>
  /\ toggles = [a \in Operators |-> NoToggle]
  /\ trail = [c \in Calls |-> << >>]
  /\ closed = [c \in Calls |-> {}]

Goto(c, state) == pc' = [pc EXCEPT ![c] = state]

Registered(t) == tools[t] # 0
Open(t) == Registered(t) /\ slots[tools[t]].enabled

(* is_permitted: the role a schema asks for, if any.                        *)
Permits(c, s) == slots[s].gated => c \in Privileged

(***************************************************************************)
(* The registry and the administrators                                     *)
(***************************************************************************)
Reopen(t) == closed' = [c \in Calls |-> closed[c] \ {t}]

(* insert_static and register_tool: a new slot takes the name, enabled as   *)
(* its schema says and with counters of its own.                            *)
RegisterTool(t, schema) ==
  /\ Len(slots) < MaxSlots
  /\ slots' = Append(slots, [tool |-> t, gated |-> schema.gated, enabled |-> schema.enabled,
                             invocations |-> 0, failures |-> 0, denied |-> 0])
  /\ tools' = [tools EXCEPT ![t] = Len(slots) + 1]
  /\ IF schema.enabled THEN Reopen(t) ELSE UNCHANGED closed
  /\ UNCHANGED <<call, pc, at, names, listed, due, auditLog, toggles>>

(* set_enabled fetches the slot; an unknown name is answered with 404. The  *)
(* form and the API both post the value the tool shall have.                *)
ToggleFetch(a, t, value) ==
  /\ toggles[a] = NoToggle
  /\ Registered(t)
  /\ toggles' = [toggles EXCEPT ![a] = [slot |-> tools[t], value |-> value]]
  /\ UNCHANGED <<slots, tools, call, pc, at, names, listed, due, auditLog, closed>>

ToggleStore(a) ==
  LET s == toggles[a].slot IN
  /\ s # 0
  /\ slots' = [slots EXCEPT ![s].enabled = toggles[a].value]
  /\ toggles' = [toggles EXCEPT ![a] = NoToggle]
  /\ IF toggles[a].value THEN Reopen(slots[s].tool) ELSE UNCHANGED closed
  /\ UNCHANGED <<tools, call, pc, at, names, listed, due, auditLog>>

(***************************************************************************)
(* Dispatch                                                                *)
(***************************************************************************)
(* The tools a message is about.                                            *)
About(r) == CASE r.method = "tools/call" -> {r.target} \cap Tools
              [] r.method = "tools/list" -> Tools
              [] OTHER -> {}

Arrive(c, r) ==
  /\ pc[c] = "idle"
  /\ Goto(c, "dispatched")
  /\ call' = [call EXCEPT ![c] = r]
  /\ closed' = [closed EXCEPT ![c] = {t \in About(r) : ~ Open(t)}]
  /\ UNCHANGED <<registry, at, names, listed, due, auditLog>>

(* The dispatch records these outcomes and is over.                         *)
Conclude(c, outcomes) ==
  /\ due' = [due EXCEPT ![c] = outcomes]
  /\ Goto(c, IF outcomes = << >> THEN "done" ELSE "record")

(* What a route that returned Err adds: a failed notification is recorded.  *)
Echo(c) == IF call[c].notif THEN <<"failed">> ELSE << >>

(* Mutation of RecordOutcome: the ring grows before an entry gives way.     *)
RecordOutcomeBeyond(c) ==
  LET entry == [call |-> c, outcome |-> Head(due[c])] IN
  /\ pc[c] = "record"
  /\ ring' = Append(IF Len(ring) > Capacity THEN Tail(ring) ELSE ring, entry)
  /\ trail' = [trail EXCEPT ![c] = Append(@, entry.outcome)]
  /\ Conclude(c, Tail(due[c]))
  /\ UNCHANGED <<registry, call, at, names, listed, closed>>

(* record: the oldest entries give way. No await, so nothing cancels it.    *)
RecordOutcome(c) ==
  LET entry == [call |-> c, outcome |-> Head(due[c])] IN
  /\ pc[c] = "record"
  /\ ring' = Append(IF Len(ring) >= Capacity THEN Tail(ring) ELSE ring, entry)
  /\ trail' = [trail EXCEPT ![c] = Append(@, entry.outcome)]
  /\ Conclude(c, Tail(due[c]))
  /\ UNCHANGED <<registry, call, at, names, listed, closed>>

(* Rejected credentials, or an envelope of another JSON-RPC version.        *)
RefuseCall(c) ==
  /\ pc[c] = "dispatched"
  /\ Conclude(c, <<"rejected">>) \/ Conclude(c, <<"invalid">>)
  /\ UNCHANGED <<registry, call, at, names, listed, auditLog, closed>>

Other(c) ==
  /\ pc[c] = "dispatched"
  /\ call[c].method = "other"
  /\ Conclude(c, << >>) \/ Conclude(c, Echo(c))
  /\ UNCHANGED <<registry, call, at, names, listed, auditLog, closed>>

(***************************************************************************)
(* tools/call                                                              *)
(***************************************************************************)

(* A call without a name is refused before there is a name to record; one   *)
(* with a name nobody registered is recorded.                               *)
FetchSlot(c) ==
  LET t == call[c].target IN
  /\ pc[c] = "dispatched"
  /\ call[c].method = "tools/call"
  /\ \/ /\ t = Unknown
        /\ Conclude(c, Echo(c)) \/ Conclude(c, <<"invalid">> \o Echo(c))
        /\ UNCHANGED at
     \/ /\ t # Unknown /\ ~ Registered(t)
        /\ Conclude(c, <<"invalid">> \o Echo(c))
        /\ UNCHANGED at
     \/ /\ t # Unknown /\ Registered(t)
        /\ at' = [at EXCEPT ![c] = tools[t]]
        /\ Goto(c, "fetched")
        /\ UNCHANGED due
  /\ UNCHANGED <<registry, call, names, listed, auditLog, closed>>

(* Mutation of Deny: the counter goes up and nothing is recorded.           *)
DenySilently(c) ==
  /\ slots' = [slots EXCEPT ![at[c]].denied = @ + 1]
  /\ Conclude(c, Echo(c))

Deny(c) ==
  /\ slots' = [slots EXCEPT ![at[c]].denied = @ + 1]
  /\ Conclude(c, <<"denied">> \o Echo(c))

Pass(c, state) == Goto(c, state) /\ UNCHANGED <<slots, due>>

(* Mutation of CheckSwitch: it does not bind a call that has the role.      *)
CheckSwitchOfOthers(c) ==
  /\ pc[c] = "fetched"
  /\ IF slots[at[c]].enabled \/ c \in Privileged THEN Pass(c, "enabled") ELSE Deny(c)
  /\ UNCHANGED <<tools, toggles, call, at, names, listed, auditLog, closed>>

CheckSwitch(c) ==
  /\ pc[c] = "fetched"
  /\ IF slots[at[c]].enabled THEN Pass(c, "enabled") ELSE Deny(c)
  /\ UNCHANGED <<tools, toggles, call, at, names, listed, auditLog, closed>>

CheckRole(c) ==
  /\ pc[c] = "enabled"
  /\ IF Permits(c, at[c]) THEN Pass(c, "permitted") ELSE Deny(c)
  /\ UNCHANGED <<tools, toggles, call, at, names, listed, auditLog, closed>>

(* Mutation of CheckSchema: the tool is looked up again to invoke it.       *)
CheckSchemaRefetch(c) ==
  /\ pc[c] = "permitted"
  /\ \/ Pass(c, "invoking") /\ at' = [at EXCEPT ![c] = tools[call[c].target]]
     \/ Conclude(c, <<"invalid">> \o Echo(c)) /\ UNCHANGED <<slots, at>>
  /\ UNCHANGED <<tools, toggles, call, names, listed, auditLog, closed>>

(* The arguments fit the schema of the slot, and its invoker starts.        *)
CheckSchema(c) ==
  /\ pc[c] = "permitted"
  /\ Pass(c, "invoking") \/ (Conclude(c, <<"invalid">> \o Echo(c)) /\ UNCHANGED slots)
  /\ UNCHANGED <<tools, toggles, call, at, names, listed, auditLog, closed>>

(* Mutation of ToolReturns: a failure is not counted as an invocation.      *)
ToolReturnsUncounted(c, outcome) ==
  /\ pc[c] = "invoking"
  /\ call[c].method = "tools/call"
  /\ slots' = [slots EXCEPT ![at[c]].invocations = IF outcome = "ok" THEN @ + 1 ELSE @,
                            ![at[c]].failures = IF outcome = "failed" THEN @ + 1 ELSE @]
  /\ Conclude(c, <<outcome>>)
  /\ UNCHANGED <<tools, toggles, call, at, names, listed, auditLog, closed>>

(* A tool that ran and failed is a successful route: no Echo.               *)
ToolReturns(c, outcome) ==
  /\ pc[c] = "invoking"
  /\ call[c].method = "tools/call"
  /\ slots' = [slots EXCEPT ![at[c]].invocations = @ + 1,
                            ![at[c]].failures = IF outcome = "failed" THEN @ + 1 ELSE @]
  /\ Conclude(c, <<outcome>>)
  /\ UNCHANGED <<tools, toggles, call, at, names, listed, auditLog, closed>>

(***************************************************************************)
(* resources/read, prompts/get and tools/list                              *)
(***************************************************************************)

(* Unknown URIs and missing roles are refused and not recorded.             *)
Read(c) ==
  LET uri == call[c].target IN
  /\ pc[c] = "dispatched"
  /\ call[c].method = "resources/read"
  /\ IF uri # Unknown /\ (uri \in Gated => c \in Privileged)
     THEN Goto(c, "invoking") /\ UNCHANGED due
     ELSE Conclude(c, Echo(c))
  /\ UNCHANGED <<registry, call, at, names, listed, auditLog, closed>>

(* An unknown prompt or a missing argument is refused. The required_role of *)
(* a prompt (prompt.rs:85) is not looked at.                                *)
Prompt(c) ==
  /\ pc[c] = "dispatched"
  /\ call[c].method = "prompts/get"
  /\ \/ call[c].target # Unknown /\ Goto(c, "invoking") /\ UNCHANGED due
     \/ Conclude(c, Echo(c))
  /\ UNCHANGED <<registry, call, at, names, listed, auditLog, closed>>

(* The reader or the builder returned; a success is not recorded.           *)
AppReturns(c) ==
  /\ pc[c] = "invoking"
  /\ call[c].method # "tools/call"
  /\ Conclude(c, << >>) \/ Conclude(c, Echo(c))
  /\ UNCHANGED <<registry, call, at, names, listed, auditLog, closed>>

(* visible_tool_names goes through the map entry by entry ...               *)
StartList(c) ==
  /\ pc[c] = "dispatched"
  /\ call[c].method = "tools/list"
  /\ names' = [names EXCEPT ![c] = Tools]
  /\ Goto(c, "scan")
  /\ UNCHANGED <<registry, call, at, listed, due, auditLog, closed>>

Scan(c) ==
  /\ pc[c] = "scan"
  /\ \E t \in names[c] :
       /\ names' = [names EXCEPT ![c] = @ \ {t}]
       /\ listed' = [listed EXCEPT ![c] =
                       IF Registered(t) /\ Permits(c, tools[t]) THEN @ \cup {t} ELSE @]
  /\ UNCHANGED <<registry, call, pc, at, due, auditLog, closed>>

(* ... and list_tools looks every visible name up again.                    *)
EndScan(c) ==
  /\ pc[c] = "scan"
  /\ names[c] = {}
  /\ names' = [names EXCEPT ![c] = listed[c]]
  /\ listed' = [listed EXCEPT ![c] = {}]
  /\ Goto(c, "describe")
  /\ UNCHANGED <<registry, call, at, due, auditLog, closed>>

Describe(c) ==
  /\ pc[c] = "describe"
  /\ \E t \in names[c] :
       /\ names' = [names EXCEPT ![c] = @ \ {t}]
       /\ listed' = [listed EXCEPT ![c] = IF Open(t) THEN @ \cup {t} ELSE @]
  /\ UNCHANGED <<registry, call, pc, at, due, auditLog, closed>>

EndList(c) ==
  /\ pc[c] = "describe"
  /\ names[c] = {}
  /\ Conclude(c, << >>)
  /\ UNCHANGED <<registry, call, at, names, listed, auditLog, closed>>

(* Application code panics, or the future of the call is dropped under it:  *)
(* nothing after the await runs.                                            *)
Unwind(c) ==
  /\ pc[c] = "invoking"
  /\ Goto(c, "unwound")
  /\ UNCHANGED <<registry, call, at, names, listed, due, auditLog, closed>>

Returns(c) == AppReturns(c) \/ \E outcome \in {"ok", "failed"} : ToolReturns(c, outcome)

(* The steps of a dispatch that are not application code.                   *)
Engine(c) ==
  \/ RefuseCall(c) \/ Other(c) \/ RecordOutcome(c)
  \/ FetchSlot(c) \/ CheckSwitch(c) \/ CheckRole(c) \/ CheckSchema(c)
  \/ Read(c) \/ Prompt(c)
  \/ StartList(c) \/ Scan(c) \/ EndScan(c) \/ Describe(c) \/ EndList(c)

EngineNext ==
  \/ \E t \in Tools, schema \in Schemas : RegisterTool(t, schema)
  \/ \E a \in Operators : ToggleStore(a) \/ \E t \in Tools, value \in BOOLEAN : ToggleFetch(a, t, value)
  \/ \E c \in Calls : Engine(c) \/ Returns(c) \/ Unwind(c) \/ \E r \in Messages : Arrive(c, r)

EngineSpec == EngineInit /\ [][EngineNext]_engineVars
-----------------------------------------------------------------------------
(***************************************************************************)
(* Properties                                                              *)
(***************************************************************************)
Passed == {"enabled", "permitted", "invoking"}

(* A tool that is off when a call comes in neither reaches application code *)
(* in that call nor is advertised by it, unless somebody enables it or      *)
(* registers it as enabled in the meantime: "a tool disabled from           *)
(* /admin/mcp never reaches your code"                                      *)
(* (docs/docs_content/12_mcp_server/index.md:169).                          *)
KillSwitchHolds ==
  \A c \in Calls : /\ pc[c] \in Passed /\ call[c].method = "tools/call" =>
                        call[c].target \notin closed[c]
                   /\ pc[c] \in {"describe", "done"} => listed[c] \cap closed[c] = {}

(* The code of a tool or a resource behind a role runs only for a call that *)
(* has it, though the name of a tool may be registered anew, with another   *)
(* role, while the call is between its checks. Prompts are not bound by     *)
(* their roles: see RolesEnforced.                                          *)
OnlyPermitted ==
  \A c \in Calls : pc[c] = "invoking" =>
    /\ call[c].method = "tools/call" => Permits(c, at[c])
    /\ call[c].method = "resources/read" /\ call[c].target \in Gated => c \in Privileged

(* "RBAC - each tool, resource and prompt declares its own required_role"   *)
(* (docs/docs_content/12_mcp_server/index.md:170) and "every capability     *)
(* still enforces its own required_role" (line 242): what the code does not *)
(* do for prompts, whose role get_prompt never reads (engine.rs:483-515).   *)
RolesEnforced ==
  /\ OnlyPermitted
  /\ \A c \in Calls : /\ pc[c] = "invoking" /\ call[c].method = "prompts/get"
                       /\ call[c].target \in Gated
                       => c \in Privileged

(* Calls on slot s that recorded the outcome, or are about to.              *)
Recorded(s, outcome) ==
  {c \in Calls : LET outcomes == trail[c] \o due[c] IN
     at[c] = s /\ outcomes # << >> /\ Head(outcomes) = outcome}

(* The counters an administrator sees and the audit trail tell one story,   *)
(* slot by slot, in whatever order calls end: every denial is in both, and  *)
(* every invocation that returned is recorded as ok or as failed.           *)
CountersMatchTrail ==
  \A s \in 1..Len(slots) :
    /\ slots[s].denied = Cardinality(Recorded(s, "denied"))
    /\ slots[s].failures = Cardinality(Recorded(s, "failed"))
    /\ slots[s].invocations = slots[s].failures + Cardinality(Recorded(s, "ok"))

(* Every call of a registered tool that did not unwind leaves one entry in  *)
(* the trail; a notification that was refused leaves a second one, since    *)
(* nobody is told otherwise.                                                *)
EveryCallRecorded ==
  \A c \in Calls : pc[c] = "done" /\ at[c] # 0 =>
    IF call[c].notif /\ trail[c][1] \in {"denied", "invalid"}
    THEN Len(trail[c]) = 2 /\ trail[c][2] = "failed"
    ELSE Len(trail[c]) = 1

(* The records of what was called are complete and agree.                   *)
RecordsAgree == EngineTypeOK /\ CountersMatchTrail /\ EveryCallRecorded
=============================================================================
