------------------------------ MODULE MCParts ------------------------------
(* The small machines a server is made of, its data and its MCP engine: one *)
(* of them moves in a behaviour and the others keep still, so that one run  *)
(* explores them all.                                                       *)
EXTENDS RateLimiter, Container, Migrations, Cron, AdminData, Repository, McpEngine, TLC
CONSTANTS a, b, c, v, ann, ben, cat, c1, c2, tool, root

VARIABLE part
machines == <<now, limiter, container, migrations, cron>>
data == <<admin, lookup, schemas>>
vars == <<part, machines, data, engineVars>>

(* a needs b and c, and b needs c and the value: c is shared. Every kind of *)
(* the three, some orders of the hooks, and one graph with a hole.          *)
Needs3 == (a :> <<b, c>>) @@ (b :> <<c, v>>) @@ (c :> << >>) @@ (v :> << >>)
Program(lazy, order, provided) ==
  [kind |-> [t \in Types |-> IF t = v THEN "value" ELSE IF t \in lazy THEN "lazy" ELSE "component"],
   needs |-> Needs3,
   order |-> SelectSeq(order, LAMBDA t : t \in provided),
   provided |-> provided]
Programs ==
  {Program(lazy, order, provided) :
     lazy \in {{}, {c}, {a, c}, {b, c}, {a, b, c}}, order \in {<<c, b, a>>, <<a, c, b>>},
     provided \in {Types, Types \ {c}}}
ASSUME ProgramsAreLinked == \A p \in Programs : Linked(p)

(* Two files, the first one of two statements and with markers of any kind. *)
FileSet(strict, marks) ==
  <<[len |-> 2, strict |-> strict, marks |-> marks], [len |-> 1, strict |-> ~ strict, marks |-> "full"]>>
FileSets == {FileSet(TRUE, "full"), FileSet(FALSE, "full"), FileSet(FALSE, "none"), FileSet(TRUE, "bare")}
AllCommands == [dir : {"up", "down"}, file : 0..LastFile]

(* Three administrators: edits, deletions and imports of the same rows, and *)
(* a scroll beside two imports.                                             *)
DeleteOf(id) == [op |-> "delete", ids |-> <<id>>]
BulkOf(ids) == [op |-> "bulk", ids |-> ids]
EditOf(column, parses) == [op |-> "patch", ids |-> <<1>>, column |-> column, parses |-> parses]
ImportOf(ids) == [op |-> "import", ids |-> ids]
ScrollAll == [op |-> "scroll", ids |-> << >>]
Desks ==
  {<<DeleteOf(1), BulkOf(<<1, 2>>), EditOf(column, TRUE)>> : column \in Columns \cup {Locked}}
  \cup {<<EditOf(one, TRUE), EditOf(other, parses), x>> :
           one, other \in Columns, parses \in BOOLEAN, x \in {DeleteOf(1), BulkOf(<<2, 2>>)}}
  \cup {<<ImportOf(x), ImportOf(y), ScrollAll>> : x \in {<<0, 0>>, <<0, 4>>}, y \in {<<4, 3>>, <<3, 2>>}}
  \cup {<<BulkOf(<<1, 2>>), BulkOf(<<2>>), x>> : x \in {ScrollAll, ImportOf(<<0>>), BulkOf(<< >>)}}
CommandsOf(desk) == (ann :> desk[1]) @@ (ben :> desk[2]) @@ (cat :> desk[3])
ASSUME DesksAreManned == \A desk \in Desks : CommandsOf(desk) \in [Admins -> AdminCommands]

(* Owners and things; every operator of a condition, and every window of a  *)
(* sorted and of an unsorted query.                                         *)
Owner(id, tag, boss) == [id |-> id, tag |-> tag, boss |-> boss]
Thing(id, owner) == [id |-> id, owner |-> owner]
Tables ==
  [owners : {{Owner(1, 1, Null), Owner(2, 1, 1), Owner(3, 2, 2)}, {Owner(1, 2, 3), Owner(2, 1, 3), Owner(3, Null, Null)}},
   things : {{Thing(1, 1), Thing(2, 1), Thing(3, 2)}, {Thing(1, 3)}}]
OwnersWritten == {Owner(id, tag, 1) : id \in 2..3, tag \in {1, 2}}
ThingsWritten == [id : {1, 3}, owner : 1..3]
Terms ==
  {[op |-> op, column |-> "tag", to |-> 1] : op \in {"eq", "ne", "gt", "ge", "lt", "le"}}
  \cup {[op |-> op, column |-> "tag"] : op \in {"null", "not_null"}}
  \cup {[op |-> "between", column |-> "id", to |-> 1, upto |-> 2]}
  \cup {[op |-> op, column |-> "id", these |-> {1, 3}] : op \in {"in", "not_in"}}
FindAll == [single |-> FALSE, query |-> All]
Plainly ==
  {FindAll, FindBy("id", 1), FindBy("id", 2), FindBy("tag", 1), FindOneBy("tag", 1),
   FindByAnd(By("tag", 1), By("boss", 1)), FindByOr(By("tag", 2), By("id", 1))}
  \cup {FindWhere(f) : f \in Terms}
Orders == {<< >>, <<[column |-> "tag", desc |-> TRUE]>>, <<[column |-> "tag", desc |-> FALSE], [column |-> "id", desc |-> TRUE]>>}
Sliced ==
  {[f EXCEPT !.query.order = order, !.query.limit = limit, !.query.offset = offset] :
     f \in {FindAll, FindBy("tag", 1)}, order \in Orders, limit \in {0, 2}, offset \in {0, 1}}
Wished == {{}, {"things", "boss"}, {"nested"}}
Entities == {[table |-> "users", fields |-> {"id", "boss"}, relations |-> {"things", "boss"}],
             [table |-> "things", fields |-> {"id"}, relations |-> {"users"}],
             [table |-> "views", fields |-> {"id"}, relations |-> {}]}

(* Two calls, the privileged one and another, of a tool that is registered  *)
(* twice; notifications where a refusal of one is recorded, requests        *)
(* elsewhere.                                                               *)
MCSchemas == {[gated |-> FALSE, enabled |-> FALSE], [gated |-> TRUE, enabled |-> TRUE]}
MCMessages ==
  [method : {"tools/call"}, target : {tool}, notif : BOOLEAN]
  \cup [method : {"tools/list"}, target : {Unknown}, notif : {FALSE}]
  \cup [method : {"other"}, target : {Unknown}, notif : {TRUE}]
  \cup [method : {"resources/read"}, target : Resources, notif : {FALSE}]
  \cup [method : {"prompts/get"}, target : Prompts, notif : {FALSE}]

Some(S) == CHOOSE x \in S : TRUE
Only(name, S) == IF part = name THEN S ELSE {Some(S)}
NoTables == [owners |-> {}, things |-> {}]

Init ==
  /\ part \in {"limiter", "container", "migrations", "cron", "admin", "lookup", "schemas", "engine"}
  /\ LimiterInit
  /\ \E prog \in Only("container", Programs) : ContainerInit(prog)
  /\ \E fs \in Only("migrations", FileSets) : MigrationsInit(fs)
  /\ \E start \in Only("cron", 0..(Second - 1)) : CronInit(start)
  /\ \E desk \in Only("admin", Desks) : AdminInit({1, 2}, CommandsOf(desk))
  /\ IF part = "lookup" THEN LookupInit(Tables, Plainly \cup Sliced, Wished) ELSE LookupInit({NoTables}, {FindAll}, {{}})
  /\ SchemasInit(IF part = "schemas" THEN Entities ELSE {})
  /\ EngineInit

Next ==
  /\ UNCHANGED part
  /\ \/ part = "limiter" /\ LimiterNext /\ UNCHANGED <<container, migrations, cron, data, engineVars>>
     \/ part = "container" /\ ContainerNext
        /\ UNCHANGED <<now, limiter, migrations, cron, data, engineVars>>
     \/ part = "migrations" /\ MigrationsNext
        /\ UNCHANGED <<now, limiter, container, cron, data, engineVars>>
     \/ part = "cron" /\ CronNext
        /\ UNCHANGED <<now, limiter, container, migrations, data, engineVars>>
     \/ part = "admin" /\ AdminNext /\ UNCHANGED <<machines, lookup, schemas, engineVars>>
     \/ part = "lookup" /\ LookupNext(OwnersWritten, ThingsWritten)
        /\ UNCHANGED <<machines, admin, schemas, engineVars>>
     \/ part = "schemas" /\ RunCtor /\ UNCHANGED <<machines, admin, lookup, engineVars>>
     \/ part = "engine" /\ EngineNext /\ UNCHANGED <<machines, data>>

Spec == Init /\ [][Next]_vars
=============================================================================
