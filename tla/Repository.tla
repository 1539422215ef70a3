----------------------------- MODULE Repository ------------------------------
(***************************************************************************)
(* Repositories: the query builder of database/repository/query_builder.rs *)
(* and the GritRepository trait (traits.rs, pagination.rs), the finders    *)
(* and relation builders the derive macros write for an entity             *)
(* (gritshield_macros/src/repository), and the schema registry their ctor  *)
(* functions fill before main (core/schema.rs).                            *)
(*                                                                         *)
(* A builder runs one statement for its records and one more for every     *)
(* relation that was asked for, outside any transaction: other clients     *)
(* write between them. A database orders rows only as far as it is told;   *)
(* the rest of the order is its own choice.                                *)
(***************************************************************************)
EXTENDS Integers, Sequences, FiniteSets, SequencesExt, FiniteSetsExt

CONSTANTS
  Null,       (* A column without a value.                                 *)
  NoLimit,    (* limit: None.                                              *)
  MaxWrites   (* Statements of other clients in a behaviour.               *)

VARIABLES
  lookup,     (* One builder, the tables it reads and what it has loaded.  *)
  schemas     (* SCHEMA_REGISTRY and the ctor functions still to run.      *)

-----------------------------------------------------------------------------
(* The tables: owners [id, tag, boss], where boss names another owner, and   *)
(* things [id, owner], which belong to an owner. SQL's comparison with NULL  *)
(* is never true.                                                            *)
Holds(row, f) ==
  LET cell == row[f.column]
  IN CASE f.op = "null" -> cell = Null
       [] f.op = "not_null" -> cell # Null
       [] OTHER -> /\ cell # Null
                   /\ CASE f.op = "eq" -> cell = f.to
                        [] f.op = "ne" -> cell # f.to
                        [] f.op = "gt" -> cell > f.to
                        [] f.op = "ge" -> cell >= f.to
                        [] f.op = "lt" -> cell < f.to
                        [] f.op = "le" -> cell <= f.to
                        [] f.op = "between" -> f.to <= cell /\ cell <= f.upto
                        [] f.op = "in" -> cell \in f.these
                        [] f.op = "not_in" -> cell \notin f.these

(* Condition::all, which nothing fails, and the Condition::any of an _or_    *)
(* finder.                                                                   *)
Matching(q, rows) ==
  {row \in rows : IF q.any THEN \E f \in q.filters : Holds(row, f) ELSE \A f \in q.filters : Holds(row, f)}

(* NULL sorts first.                                                         *)
Rank(v) == IF v = Null THEN -1 ELSE v
Precedes(order, a, b) ==
  \E i \in DOMAIN order :
    /\ \A j \in 1 .. (i - 1) : Rank(a[order[j].column]) = Rank(b[order[j].column])
    /\ IF order[i].desc THEN Rank(a[order[i].column]) > Rank(b[order[i].column])
       ELSE Rank(a[order[i].column]) < Rank(b[order[i].column])
Orderings(order, rows) ==
  {s \in SetToSeqs(rows) : \A i, j \in DOMAIN s : Precedes(order, s[i], s[j]) => i < j}

Slice(s, limit, offset) ==
  SubSeq(s, offset + 1, IF limit = NoLimit THEN Len(s) ELSE Min({Len(s), offset + limit}))

(* build_select, and what its terminals make of it. one() overrides the      *)
(* limit; count() drops limit and offset; delete() keeps only the filters.   *)
Fetched(q, rows) == {Slice(s, q.limit, q.offset) : s \in Orderings(q.order, Matching(q, rows))}
One(q, rows) == {Slice(s, 1, q.offset) : s \in Orderings(q.order, Matching(q, rows))}
CountOf(q, rows) == Cardinality(Matching(q, rows))
Exists(q, rows) == \E s \in One(q, rows) : s # << >>
Kept(q, rows) == rows \ Matching(q, rows)

(* Mutation of TotalPages: a last page that is not full is not counted.      *)
TotalPagesFull(total, size) == IF size > 0 THEN total \div size ELSE 0
(* Page::new and find_all_paginated; paginate() of the builder asks for the  *)
(* same window.                                                              *)
TotalPages(total, size) == IF size > 0 THEN (total + size - 1) \div size ELSE 0
Paged(q, page, size) == [q EXCEPT !.limit = size, !.offset = page * size]

-----------------------------------------------------------------------------
(* Finders. find_by_{primary key} and find_one_by_* return a builder for one *)
(* record, every other finder and find() one for all of them.                *)
All == [any |-> FALSE, filters |-> {}, order |-> << >>, limit |-> NoLimit, offset |-> 0]
By(column, v) == [op |-> "eq", column |-> column, to |-> v]
FindBy(column, v) == [single |-> column = "id", query |-> [All EXCEPT !.filters = {By(column, v)}]]
FindOneBy(column, v) == [FindBy(column, v) EXCEPT !.single = TRUE]
FindWhere(f) == [single |-> FALSE, query |-> [All EXCEPT !.filters = {f}]]
FindByAnd(one, other) == [single |-> FALSE, query |-> [All EXCEPT !.filters = {one, other}]]
FindByOr(one, other) == [single |-> FALSE, query |-> [All EXCEPT !.filters = {one, other}, !.any = TRUE]]

(* The relations a record may carry, loaded by with_things(), with_boss()    *)
(* and with_things_nested().                                                 *)
Wishes == {"things", "boss", "nested"}

LookupInit(tables, finders, wishes) ==
  \E db \in tables, f \in finders, w \in wishes :
    lookup = [db |-> db, find |-> f, wish |-> w, todo |-> <<"core">>, records |-> << >>,
              things |-> << >>, boss |-> << >>, nested |-> << >>, writes |-> 0]

Owners == lookup.db.owners
Things == lookup.db.things

(* What a join of the query with a relation yields: a row <<owner, {thing}>>  *)
(* for every thing, and <<owner, {}>> for an owner without one.              *)
ThingsOf(id) == {t \in Things : t.owner = id}
BossOf(row) == {b \in Owners : b.id = row.boss}
RowsOf(row) == IF ThingsOf(row.id) = {} THEN {<<row, {}>>} ELSE {<<row, {t}>> : t \in ThingsOf(row.id)}

(* A window on the joined query cuts joined rows, not owners; the owners of  *)
(* the joined rows come in the order of their ids unless the query has one,  *)
(* the things of one owner as the database has them.                         *)
Joined(q) ==
  LET order == q.order \o <<[column |-> "id", desc |-> FALSE]>>
      sorted == {s \in SetToSeqs(UNION {RowsOf(row) : row \in Matching(q, Owners)}) :
                   \A i, j \in DOMAIN s : Precedes(order, s[i][1], s[j][1]) => i < j}
  IN {Slice(s, q.limit, q.offset) : s \in sorted}
Selected(joined) == {p[1] : p \in ToSet(joined)}
Related(joined, id) == UNION {p[2] : p \in {p \in ToSet(joined) : p[1].id = id}}

Rest == (IF "things" \in lookup.wish \/ "nested" \in lookup.wish THEN <<"things">> ELSE << >>)
        \o (IF "boss" \in lookup.wish /\ ~lookup.find.single THEN <<"boss">> ELSE << >>)
        \o (IF "nested" \in lookup.wish THEN <<"nested">> ELSE << >>)
Step(what) == lookup.todo # << >> /\ Head(lookup.todo) = what
IdsOf(records) == [i \in DOMAIN records |-> records[i].id]
Unloaded(records) == [id \in ToSet(IdsOf(records)) |-> {}]

(* execute(): the records, then each relation by a statement of its own.     *)
Core ==
  /\ Step("core")
  /\ \E s \in IF lookup.find.single THEN One(lookup.find.query, Owners) ELSE Fetched(lookup.find.query, Owners) :
       lookup' = [lookup EXCEPT !.records = s, !.todo = IF s = << >> THEN << >> ELSE Rest,
                                !.things = Unloaded(s), !.boss = Unloaded(s), !.nested = Unloaded(s)]

(* Mutation of LoadThings: the n-th record takes the n-th owner's children.  *)
LoadThingsInStep ==
  /\ Step("things")
  /\ \E joined \in Joined(lookup.find.query) :
       LET owners == SetToSortSeq(Selected(joined), LAMBDA a, b : a.id < b.id)
           got == [id \in DOMAIN lookup.things |->
                     LET i == CHOOSE i \in DOMAIN lookup.records : lookup.records[i].id = id
                     IN IF i \in DOMAIN owners THEN Related(joined, owners[i].id) ELSE {}]
       IN lookup' = [lookup EXCEPT !.things = got, !.todo = Tail(@)]

(* A single record takes the children of the first owner the join returns,   *)
(* the records of a list those that come with their id.                      *)
LoadThings ==
  /\ Step("things")
  /\ \E joined \in Joined(lookup.find.query) :
       LET ids == DOMAIN lookup.things
           got == IF lookup.find.single
                  THEN [id \in ids |-> IF joined = << >> THEN {} ELSE Related(joined, joined[1][1].id)]
                  ELSE [id \in ids |-> Related(joined, id)]
       IN lookup' = [lookup EXCEPT !.things = got, !.todo = Tail(@)]
LoadBoss ==
  /\ Step("boss")
  /\ \E s \in Fetched(lookup.find.query, Owners) :
       lookup' = [lookup EXCEPT !.boss = [id \in DOMAIN @ |-> UNION {BossOf(s[i]) : i \in {i \in DOMAIN s : s[i].id = id}}],
                                !.todo = Tail(@)]

(* The nested builder reads the children anew by id, here with no filter of  *)
(* its own; children it no longer finds are left out.                        *)
LoadNested ==
  /\ Step("nested")
  /\ lookup' = [lookup EXCEPT !.nested = [id \in DOMAIN @ |-> {t \in Things : \E old \in lookup.things[id] : old.id = t.id}],
                              !.todo = Tail(@)]

(* Another client.                                                           *)
Write(after) ==
  /\ lookup.todo # << >> /\ lookup.writes < MaxWrites
  /\ \E db \in after : lookup' = [lookup EXCEPT !.db = db, !.writes = @ + 1]
(* One row is inserted, deleted or changed.                                  *)
Changed(rows, possible) == {rows \ {r} : r \in rows}
  \cup {{r \in rows : r.id # n.id} \cup {n} : n \in possible}

LookupNext(owners, things) ==
  \/ Core \/ LoadThings \/ LoadBoss \/ LoadNested
  \/ Write({[lookup.db EXCEPT !.owners = o] : o \in Changed(Owners, owners)})
  \/ Write({[lookup.db EXCEPT !.things = t] : t \in Changed(Things, things)})

-----------------------------------------------------------------------------
(* The registry. GritModel registers the fields of a table, GritRelation its *)
(* relations; both run before main, in the order the linker chose.           *)
EntryOf(registry, table) ==
  IF table \in DOMAIN registry THEN registry[table] ELSE [fields |-> {}, relations |-> {}]
Set(registry, table, entry) == [t \in DOMAIN registry \cup {table} |-> IF t = table THEN entry ELSE registry[t]]

(* Mutation of RegisterModel: every entry starts afresh.                     *)
RegisterModelAfresh(registry, table, fields) == Set(registry, table, [fields |-> fields, relations |-> {}])
RegisterModel(registry, table, fields) == Set(registry, table, [EntryOf(registry, table) EXCEPT !.fields = fields])
AddRelations(registry, table, relations) ==
  Set(registry, table, [EntryOf(registry, table) EXCEPT !.relations = @ \cup relations])

SchemasInit(entities) ==
  schemas = [declared |-> entities, registry |-> [t \in {} |-> {}],
             todo |-> {[kind |-> k, of |-> e] : k \in {"model", "relation"}, e \in entities}]

RunCtor ==
  \E c \in schemas.todo :
    schemas' = [schemas EXCEPT
      !.todo = @ \ {c},
      !.registry = IF c.kind = "model" THEN RegisterModel(@, c.of.table, c.of.fields)
                   ELSE AddRelations(@, c.of.table, c.of.relations)]

-----------------------------------------------------------------------------
(* The terminals of one query agree with each other: exists() and first()    *)
(* with fetch(), count() with what delete() removes, and with fetch() when   *)
(* there is no window; pages of a query sorted by a unique column hold every *)
(* row once.                                                                 *)
ReadsAgree ==
  LET q == lookup.find.query
      byId == [q EXCEPT !.order = <<[column |-> "id", desc |-> TRUE]>>]
      total == CountOf(q, Owners)
  IN /\ q.limit # 0 => (Exists(q, Owners) <=> \E s \in Fetched(q, Owners) : s # << >>)
     /\ \A s \in One(q, Owners) : s # << >> => \E t \in Fetched([q EXCEPT !.limit = NoLimit], Owners) : t[1] = s[1]
     /\ total = Cardinality(Owners) - Cardinality(Kept(q, Owners))
     /\ \A s \in Fetched(q, Owners) : q.limit = NoLimit /\ q.offset = 0 => Len(s) = total
     /\ \A size \in 1 .. 2 :
          LET page(n) == CHOOSE s \in Fetched(Paged(byId, n, size), Owners) : TRUE
              pages == [n \in 1 .. TotalPages(total, size) |-> page(n - 1)]
          IN FlattenSeq(pages) = CHOOSE s \in Fetched([byId EXCEPT !.limit = NoLimit, !.offset = 0], Owners) : TRUE

(* A record looked up by its id, or a record of a list, carries only its own *)
(* children, whatever is written meanwhile, and all of them and the boss it  *)
(* names when nothing is written. This does not hold of a single record that *)
(* is looked up by another column: the record comes from a query without an  *)
(* order (query_builders.rs:440) and the children from the first pair of a   *)
(* second query (450-451), so that they may be another owner's; they are the *)
(* children of one owner and never a mixture.                                *)
Settled == lookup.todo = << >>
Windowed == lookup.find.query.limit # NoLimit \/ lookup.find.query.offset # 0
ById == \E f \in lookup.find.query.filters : f.op = "eq" /\ f.column = "id"
ChildrenAreOwn ==
  \A id \in DOMAIN lookup.things :
    /\ ~lookup.find.single \/ ById => \A t \in lookup.things[id] : t.owner = id
    /\ \A t, u \in lookup.things[id] : t.owner = u.owner
EagerIsExact ==
  Settled /\ lookup.writes = 0 /\ ~Windowed /\ (~lookup.find.single \/ ById) =>
    \A i \in DOMAIN lookup.records :
      LET r == lookup.records[i]
      IN /\ "things" \in lookup.wish => lookup.things[r.id] = ThingsOf(r.id)
         /\ "nested" \in lookup.wish => lookup.nested[r.id] = ThingsOf(r.id)
         /\ "boss" \in lookup.wish /\ ~lookup.find.single => lookup.boss[r.id] = BossOf(r)
RelationsAreRight == ChildrenAreOwn /\ EagerIsExact

(* Whatever order the ctor functions ran in, every table ends with the       *)
(* fields of its model and all of its relations.                             *)
RegistryIsWhole ==
  schemas.todo = {} =>
    \A e \in schemas.declared :
      /\ schemas.registry[e.table].fields = e.fields
      /\ e.relations \subseteq schemas.registry[e.table].relations

(* One builder gives one answer and the right relations, and the registry is *)
(* whole: query_builder.rs, the derived finders and builders, and the ctor   *)
(* functions of schema.rs. Neither of the two machines touches the other.    *)
RecordsSpec(tables, finders, wishes, owners, things, entities) ==
  /\ LookupInit(tables, finders, wishes) /\ [][LookupNext(owners, things)]_lookup
  /\ SchemasInit(entities) /\ [][RunCtor]_schemas
RecordsAreRight == ReadsAgree /\ RelationsAreRight /\ RegistryIsWhole
=============================================================================
