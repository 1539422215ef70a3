------------------------------ MODULE AdminGrid ------------------------------
(***************************************************************************)
(* The grid of the administration interface: how a request for a table is  *)
(* understood, which rows it selects, and the links the answer is full of  *)
(* (src/src/gritadmin/dashboard/handlers/list.rs, export_csv.rs, search.rs,*)
(* dashboard/grid.rs, foreign_key.rs, pagination.rs); and the query        *)
(* language of its explorer (src/src/database/repository/jql.rs).          *)
(*                                                                         *)
(* A text is a sequence of <<letter, depth>>: depth 1 is a letter written  *)
(* as a percent escape that is meant literally, 2 the escape of that one.  *)
(***************************************************************************)
EXTENDS Integers, Sequences, FiniteSets, SequencesExt, FiniteSetsExt

CONSTANTS
  GridColumns,  (* The columns of the entity besides its id.               *)
  RowsPerPage   (* 15 in the code.                                         *)

ASSUME RowsPerPageAssumption == RowsPerPage \in Nat \ {0}

VARIABLE grid
(* rows: the table, id to column to text (Null when empty). slugs: slug and *)
(* table of every repository, as route segments; foreign: the columns that  *)
(* refer to other tables and what the schema registry has for them.         *)
(* at: the repository that is shown. query: the query parameters of the     *)
(* last request. asked: the filters and the keyword the user chose, as he   *)
(* typed them.                                                              *)

Null == << <<0, 0>> >>
NoText == << >>
NoFilters == [c \in {} |-> NoText]
-----------------------------------------------------------------------------
(***************************************************************************)
(* Texts on their way through a link                                       *)
(***************************************************************************)
(* urlencoding::decode, encode: letters are themselves, a percent sign is   *)
(* not. A text that a link carries is decoded by Request::parse already.    *)
Decode(text) == [i \in DOMAIN text |-> <<text[i][1], Max({0, text[i][2] - 1})>>]
Encode(text) == [i \in DOMAIN text |-> IF text[i][2] = 0 THEN text[i] ELSE <<text[i][1], text[i][2] + 1>>]

NullOps == {"is_null", "is_not_null"}
(* Query parameters: ops and vals are filter__<column>__op and __value, both *)
(* partial; q is <<text>> or << >>.                                         *)
Parameters(ops, vals, q, sort, direction, page, infinite, partial) ==
  [ops |-> ops, vals |-> vals, q |-> q, sort |-> sort, direction |-> direction, page |-> page,
   infinite |-> infinite, partial |-> partial]

(* What handle_list makes of them, decoding what Request::parse has decoded: *)
(* a filter without operator, and one without a value that needs one, is     *)
(* none.                                                                     *)
Filters(query) ==
  LET Value(c) == IF c \in DOMAIN query.vals THEN Decode(query.vals[c]) ELSE NoText
      chosen == {c \in DOMAIN query.ops : query.ops[c] # "" /\ (Value(c) # NoText \/ query.ops[c] \in NullOps)}
  IN [c \in chosen |-> [op |-> query.ops[c], value |-> Value(c)]]
Keyword(query) == [i \in DOMAIN query.q |-> Decode(query.q[i])]

(* handle_export: the same parameters, decoded once less, and every filter  *)
(* counts.                                                                  *)
ExportFilters(query) ==
  [c \in DOMAIN query.ops |->
     [op |-> query.ops[c], value |-> IF c \in DOMAIN query.vals THEN query.vals[c] ELSE NoText]]

(* SQL: a comparison with NULL selects nothing, and LIKE '%%' everything    *)
(* else. Order is that of the letters.                                      *)
PartOf(part, text) == \E i \in 0..(Len(text) - Len(part)) : SubSeq(text, i + 1, i + Len(part)) = part
Before(x, y) ==
  \/ IsStrictPrefix(x, y)
  \/ \E i \in DOMAIN x \cap DOMAIN y :
       /\ SubSeq(x, 1, i - 1) = SubSeq(y, 1, i - 1)
       /\ x[i][1] < y[i][1] \/ (x[i][1] = y[i][1] /\ x[i][2] < y[i][2])
Matches(cell, filter) ==
  LET v == filter.value IN
  CASE filter.op = "is_null" -> cell = Null
    [] filter.op = "is_not_null" -> cell # Null
    [] filter.op = "eq" -> cell # Null /\ cell = v
    [] filter.op = "ne" -> cell # Null /\ cell # v
    [] filter.op = "gt" -> cell # Null /\ Before(v, cell)
    [] filter.op = "gte" -> cell # Null /\ ~Before(cell, v)
    [] filter.op = "lt" -> cell # Null /\ Before(cell, v)
    [] filter.op = "lte" -> cell # Null /\ ~Before(v, cell)
    [] filter.op = "contains" -> cell # Null /\ PartOf(v, cell)
    [] filter.op = "startswith" -> cell # Null /\ IsPrefix(v, cell)
    [] filter.op = "endswith" -> cell # Null /\ IsSuffix(v, cell)
    [] OTHER -> TRUE

(* All filters hold, and one of the columns has the keyword. column_from_str *)
(* drops a filter on a column the entity has not.                           *)
Selected(filters, q) ==
  {id \in DOMAIN grid.rows :
     /\ \A c \in DOMAIN filters \cap GridColumns : Matches(grid.rows[id][c], filters[c])
     /\ q \notin {<< >>, <<NoText>>} =>
          \E c \in GridColumns : Matches(grid.rows[id][c], [op |-> "contains", value |-> q[1]])}
RowsListed(query) == Selected(Filters(query), Keyword(query))
Exported(query) == Selected(ExportFilters(query), query.q)

(* A known column sorts; otherwise the newest come first.                   *)
SortKey(query) == IF query.sort \in GridColumns \cup {"id"} THEN <<query.sort, query.direction>> ELSE <<"id", "desc">>
TotalPages(query) == (Cardinality(RowsListed(query)) + RowsPerPage - 1) \div RowsPerPage
-----------------------------------------------------------------------------
(***************************************************************************)
(* Links                                                                   *)
(***************************************************************************)
Sent(text) == Decode(Encode(text))
(* Mutation of Valued: a value is written for filters that have one only.   *)
ValuedWithText(filters) == {c \in DOMAIN filters : filters[c].op \in {"eq", "contains"}}
Valued(filters) == {c \in DOMAIN filters : filters[c].op \notin NullOps}

(* build_query_string, jump_base_qs and export_query_string, as the next    *)
(* request has their parameters.                                            *)
Carried(query, sort, direction, page, partial) ==
  LET filters == Filters(query)
      q == Keyword(query)
  IN Parameters([c \in DOMAIN filters |-> filters[c].op], [c \in Valued(filters) |-> Sent(filters[c].value)],
                [i \in DOMAIN q |-> Sent(q[i])],
                sort, IF sort = "" THEN "desc" ELSE direction, page, query.infinite, partial)

Link(kind, query) == [kind |-> kind, query |-> query]
SortLink(query, column) ==
  Carried(query, column, IF query.sort = column /\ query.direction = "asc" THEN "desc" ELSE "asc", query.page, "matrix")
PageLink(query, page, partial) == Carried(query, query.sort, query.direction, page, partial)

(* build_page_window: 1-based, 0 for an ellipsis before a page that does not *)
(* follow the one before it.                                                *)
Ellipsis == 0
(* Mutation of Gaps: no ellipsis.                                           *)
NoGaps(pages) == pages
Gaps(pages) ==
  FlattenSeq([i \in DOMAIN pages |->
    IF i > 1 /\ pages[i] > pages[i - 1] + 1 THEN <<Ellipsis, pages[i]>> ELSE <<pages[i]>>])
(* The first page, the others from current - 2 to current + 2, the last.    *)
Neighbours(current, total) ==
  LET from == Max({2, current - 2})
      to == Min({current + 2, total})
  IN IF from > to THEN << >> ELSE [i \in 1..(to - from + 1) |-> from + i - 1]
Shown(current, total) ==
  LET first == <<1>> \o Neighbours(current, total)
  IN IF Last(first) # total THEN Append(first, total) ELSE first
PageWindow(current, total) ==
  IF total <= 1 THEN [i \in 1..total |-> i] ELSE Gaps(Shown(current, total))

(* The links of the answer: heads of columns, page bar, spinner and export. *)
Links ==
  LET query == grid.query
      total == TotalPages(query)
      bar == IF total > 1
             THEN {p - 1 : p \in ToSet(PageWindow(query.page + 1, total)) \ {Ellipsis, query.page + 1}}
                  \cup (IF query.page > 0 THEN {query.page - 1} ELSE {})
                  \cup (IF query.page + 1 < total THEN {query.page + 1} ELSE {})
             ELSE {}
  IN {Link("sort", SortLink(query, c)) : c \in GridColumns}
     \cup {Link("page", PageLink(query, p, "matrix")) : p \in bar}
     \cup (IF query.infinite /\ query.page + 1 < total THEN {Link("more", PageLink(query, query.page + 1, "rows"))} ELSE {})
     \cup (IF total > 1 THEN {Link("jump", PageLink(query, p, "matrix")) : p \in 0..(total - 1)} ELSE {})
Export == LET carried == PageLink(grid.query, 0, "") IN Parameters(carried.ops, carried.vals, carried.q, "", "", 0, TRUE, "")

(* A visit with a link or a bookmark, and the form of the filter bar: it    *)
(* holds every column, and neither keyword nor order nor page.              *)
Asked(query) == [filters |-> [c \in DOMAIN Filters(query) |-> ExportFilters(query)[c]], q |-> query.q]
Visit(query) == grid' = [grid EXCEPT !.query = query, !.asked = Asked(query)]
Apply(ops, vals, infinite) == Visit(Parameters(ops, vals, << >>, "", "desc", 0, infinite, "matrix"))
Follow == \E link \in Links : grid' = [grid EXCEPT !.query = link.query]
-----------------------------------------------------------------------------
(***************************************************************************)
(* Where links lead                                                        *)
(***************************************************************************)
(* The repository's name gives the route, its entity's table the key of     *)
(* ADMIN_REGISTRY; grid.slugs holds both.                                   *)
Routes == {repo.slug : repo \in grid.slugs}
Registry == {repo.table : repo \in grid.slugs}

(* The closures of generate_registration hand table_name to every handler,  *)
(* and the grid writes it into its links.                                   *)
Slug(repo) == repo.table

(* get_target_table_slug: the relation's table, or its plural, or its       *)
(* singular; without a relation a table named like the column. A table is   *)
(* named by its singular and a flag.                                        *)
Plural(table) == [table EXCEPT !.plural = TRUE]
Singular(table) == [table EXCEPT !.plural = FALSE]
TargetSlug(column) ==
  LET f == grid.foreign[column]
      First(candidates) == SelectSeq(candidates, LAMBDA t : t \in Registry)
  IN IF f.relation # << >>
     THEN LET found == First(<<f.relation[1], Plural(f.relation[1]), Singular(f.relation[1])>>)
          IN IF found # << >> THEN <<found[1]>> ELSE <<f.relation[1]>>
     ELSE LET found == First(<<f.base, Plural(f.base)>>) IN IF found # << >> THEN <<found[1]>> ELSE << >>

(* Cells of foreign keys are links, whether editable or not.                *)
Targets == {Slug(grid.at)} \cup UNION {ToSet(TargetSlug(c)) : c \in DOMAIN grid.foreign}
-----------------------------------------------------------------------------
(***************************************************************************)
(* The query explorer                                                      *)
(***************************************************************************)
(* A word is a sequence of names, two when it has a dot. A query as its     *)
(* author means it: columns, from, join (<< >> or one), where (a sequence   *)
(* of conditions, the value of each a sequence of words).                   *)
Word(name) == <<name>>
Spelled(meant) ==
  <<Word("select")>> \o meant.columns \o <<Word("from"), meant.from>>
  \o FlattenSeq([i \in DOMAIN meant.join |->
       <<Word("join"), meant.join[i].table, Word("on"), meant.join[i].left, Word("="), meant.join[i].right>>])
  \o FlattenSeq([i \in DOMAIN meant.where |->
       <<Word(IF i = 1 THEN "where" ELSE "and"), meant.where[i].column, Word(meant.where[i].op)>>
       \o meant.where[i].value])

Position(words, name) == LET at == {i \in DOMAIN words : words[i] = Word(name)} IN IF at = {} THEN 0 ELSE Min(at)
(* Mutation of Clause: the operator is taken for the value.                 *)
ClauseShort(words, at) == [column |-> words[at + 1], op |-> words[at + 2][1], value |-> words[at + 2]]
Clause(words, at) == [column |-> words[at + 1], op |-> words[at + 2][1], value |-> words[at + 3]]

(* CustomQuerySpec::parse_from_str: the first of each keyword; one join and *)
(* one condition, its value one word; a join without on is none. A clause   *)
(* that is cut short panics (Broken), and so does a side of on without dot. *)
Broken == [kind |-> "panic"]
Parse(words) ==
  LET select == Position(words, "select")
      from == Position(words, "from")
      join == Position(words, "join")
      where == Position(words, "where")
      on == Position(words, "on")
      joined == join # 0 /\ on # 0
      short == \/ from + 1 > Len(words)
               \/ joined /\ (join + 1 > Len(words) \/ on + 3 > Len(words))
               \/ joined /\ (Len(words[on + 1]) = 1 \/ Len(words[on + 3]) = 1)
               \/ where # 0 /\ where + 3 > Len(words)
  IN IF select = 0 \/ from = 0 THEN [kind |-> "error"]
     ELSE IF short THEN Broken
     ELSE [kind |-> "query", columns |-> SubSeq(words, select + 1, from - 1), from |-> words[from + 1],
           join |-> IF joined THEN << [table |-> words[join + 1], left |-> words[on + 1], right |-> words[on + 3]] >> ELSE << >>,
           where |-> IF where # 0 THEN <<Clause(words, where)>> ELSE << >>]

(* JqlCompiler::compile names the table of every column; an operator it     *)
(* does not know is equality.                                               *)
Qualified(parsed, column) == IF Len(column) = 1 THEN parsed.from \o column ELSE column
Spoken == {"=", "LIKE", ">", "<"}
Compiled(parsed) ==
  [kind |-> "query",
   columns |-> IF parsed.columns = << >> \/ \E i \in DOMAIN parsed.columns : Last(parsed.columns[i]) = "*" THEN <<Word("*")>>
               ELSE [i \in DOMAIN parsed.columns |-> Qualified(parsed, parsed.columns[i])],
   from |-> parsed.from, join |-> parsed.join,
   where |-> [i \in DOMAIN parsed.where |->
     [parsed.where[i] EXCEPT !.column = Qualified(parsed, @), !.op = IF @ \in Spoken THEN @ ELSE "="]]]

(* handle_custom_search_viewer                                              *)
SearchAnswer(words) == LET parsed == Parse(words) IN
  IF words = << >> THEN [kind |-> "empty"] ELSE IF parsed.kind = "query" THEN Compiled(parsed) ELSE parsed
Explore(meant) ==
  /\ grid.explored = << >>
  /\ grid' = [grid EXCEPT !.explored = <<meant, SearchAnswer(Spelled(meant))>>]

GridInit(rows, slugs, foreign, at, query) ==
  grid = [rows |-> rows, slugs |-> slugs, foreign |-> foreign, at |-> at, query |-> query, explored |-> << >>,
          asked |-> Asked(query)]
GridNext(forms, queries) ==
  Follow \/ (\E f \in forms : Apply(f.ops, f.vals, f.infinite)) \/ (\E meant \in queries : Explore(meant))
GridSpec(rows, slugs, foreign, at, query, forms, queries) ==
  GridInit(rows, slugs, foreign, at, query) /\ [][GridNext(forms, queries)]_grid
-----------------------------------------------------------------------------
(* However the user pages, jumps, sorts and scrolls, the grid goes on to    *)
(* show the rows of the filters and the keyword he typed ("URLs with        *)
(* filters preserved", list.rs:165), and the export has the same rows; but  *)
(* for a text that is an escape itself, which every request decodes once    *)
(* more than it was encoded.                                                *)
Unescaped(text) == Decode(text) = text
ViewHolds ==
  LET chosen == Selected(grid.asked.filters, grid.asked.q) IN
  (\A c \in DOMAIN grid.asked.filters : Unescaped(grid.asked.filters[c].value)) /\ (\A i \in DOMAIN grid.asked.q : Unescaped(grid.asked.q[i]))
    => RowsListed(grid.query) = chosen /\ Exported(Export) = chosen

(* "current=6, total=20 -> [1, ..., 4, 5, 6, 7, 8, ..., 20]": first, last   *)
(* and neighbouring pages are there in order, an ellipsis where and only    *)
(* where pages are left out.                                                *)
WindowIsSound ==
  LET total == TotalPages(grid.query)
      current == grid.query.page + 1
      window == PageWindow(current, total)
      numbers == {i \in DOMAIN window : window[i] # Ellipsis}
  IN total > 1 =>
       /\ window[1] = 1 /\ Last(window) = total
       /\ \A i, j \in numbers : i < j => window[i] < window[j]
       /\ {p \in 1..total : p \in (current - 2)..(current + 2)} \subseteq ToSet(window)
       /\ \A i \in 1..(Len(window) - 1) :
            /\ window[i] = Ellipsis => i > 1 /\ window[i - 1] + 1 < window[i + 1]
            /\ window[i] # Ellipsis /\ window[i + 1] # Ellipsis => window[i + 1] = window[i] + 1

(* A query of one join and one condition, by an operator of the language    *)
(* and with a value of one word, is answered as it was meant, with every    *)
(* column's table named. Of a query that says more, the first condition and *)
(* the first word of its value count, and an operator that is none, such as *)
(* >=, is not held against it: the code reads it as equality. No query      *)
(* panics but one with a side of on that has no dot.                        *)
Dotless(join) == \E i \in DOMAIN join : Len(join[i].left) = 1 \/ Len(join[i].right) = 1
AnswersMeant(meant, answer) ==
  LET known == SubSeq(meant.where, 1, Min({1, Len(meant.where)}))
  IN /\ answer.kind = "query" /\ answer.from = meant.from /\ answer.join = meant.join
     /\ Len(answer.where) = Len(known)
     /\ \A i \in DOMAIN known :
          /\ answer.where[i].value = known[i].value[1]
          /\ known[i].op \in Spoken => answer.where[i].op = known[i].op
          /\ Last(answer.where[i].column) = Last(known[i].column) /\ Len(answer.where[i].column) = 2
     /\ meant.columns # << >> /\ (\A i \in DOMAIN meant.columns : Last(meant.columns[i]) # "*") =>
          [i \in DOMAIN answer.columns |-> Last(answer.columns[i])] = [i \in DOMAIN meant.columns |-> Last(meant.columns[i])]

QueriesMeanWhatTheySay ==
  grid.explored # << >> =>
    LET meant == grid.explored[1]
        answer == grid.explored[2]
    IN IF Dotless(meant.join) THEN answer = Broken ELSE AnswersMeant(meant, answer)

(* The grid shows, exports and links what was asked for: list.rs,           *)
(* export_csv.rs, pagination.rs and jql.rs.                                 *)
GridIsFaithful == ViewHolds /\ WindowIsSound /\ QueriesMeanWhatTheySay

(* Links of the grid lead to routes: "The same slug is what the grid uses   *)
(* for every link it renders" (docs/docs_content/06_admin_panel/index.md:   *)
(* 165); ctor_registry.rs hands the table's name to the grid instead.       *)
LinksAreRoutes == Targets \subseteq Routes
=============================================================================
