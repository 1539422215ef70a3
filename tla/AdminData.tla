------------------------------ MODULE AdminData ------------------------------
(***************************************************************************)
(* The data behind the administration interface: what its handlers do to a *)
(* table and to the table of audit entries while several administrators    *)
(* are at work (src/src/gritadmin/dashboard/handlers/crud_ops.rs, list.rs, *)
(* record_details.rs and the repository that #[derive(GritAdmin)] expands  *)
(* to, src/src/gritshield_macros/src/admin/mod.rs). Outside a transaction  *)
(* every statement takes a connection of the pool and gives it back, so    *)
(* the statements of two requests interleave; bulk requests hold one       *)
(* connection for a transaction from beginning to end.                     *)
(***************************************************************************)
EXTENDS Integers, Sequences, FiniteSets, SequencesExt, FiniteSetsExt

CONSTANTS
  Admins,       (* Requests under way, one of each administrator.          *)
  LastId,       (* Rows have the ids 1 .. LastId.                          *)
  Columns,      (* The editable columns of the table.                      *)
  Locked,       (* A column that is not editable.                          *)
  Connections,  (* max_connections of the pool.                            *)
  PageSize,     (* 15 in the code.                                         *)
  MaxFaults     (* Statements that fail.                                   *)

Original == "original"

ASSUME AdminAssumption ==
  /\ LastId \in Nat /\ Connections \in Nat \ {0} /\ PageSize \in Nat \ {0}
  /\ Locked \notin Columns /\ Original \notin Admins

VARIABLES
  rows,     (* rows[id]: the cells of a row, each the request that wrote   *)
            (* it last (Original: none did). Absent ids are not in DOMAIN. *)
  journal,  (* The rows of audit_logs.                                     *)
  holders,  (* Requests whose transaction holds a connection.              *)
  nextId,   (* The sequence of the primary key.                            *)
  doing,    (* doing[a]: the command of a, and where it is.                *)
  faults,
  wrote     (* History: wrote[a], the rows request a has changed; the     *)
            (* fields sets and shown of a scroll are history as well.      *)

admin == <<rows, journal, holders, nextId, doing, faults, wrote>>

Ids == 1..LastId
Unread == [c \in {} |-> Original]

(* A delete and a patch have one id, a patch its column and whether the     *)
(* value parses; an item of an import has an id, 0 for none.                *)
AdminCommands ==
  [op : {"delete"}, ids : [1..1 -> Nat]] \cup [op : {"bulk", "import"}, ids : Seq(Nat)]
    \cup [op : {"patch"}, ids : [1..1 -> Nat], column : Columns \cup {Locked}, parses : BOOLEAN]
    \cup [op : {"scroll"}, ids : {<< >>}]

AdminInit(present, commands) ==
  /\ rows = [id \in present |-> [c \in Columns |-> Original]]
  /\ journal = << >> /\ holders = {} /\ faults = 0
  /\ nextId = Max(present \cup {0}) + 1
  /\ doing = [a \in Admins |->
       [cmd |-> commands[a], at |-> "start", todo |-> commands[a].ids, old |-> Unread, new |-> Unread,
        pending |-> {}, errors |-> 0, page |-> 0, pages |-> 0, shown |-> << >>, sets |-> << >>,
        status |-> 0]]
  /\ wrote = [a \in Admins |-> {}]

AdminTypeOK ==
  /\ DOMAIN rows \subseteq Ids /\ holders \subseteq Admins /\ Cardinality(holders) <= Connections
  /\ \A a \in Admins : doing[a].status \in {0, 200, 400}
-----------------------------------------------------------------------------
IsAt(a, place) == doing[a].at = place
Op(a) == doing[a].cmd.op
Id(a) == Head(doing[a].todo)
MoveOn(a, place) == doing' = [doing EXCEPT ![a].at = place]
Answered(a, status) == [doing[a] EXCEPT !.at = "done", !.status = status, !.todo = << >>]
Reply(a, status) == doing' = [doing EXCEPT ![a] = Answered(a, status)]

(* A connection for one statement.                                          *)
Free == Cardinality(holders) < Connections

(* delete_by_id is over: a bulk delete notes the error and goes on.         *)
Deleted(a, failed) ==
  IF Op(a) = "bulk"
  THEN doing' = [doing EXCEPT ![a].at = IF Len(doing[a].todo) = 1 THEN "commit" ELSE "find",
                                  ![a].todo = Tail(@), ![a].errors = @ + (IF failed THEN 1 ELSE 0)]
  ELSE Reply(a, IF failed THEN 400 ELSE 200)

(* handle_delete, handle_patch, handle_bulk_delete, handle_bulk_create and  *)
(* handle_list up to the first statement.                                   *)
Start(a) ==
  /\ IsAt(a, "start")
  /\ CASE Op(a) \in {"delete", "patch"} -> MoveOn(a, "find")
       [] Op(a) = "scroll" -> MoveOn(a, "count")
       [] OTHER -> IF doing[a].todo = << >> THEN Reply(a, 400) ELSE MoveOn(a, "begin")
  /\ UNCHANGED <<rows, journal, holders, nextId, faults, wrote>>

(* db.begin()                                                               *)
Begin(a) ==
  /\ IsAt(a, "begin") /\ Free
  /\ holders' = holders \cup {a}
  /\ MoveOn(a, IF Op(a) = "bulk" THEN "find" ELSE "insert")
  /\ UNCHANGED <<rows, journal, nextId, faults, wrote>>

(* find_by_id(id).one(&conn), the row as it is now.                         *)
Look(a) ==
  /\ IsAt(a, "find") /\ Free
  /\ IF Id(a) \notin DOMAIN rows
     THEN IF Op(a) = "patch" THEN Reply(a, 400) ELSE Deleted(a, TRUE)
     ELSE IF Op(a) = "patch" /\ (doing[a].cmd.column = Locked \/ ~doing[a].cmd.parses) THEN Reply(a, 400)
     ELSE doing' = [doing EXCEPT ![a].at = IF Op(a) = "patch" THEN "update" ELSE "delete",
                                     ![a].old = rows[Id(a)], ![a].new = Unread]
  /\ UNCHANGED <<rows, journal, holders, nextId, faults, wrote>>

(* delete_by_id(id).exec(&conn): no rows affected is no error.              *)
Delete(a) ==
  /\ IsAt(a, "delete") /\ Free
  /\ rows' = [id \in DOMAIN rows \ {Id(a)} |-> rows[id]]
  /\ wrote' = [wrote EXCEPT ![a] = @ \cup ({Id(a)} \cap DOMAIN rows)]
  /\ MoveOn(a, "note")
  /\ UNCHANGED <<journal, holders, nextId, faults>>

(* Mutation of Written: every column of the record that was read is set.    *)
WrittenWhole(a, row) == [doing[a].old EXCEPT ![doing[a].cmd.column] = a]
(* The fields of into_active_model() are unchanged, the one column is set.  *)
Written(a, row) == [row EXCEPT ![doing[a].cmd.column] = a]

(* active_model.update(&conn): RecordNotUpdated when the row has gone.      *)
Update(a) ==
  /\ IsAt(a, "update") /\ Free
  /\ IF Id(a) \in DOMAIN rows
     THEN LET row == Written(a, rows[Id(a)]) IN
          /\ rows' = [rows EXCEPT ![Id(a)] = row]
          /\ doing' = [doing EXCEPT ![a].at = "note", ![a].new = row]
          /\ wrote' = [wrote EXCEPT ![a] = @ \cup {Id(a)}]
     ELSE Reply(a, 400) /\ UNCHANGED <<rows, wrote>>
  /\ UNCHANGED <<journal, holders, nextId, faults>>

Entry(a) == [by |-> a, id |-> Id(a), old |-> doing[a].old, new |-> doing[a].new]

(* audit_log                                                                *)
Note(a) ==
  /\ IsAt(a, "note") /\ Free
  /\ journal' = Append(journal, Entry(a))
  /\ IF Op(a) = "patch" THEN Reply(a, 200) ELSE Deleted(a, FALSE)
  /\ UNCHANGED <<rows, holders, nextId, faults, wrote>>

(* The table with new rows.                                                 *)
WithNew(a, ids) ==
  [id \in DOMAIN rows \cup ids |-> IF id \in ids THEN [c \in Columns |-> a] ELSE rows[id]]

(* The keys the transactions under way have inserted.                       *)
Reserved(others) == UNION {doing[b].pending : b \in others}

(* The transaction is dropped without a commit.                             *)
RollBack(a) ==
  /\ holders' = holders \ {a}
  /\ doing' = [doing EXCEPT ![a] = [Answered(a, 400) EXCEPT !.pending = {}]]

(* Mutation of Visible: the rows are inserted through the pool.             *)
VisibleAtOnce(a, id) == rows' = WithNew(a, {id})
Visible(a, id) == UNCHANGED rows

(* active_model.insert(&txn): an id that is there is refused, and one that  *)
(* another transaction has inserted is waited for. An id of 0 or none takes *)
(* the next of the sequence, which no rollback gives back.                  *)
Insert(a) ==
  /\ IsAt(a, "insert")
  /\ LET item == Id(a)
         id == IF item = 0 THEN nextId ELSE item
     IN /\ id \notin Reserved(Admins \ {a}) /\ id \in Ids
        /\ nextId' = IF item = 0 THEN nextId + 1 ELSE nextId
        /\ IF id \in DOMAIN rows \cup doing[a].pending THEN RollBack(a) /\ UNCHANGED rows
           ELSE /\ doing' = [doing EXCEPT ![a].pending = @ \cup {id}, ![a].todo = Tail(@),
                                              ![a].at = IF Len(doing[a].todo) = 1 THEN "commit" ELSE @]
                /\ Visible(a, id) /\ UNCHANGED holders
  /\ UNCHANGED <<journal, faults, wrote>>

(* The other transaction of a wait for a key waits as well, or takes too    *)
(* long: the database refuses one of them.                                  *)
Refused(a) ==
  /\ IsAt(a, "insert") /\ (IF Id(a) = 0 THEN nextId ELSE Id(a)) \in Reserved(Admins \ {a})
  /\ RollBack(a)
  /\ UNCHANGED <<rows, journal, nextId, faults, wrote>>

(* txn.commit(): that of a bulk delete commits nothing, its deletions went  *)
(* through the pool. An import answers with the refreshed list.             *)
Commit(a) ==
  /\ IsAt(a, "commit")
  /\ holders' = holders \ {a}
  /\ rows' = WithNew(a, doing[a].pending)
  /\ wrote' = [wrote EXCEPT ![a] = @ \cup doing[a].pending]
  /\ doing' = [doing EXCEPT ![a] = [Answered(a, IF doing[a].errors > 0 THEN 400 ELSE 200) EXCEPT !.pending = {}]]
  /\ UNCHANGED <<journal, nextId, faults>>
-----------------------------------------------------------------------------
(***************************************************************************)
(* Infinite scroll: the browser asks for page after page while the last    *)
(* answer has a spinner. Three statements of a page are three moments.     *)
(***************************************************************************)
(* paginator.num_pages()                                                    *)
Count(a) ==
  /\ IsAt(a, "count") /\ Free
  /\ doing' = [doing EXCEPT ![a].at = "fetch", ![a].sets = Append(@, DOMAIN rows),
                   ![a].pages = (Cardinality(DOMAIN rows) + PageSize - 1) \div PageSize]
  /\ UNCHANGED <<rows, journal, holders, nextId, faults, wrote>>

(* Newest first, page_size rows from the offset on.                         *)
Newer(ids, id) == {other \in ids : other > id}
PageOf(ids, page) ==
  {id \in ids : Cardinality(Newer(ids, id)) \in (page * PageSize)..((page + 1) * PageSize - 1)}

(* Mutation of Spinner: the page to come is counted from one.               *)
SpinnerFromOne(page, pages) == page + 2 < pages
Spinner(page, pages) == page + 1 < pages

(* fetch_page(page), and the spinner for the next one.                      *)
Shows(a, found, errors) ==
  LET seen == [doing[a] EXCEPT !.shown = Append(@, found), !.sets = Append(@, DOMAIN rows), !.errors = errors] IN
  doing' = [doing EXCEPT ![a] =
    IF Spinner(seen.page, seen.pages) THEN [seen EXCEPT !.at = "count", !.page = seen.page + 1]
    ELSE [seen EXCEPT !.at = "done", !.status = 200]]
Fetch(a) ==
  /\ IsAt(a, "fetch") /\ Free
  /\ Shows(a, PageOf(DOMAIN rows, doing[a].page), doing[a].errors)
  /\ UNCHANGED <<rows, journal, holders, nextId, faults, wrote>>

(* Mutation of StatementFailed: a failed audit entry is ignored.             *)
FailedUnnoticed(a) ==
  IF IsAt(a, "note") /\ Op(a) # "bulk" THEN Reply(a, 200) ELSE Deleted(a, ~ IsAt(a, "note"))
(* What a handler makes of the error of a statement of delete_by_id or      *)
(* update_column_value.                                                     *)
StatementFailed(a) == IF Op(a) = "patch" THEN Reply(a, 400) ELSE Deleted(a, TRUE)

(* A statement fails, or waits for a connection too long. The list takes a  *)
(* failed count for no pages and a failed page for no rows.                 *)
Fault(a) ==
  /\ faults < MaxFaults \/ (~Free /\ doing[a].at \notin {"insert", "commit"})
  /\ faults' = IF Free \/ doing[a].at \in {"insert", "commit"} THEN faults + 1 ELSE faults
  /\ CASE IsAt(a, "begin") -> Reply(a, 400) /\ UNCHANGED holders
       [] doing[a].at \in {"insert", "commit"} -> RollBack(a)
       [] doing[a].at \in {"find", "delete", "update", "note"} -> StatementFailed(a) /\ UNCHANGED holders
       [] IsAt(a, "count") -> doing' = [doing EXCEPT ![a].pages = 0, ![a].at = "fetch",
                                                        ![a].errors = 1, ![a].sets = Append(@, DOMAIN rows)]
                             /\ UNCHANGED holders
       [] IsAt(a, "fetch") -> Shows(a, {}, 1) /\ UNCHANGED holders
       [] OTHER -> FALSE
  /\ UNCHANGED <<rows, journal, nextId, wrote>>

AdminStep(a) ==
  \/ Start(a) \/ Begin(a) \/ Look(a) \/ Delete(a) \/ Update(a) \/ Note(a)
  \/ Insert(a) \/ Refused(a) \/ Commit(a) \/ Count(a) \/ Fetch(a) \/ Fault(a)
AdminNext == \E a \in Admins : AdminStep(a)

AdminSpec(present, commands) == AdminInit(present, commands) /\ [][AdminNext]_admin
-----------------------------------------------------------------------------
Done(a) == IsAt(a, "done")
Noted(a) == {journal[i].id : i \in {i \in DOMAIN journal : journal[i].by = a}}

(* Nobody changes the table behind the audit log's back: a request that was *)
(* told of success has an entry for every row it changed, whatever failed   *)
(* and whoever was at the same row, and no entry speaks of a row that       *)
(* nobody changed.                                                          *)
Accounted ==
  /\ \A a \in Admins : Done(a) /\ doing[a].status = 200 /\ Op(a) # "import" => wrote[a] \subseteq Noted(a)
  /\ \A i \in DOMAIN journal : \E a \in Admins :
       journal[i].id \in wrote[a] /\ (journal[i].new # Unread => a = journal[i].by)

Patches(id, column) ==
  {a \in Admins : Op(a) = "patch" /\ doing[a].cmd.ids = <<id>> /\ doing[a].cmd.column = column}
Replaced(id) == \E a \in Admins : Op(a) # "patch" /\ id \in wrote[a]
(* An edit is not undone by an edit of another cell of the row, however     *)
(* stale the record was that update_column_value had read.                  *)
EditsHold ==
  \A id \in DOMAIN rows, column \in Columns :
    (\E a \in Patches(id, column) : id \in wrote[a]) /\ ~Replaced(id)
      => rows[id][column] \in Patches(id, column)

(* update_column_value and delete_by_id keep table and journal together.    *)
EditsAreAccounted == Accounted /\ EditsHold

(* A bulk import is all or nothing, at every moment: "Spool up an isolated  *)
(* ACID transaction boundary".                                              *)
ImportIsAtomic ==
  \A a \in Admins : Op(a) = "import" =>
    IF Done(a) /\ doing[a].status = 200 THEN Cardinality(wrote[a]) = Len(doing[a].cmd.ids)
    ELSE \A id \in DOMAIN rows, c \in Columns : rows[id][c] # a

(* What infinite scroll shows although the table changes under it, as long  *)
(* as no statement fails: no row twice if rows only go, and every row there *)
(* was at first if rows only come and not between the count of a page and   *)
(* its rows.                                                                *)
ScrollSeesAll ==
  \A a \in Admins : Op(a) = "scroll" /\ Done(a) /\ doing[a].errors = 0 =>
    LET sets == doing[a].sets
        shown == doing[a].shown
    IN /\ (\A i, j \in 1..Len(sets) : i < j => sets[j] \subseteq sets[i])
            => \A k, l \in 1..Len(shown) : k < l => shown[k] \cap shown[l] = {}
       /\ (\A i, j \in 1..Len(sets) : i < j => sets[i] \subseteq sets[j])
            /\ (\A k \in 1..Len(shown) : sets[2 * k - 1] = sets[2 * k])
            => \A id \in sets[1] : \E k \in 1..Len(shown) : id \in shown[k]

(* What an administrator sees of the others' work: imports as a whole, and  *)
(* a table that can be scrolled to its end.                                 *)
ViewsAreWhole == AdminTypeOK /\ ImportIsAtomic /\ ScrollSeesAll
=============================================================================
