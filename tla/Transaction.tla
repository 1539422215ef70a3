----------------------------- MODULE Transaction -----------------------------
(***************************************************************************)
(* run_in_transaction of src/src/database/repository/transaction.rs: the   *)
(* scopes a request opens, the buffers that hold its events and jobs back  *)
(* until the commit, and the pool of database connections the scopes take  *)
(* their transactions from.                                                *)
(*                                                                         *)
(* A scope nested in another is an independent database transaction with   *)
(* buffers of its own (task_local shadows the outer ones). The transaction *)
(* is shared as an Arc: conn() clones it, and a clone may outlive the      *)
(* scope when it moves to another task. A request is cancelled or unwound  *)
(* (Abort) at any await: shutdown drops its future, a panic unwinds it.    *)
(***************************************************************************)
EXTENDS Integers, Sequences, FiniteSets, SequencesExt

CONSTANTS
  Requests,     (* Tasks that run request handlers or jobs.                *)
  MaxTxns,      (* Transactions opened in a behaviour, at most.            *)
  PoolSize,     (* max_connections of the pool.                            *)
  MaxDepth,     (* How deep a request nests its transactions.              *)
  MaxEffects,   (* Events and jobs emitted in a behaviour, at most.        *)
  MaxDetached,  (* Clones of a transaction handed to tasks of their own.   *)
  Scoped,       (* Requests with CURRENT_EVENT_BUS and CURRENT_JOB_QUEUE.  *)
  Outside       (* The scope of what is emitted outside any transaction.   *)

(* Transactions by the order in which they began.                           *)
Txns == 1..MaxTxns

ASSUME TransactionAssumption ==
  /\ MaxTxns \in Nat
  /\ PoolSize \in Nat \ {0}
  /\ MaxDepth \in Nat
  /\ MaxEffects \in Nat
  /\ MaxDetached \in Nat
  /\ Scoped \subseteq Requests
  /\ Outside \notin Txns

VARIABLES
  doing,     (* doing[r]: "body", "acquire", "commit" or "done".               *)
  stack,     (* stack[r]: the open scopes of r, the innermost last.         *)
  db,        (* db[x]: what the database knows of x.                        *)
  free,      (* Idle connections of the pool.                               *)
  detached,  (* detached[x]: clones of x's Arc that tasks other than its    *)
             (* request hold.                                               *)
  events,    (* events[x]: TX_EVENT_BUFFER of x.                            *)
  jobs,      (* jobs[x]: TX_JOB_BUFFER of x.                                *)
  flush,     (* flush[x]: jobs the task spawned after x still has to send.  *)
  bus,       (* The effects published on the event bus, in order.           *)
  jobQueue,  (* The effects enqueued in the job queue, in order.            *)
  lost,      (* History: the staged jobs whose enqueue failed or never came. *)
  result,    (* History: result[x], what run_in_transaction returned; an Ok *)
             (* without the task-locals counts as "dropped".                *)
  emitted    (* History: emitted[x], the effects its body emitted, in order. *)

txnVars == <<doing, stack, db, free, detached, events, jobs, flush, bus, jobQueue, lost, result, emitted>>

(* An effect is an event or a job, of a transaction, with its place in it.  *)
Effect(x, kind, n) == [txn |-> x, kind |-> kind, n |-> n]
Effects == [txn : Txns \cup {Outside}, kind : {"event", "job"}, n : Nat]

TxnTypeOK ==
  /\ doing \in [Requests -> {"body", "acquire", "commit", "done"}]
  /\ stack \in [Requests -> Seq(Txns)]
  /\ db \in [Txns -> {"none", "open", "committed", "rolledback"}]
  /\ free \in 0..PoolSize
  /\ detached \in [Txns -> 0..MaxDetached]
  /\ events \in [Txns -> Seq(Effects)]
  /\ jobs \in [Txns -> Seq(Effects)]
  /\ flush \in [Txns -> Seq(Effects)]
  /\ bus \in Seq(Effects)
  /\ jobQueue \in Seq(Effects)
  /\ lost \subseteq Effects
  /\ result \in [Txns -> {"none", "ok", "dropped", "err", "aborted"}]
  /\ emitted \in [Txns \cup {Outside} -> Seq(Effects)]

(* Requests begin in their handlers; before the server has any, they are    *)
(* over.                                                                    *)
TxnStart(where) ==
  /\ doing = [r \in Requests |-> where]
  /\ stack = [r \in Requests |-> << >>]
  /\ db = [x \in Txns |-> "none"]
  /\ free = PoolSize
  /\ detached = [x \in Txns |-> 0]
  /\ events = [x \in Txns |-> << >>]
  /\ jobs = [x \in Txns |-> << >>]
  /\ flush = [x \in Txns |-> << >>]
  /\ bus = << >>
  /\ jobQueue = << >>
  /\ lost = {}
  /\ result = [x \in Txns |-> "none"]
  /\ emitted = [x \in Txns \cup {Outside} |-> << >>]

TxnInit == TxnStart("body")

(* The scope CURRENT_TXN and the TX_ buffers resolve to.                    *)
InTransaction(r) == stack[r] # << >>
Current(r) == Last(stack[r])

buffers == <<events, jobs, flush, bus, jobQueue, lost, emitted>>

(***************************************************************************)
(* Opening a scope: db.begin() waits for a connection of the pool          *)
(***************************************************************************)

AskBegin(r) ==
  /\ doing[r] = "body"
  /\ Len(stack[r]) < MaxDepth
  /\ doing' = [doing EXCEPT ![r] = "acquire"]
  /\ UNCHANGED <<stack, db, free, detached, buffers, result>>

Begin(r, x) ==
  /\ doing[r] = "acquire"
  /\ db[x] = "none"
  /\ \A y \in 1..(x - 1) : db[y] # "none"
  /\ free > 0
  /\ free' = free - 1
  /\ db' = [db EXCEPT ![x] = "open"]
  /\ stack' = [stack EXCEPT ![r] = Append(@, x)]
  /\ doing' = [doing EXCEPT ![r] = "body"]
  /\ UNCHANGED <<detached, buffers, result>>

(* Mutation of BeginFails: waiting for a connection never times out.        *)
BeginFailsWithoutTimeout(r) ==
  /\ doing[r] = "acquire"
  /\ free > 0
  /\ doing' = [doing EXCEPT ![r] = "body"]
  /\ UNCHANGED <<stack, db, free, detached, buffers, result>>

(* No connection within connect_timeout, or BEGIN failed: the caller's body *)
(* gets the error, in the scope it was in.                                  *)
BeginFails(r) ==
  /\ doing[r] = "acquire"
  /\ doing' = [doing EXCEPT ![r] = "body"]
  /\ UNCHANGED <<stack, db, free, detached, buffers, result>>

(***************************************************************************)
(* The body of a scope                                                     *)
(***************************************************************************)

(* How many effects were emitted, in every scope and outside.               *)
Total == SumFunction([x \in Txns \cup {Outside} |-> Len(emitted[x])])

(* Mutation of Emit: a staged event is put before those staged earlier.     *)
EmitReversed(x, kind) ==
  LET e == Effect(x, kind, Len(emitted[x]) + 1) IN
  /\ Total < MaxEffects
  /\ emitted' = [emitted EXCEPT ![x] = Append(@, e)]
  /\ CASE x # Outside /\ kind = "event" ->
            events' = [events EXCEPT ![x] = <<e>> \o @] /\ UNCHANGED <<jobs, bus, jobQueue>>
       [] x # Outside /\ kind = "job" ->
            jobs' = [jobs EXCEPT ![x] = Append(@, e)] /\ UNCHANGED <<events, bus, jobQueue>>
       [] x = Outside /\ kind = "event" ->
            bus' = Append(bus, e) /\ UNCHANGED <<events, jobs, jobQueue>>
       [] x = Outside /\ kind = "job" ->
            jobQueue' = Append(jobQueue, e) /\ UNCHANGED <<events, jobs, bus>>

Emit(x, kind) ==
  LET e == Effect(x, kind, Len(emitted[x]) + 1) IN
  /\ Total < MaxEffects
  /\ emitted' = [emitted EXCEPT ![x] = Append(@, e)]
  /\ CASE x # Outside /\ kind = "event" ->
            events' = [events EXCEPT ![x] = Append(@, e)] /\ UNCHANGED <<jobs, bus, jobQueue>>
       [] x # Outside /\ kind = "job" ->
            jobs' = [jobs EXCEPT ![x] = Append(@, e)] /\ UNCHANGED <<events, bus, jobQueue>>
       [] x = Outside /\ kind = "event" ->
            bus' = Append(bus, e) /\ UNCHANGED <<events, jobs, jobQueue>>
       [] x = Outside /\ kind = "job" ->
            jobQueue' = Append(jobQueue, e) /\ UNCHANGED <<events, jobs, bus>>

(* publish_event and GritJobExt::enqueue: staged inside a scope, sent at    *)
(* once outside. Outside a scope and without the task-locals nothing is     *)
(* sent: the event is dropped and enqueue returns Err.                      *)
Stage(r, kind) ==
  /\ doing[r] = "body"
  /\ InTransaction(r) \/ r \in Scoped
  /\ Emit(IF InTransaction(r) THEN Current(r) ELSE Outside, kind)
  /\ UNCHANGED <<doing, stack, db, free, detached, flush, lost, result>>

(* The body hands a RepositoryConnection from conn() to a task of its own.  *)
Detach(r) ==
  /\ doing[r] = "body"
  /\ InTransaction(r)
  /\ detached[Current(r)] < MaxDetached
  /\ detached' = [detached EXCEPT ![Current(r)] = @ + 1]
  /\ UNCHANGED <<doing, stack, db, free, buffers, result>>

(***************************************************************************)
(* Leaving a scope                                                         *)
(***************************************************************************)

LeaveScope(r) == stack' = [stack EXCEPT ![r] = Front(@)]

(* Mutation of CloseTxn: the connection does not return to the pool.        *)
CloseTxnKeepingConnection(x, outcome) ==
  /\ db' = [db EXCEPT ![x] = outcome]
  /\ UNCHANGED free

(* The last Arc of x is gone: the transaction is rolled back if it was not  *)
(* committed, and its connection returns to the pool.                       *)
CloseTxn(x, outcome) ==
  /\ db' = [db EXCEPT ![x] = outcome]
  /\ free' = free + 1

Return(x, res) == result' = [result EXCEPT ![x] = res]

ReturnOk(r, x) == Return(x, IF r \in Scoped THEN "ok" ELSE "dropped")

DropBuffers(x) ==
  /\ events' = [events EXCEPT ![x] = << >>]
  /\ jobs' = [jobs EXCEPT ![x] = << >>]

(* Staged events go to the bus at once; a task is spawned for the jobs.     *)
(* Without the task-locals both are silently dropped.                       *)
Flush(r, x) ==
  /\ bus' = IF r \in Scoped THEN bus \o events[x] ELSE bus
  /\ flush' = IF r \in Scoped THEN [flush EXCEPT ![x] = jobs[x]] ELSE flush
  /\ DropBuffers(x)
  /\ UNCHANGED <<jobQueue, lost, emitted>>

(* The body returned Ok and try_unwrap found no other Arc: commit.          *)
StartCommit(r) ==
  /\ doing[r] = "body"
  /\ InTransaction(r)
  /\ detached[Current(r)] = 0
  /\ doing' = [doing EXCEPT ![r] = "commit"]
  /\ UNCHANGED <<stack, db, free, detached, buffers, result>>

Committed(r) ==
  LET x == Current(r) IN
  /\ doing[r] = "commit"
  /\ doing' = [doing EXCEPT ![r] = "body"]
  /\ LeaveScope(r)
  /\ CloseTxn(x, "committed")
  /\ Flush(r, x)
  /\ ReturnOk(r, x)
  /\ UNCHANGED detached

(* commit().await? failed; the database may have committed all the same.    *)
CommitFails(r) ==
  LET x == Current(r) IN
  /\ doing[r] = "commit"
  /\ doing' = [doing EXCEPT ![r] = "body"]
  /\ LeaveScope(r)
  /\ \E outcome \in {"committed", "rolledback"} : CloseTxn(x, outcome)
  /\ DropBuffers(x)
  /\ Return(x, "err")
  /\ UNCHANGED <<detached, flush, bus, jobQueue, lost, emitted>>

(* Mutation of ReturnUncommitted: the commit goes through a shared Arc.     *)
ReturnCommitted(r) ==
  LET x == Current(r) IN
  /\ doing[r] = "body"
  /\ InTransaction(r)
  /\ detached[x] > 0
  /\ LeaveScope(r)
  /\ CloseTxn(x, "committed")
  /\ Flush(r, x)
  /\ ReturnOk(r, x)
  /\ UNCHANGED <<doing, detached>>

(* The body returned Ok while another Arc is alive: try_unwrap fails, the   *)
(* commit is skipped, and everything after it happens all the same.         *)
ReturnUncommitted(r) ==
  LET x == Current(r) IN
  /\ doing[r] = "body"
  /\ InTransaction(r)
  /\ detached[x] > 0
  /\ LeaveScope(r)
  /\ Flush(r, x)
  /\ ReturnOk(r, x)
  /\ UNCHANGED <<doing, db, free, detached>>

(* Mutation of ReturnErr: the rollback does not ask who else holds the Arc. *)
ReturnErrClosing(r) ==
  LET x == Current(r) IN
  /\ doing[r] = "body"
  /\ InTransaction(r)
  /\ LeaveScope(r)
  /\ CloseTxn(x, "rolledback")
  /\ DropBuffers(x)
  /\ Return(x, "err")
  /\ UNCHANGED <<doing, detached, flush, bus, jobQueue, lost, emitted>>

(* The body returned Err: rollback, unless another Arc is alive.            *)
ReturnErr(r) ==
  LET x == Current(r) IN
  /\ doing[r] = "body"
  /\ InTransaction(r)
  /\ LeaveScope(r)
  /\ IF detached[x] = 0 THEN CloseTxn(x, "rolledback") ELSE UNCHANGED <<db, free>>
  /\ DropBuffers(x)
  /\ Return(x, "err")
  /\ UNCHANGED <<doing, detached, flush, bus, jobQueue, lost, emitted>>

Finish(r) ==
  /\ doing[r] = "body"
  /\ ~ InTransaction(r)
  /\ doing' = [doing EXCEPT ![r] = "done"]
  /\ UNCHANGED <<stack, db, free, detached, buffers, result>>

(* The request's future is dropped or unwinds: every scope it is in is left *)
(* without a result, and a commit under way ends either way.                *)
Abort(r) ==
  LET scopes == {stack[r][i] : i \in 1..Len(stack[r])}
      closed == {x \in scopes : detached[x] = 0}
  IN
  /\ doing[r] # "done"
  /\ doing' = [doing EXCEPT ![r] = "done"]
  /\ stack' = [stack EXCEPT ![r] = << >>]
  /\ \E last \in IF doing[r] = "commit" THEN {"committed", "rolledback"} ELSE {"rolledback"} :
       db' = [x \in Txns |-> IF x \notin closed THEN db[x]
                             ELSE IF x = Current(r) THEN last ELSE "rolledback"]
  /\ free' = free + Cardinality(closed)
  /\ events' = [x \in Txns |-> IF x \in scopes THEN << >> ELSE events[x]]
  /\ jobs' = [x \in Txns |-> IF x \in scopes THEN << >> ELSE jobs[x]]
  /\ result' = [x \in Txns |-> IF x \in scopes THEN "aborted" ELSE result[x]]
  /\ UNCHANGED <<detached, flush, bus, jobQueue, lost, emitted>>

(***************************************************************************)
(* The tasks a scope leaves behind                                         *)
(***************************************************************************)

(* A detached task ends; the last Arc of a scope that was left rolls back.  *)
DropDetached(x) ==
  /\ detached[x] > 0
  /\ detached' = [detached EXCEPT ![x] = @ - 1]
  /\ IF detached[x] = 1 /\ result[x] # "none"
     THEN CloseTxn(x, "rolledback")
     ELSE UNCHANGED <<db, free>>
  /\ UNCHANGED <<doing, stack, buffers, result>>

(* Mutation of FlushJob: the first error ends the task.                     *)
FlushJobUntilError(x) ==
  /\ flush[x] # << >>
  /\ \/ /\ jobQueue' = Append(jobQueue, Head(flush[x]))
        /\ flush' = [flush EXCEPT ![x] = Tail(@)]
        /\ UNCHANGED lost
     \/ /\ lost' = lost \cup {Head(flush[x])}
        /\ flush' = [flush EXCEPT ![x] = << >>]
        /\ UNCHANGED jobQueue
  /\ UNCHANGED <<doing, stack, db, free, detached, events, jobs, bus, result, emitted>>

(* The task spawned after the commit enqueues the staged jobs one by one.   *)
(* An error of the queue is thrown away (let _ =), and the next job follows. *)
FlushJob(x) ==
  /\ flush[x] # << >>
  /\ flush' = [flush EXCEPT ![x] = Tail(@)]
  /\ \/ jobQueue' = Append(jobQueue, Head(flush[x])) /\ UNCHANGED lost
     \/ lost' = lost \cup {Head(flush[x])} /\ UNCHANGED jobQueue
  /\ UNCHANGED <<doing, stack, db, free, detached, events, jobs, bus, result, emitted>>

(* The server ends once its connections are drained. Nothing waits for the  *)
(* spawned tasks: the jobs they still have to send go with the process.     *)
ServerExit ==
  /\ \A r \in Requests : doing[r] = "done"
  /\ flush' = [x \in Txns |-> << >>]
  /\ lost' = lost \cup UNION {ToSet(flush[x]) : x \in Txns}
  /\ UNCHANGED <<doing, stack, db, free, detached, events, jobs, bus, jobQueue, result, emitted>>

Commit(r) == Committed(r) \/ CommitFails(r)
Acquired(r) == BeginFails(r) \/ \E x \in Txns : Begin(r, x)
BodyEnds(r) == StartCommit(r) \/ ReturnUncommitted(r) \/ ReturnErr(r) \/ Finish(r)

RequestStep(r) ==
  \/ AskBegin(r) \/ Acquired(r) \/ Detach(r) \/ BodyEnds(r) \/ Commit(r) \/ Abort(r)
  \/ \E kind \in {"event", "job"} : Stage(r, kind)

(* Every request is done and nothing it started is left.                    *)
Quiescent ==
  /\ \A r \in Requests : doing[r] = "done"
  /\ \A x \in Txns : flush[x] = << >> /\ detached[x] = 0

TxnNext ==
  \/ \E r \in Requests : RequestStep(r)
  \/ \E x \in Txns : DropDetached(x) \/ FlushJob(x)
  \/ ServerExit
  \/ Quiescent /\ UNCHANGED txnVars

(***************************************************************************)
(* Fairness: a connection is granted or connect_timeout expires, a commit  *)
(* ends, a handler that neither emits nor opens anything any more returns, *)
(* a task that holds a clone ends. Nothing obliges the tasks that send the *)
(* staged jobs: the server may end before they run.                        *)
(***************************************************************************)
TxnFairness ==
  /\ \A r \in Requests : /\ WF_txnVars(Acquired(r)) /\ WF_txnVars(Commit(r))
                         /\ SF_txnVars(BodyEnds(r))
  /\ \A x \in Txns : WF_txnVars(DropDetached(x))

TxnSpec == TxnInit /\ [][TxnNext]_txnVars /\ TxnFairness

-----------------------------------------------------------------------------
(***************************************************************************)
(* Properties                                                              *)
(***************************************************************************)
From(x, effects) == {e \in ToSet(effects) : e.txn = x}
Emitted(x, kind) == {e \in ToSet(emitted[x]) : e.kind = kind}

(* The effects of x stand in the order in which x emitted them, each once.  *)
InOrder(x, effects) ==
  \A i, j \in 1..Len(effects) :
    i < j /\ effects[i].txn = x /\ effects[j].txn = x => effects[i].n < effects[j].n

Visible == ToSet(bus) \cup ToSet(jobQueue)

(* "They are seamlessly dispatched only after a successful database         *)
(* commit, and completely discarded if the transaction fails or rolls       *)
(* back" (docs_content/05_macros_library/transaction.md:112).               *)
OnlyAfterCommit == \A e \in Visible : e.txn # Outside => db[e.txn] = "committed"

(* A scope that returned Ok to a request with a bus and a queue has every   *)
(* event it emitted on the bus, in order and once, and every job in the     *)
(* queue or on its way there, in order and once, but for exactly those      *)
(* whose own enqueue failed or which the end of the server caught; what a   *)
(* nested scope emitted is not lost or repeated when the outer one ends,    *)
(* however it ends, and nothing of a scope that failed goes out.            *)
FlushedOnce ==
  \A x \in Txns :
    /\ result[x] = "ok" =>
         /\ From(x, bus) = Emitted(x, "event") /\ InOrder(x, bus)
         /\ From(x, jobQueue \o flush[x]) = Emitted(x, "job") \ lost
         /\ InOrder(x, jobQueue \o flush[x])
    /\ result[x] \in {"dropped", "err", "aborted"} => From(x, bus \o jobQueue) = {}

(* Every connection of the pool is idle or carries one open transaction:    *)
(* no way out of a scope leaks its connection.                              *)
PoolConservation == free + Cardinality({x \in Txns : db[x] = "open"}) = PoolSize

(* A transaction that is decided stays decided.                             *)
DecisionIsFinal ==
  [][\A x \in Txns : db[x] \in {"committed", "rolledback"} => db'[x] = db[x]]_txnVars

(* Requests that hold a connection and wait for another one do not wait for *)
(* each other for ever, and no transaction stays open once they are done.   *)
EverythingEnds ==
  <>[](\A r \in Requests : doing[r] = "done") /\ <>[](free = PoolSize)

(* Connections and what is done on them add up.                             *)
PoolIsSound == TxnTypeOK /\ PoolConservation

(* Every scope comes to its end, and the end is final.                      *)
ScopesEnd == EverythingEnds /\ DecisionIsFinal
=============================================================================
