------------------------------ MODULE JobQueue ------------------------------
(***************************************************************************)
(* The background job system of src/src/core/job_queue.rs: the in-memory   *)
(* queue (MemoryJobQueue), the polling loop of the worker engine           *)
(* (JobWorkerEngine::start) and the task it spawns for every job it        *)
(* fetches, with retries, exponential backoff and dead letters.            *)
(*                                                                         *)
(* Enqueuers, the engine loop and the spawned tasks run on several threads *)
(* and meet in three places: the channel, the semaphore and the clock.     *)
(* Every step below is the code one of them runs between two of those.     *)
(***************************************************************************)
EXTENDS Integers, Sequences, FiniteSets

CONSTANTS
  Jobs,        (* Ids of the jobs enqueued in a behaviour (uuids).         *)
  Tasks,       (* Identities of the tasks the engine spawns.               *)
  MaxWorkers,  (* Permits of the semaphore (server.rs creates 10).         *)
  MaxRetries,  (* MaxRetries[j]: the envelope's max_retries.               *)
  Registered,  (* The jobs whose job_type has a registered runner.         *)
  Hanging,     (* The jobs whose perform() never returns.                  *)
  Delays,      (* Delays, in seconds, a caller may pass to enqueue_in.     *)
  None         (* The absence of an envelope.                              *)

Envelopes == [id : Jobs, attempts : Nat, runAt : Nat]

(* The fields of JobEnvelope that change or decide a branch; job_type is    *)
(* abstracted to Registered, max_retries to MaxRetries.                     *)
Envelope(j, attempts, runAt) == [id |-> j, attempts |-> attempts, runAt |-> runAt]

ASSUME JobsAssumption ==
  /\ IsFiniteSet(Tasks)
  /\ Cardinality(Tasks) >= MaxWorkers
  /\ MaxWorkers \in Nat \ {0}
  /\ MaxRetries \in [Jobs -> Nat]
  /\ Registered \subseteq Jobs
  /\ Hanging \subseteq Jobs
  /\ Delays \subseteq Nat

ASSUME NoneAssumption == None \notin Envelopes

(* Powers of two are natural numbers: the provers have no arithmetic of ^. *)
ASSUME PowerAssumption == \A j \in Jobs : \A n \in 0..MaxRetries[j] : 2 ^ n \in Nat

VARIABLES
  queue,    (* The mpsc channel of MemoryJobQueue: envelopes, oldest first. *)
  permits,  (* Free permits of concurrency_limit.                           *)
  engine,   (* Where the loop of start() stands.                            *)
  popped,   (* The envelope fetch_next has received and not yet judged.     *)
  pc,       (* pc[t]: where spawned task t stands.                          *)
  held,     (* held[t]: the envelope task t owns.                           *)
  now,      (* chrono::Utc::now().timestamp()                               *)
  outcome,  (* History: outcome[j], what has become of job j.               *)
  runs,     (* History: runs[j], the attempts of j that were started.       *)
  due       (* History: due[j], the time before which j must not start.     *)

system == <<queue, permits, engine, popped, pc, held>>
jobsVars == <<queue, permits, engine, popped, pc, held, now, outcome, runs, due>>

EngineStates == {"acquire", "fetch", "inspect", "sleep"}
TaskStates == {"idle", "spawned", "performing", "release"}
Outcomes == {"new", "pending", "completed", "dead"}

JobsTypeOK ==
  /\ queue \in Seq(Envelopes)
  /\ permits \in Nat
  /\ engine \in EngineStates
  /\ popped \in Envelopes \cup {None}
  /\ pc \in [Tasks -> TaskStates]
  /\ held \in [Tasks -> Envelopes \cup {None}]
  /\ now \in Nat
  /\ outcome \in [Jobs -> Outcomes]
  /\ runs \in [Jobs -> Nat]
  /\ due \in [Jobs -> Nat]

JobsInit ==
  /\ queue = << >>
  /\ permits = MaxWorkers
  /\ engine = "acquire"
  /\ popped = None
  /\ pc = [t \in Tasks |-> "idle"]
  /\ held = [t \in Tasks |-> None]
  /\ now = 0
  /\ outcome = [j \in Jobs |-> "new"]
  /\ runs = [j \in Jobs |-> 0]
  /\ due = [j \in Jobs |-> 0]

(***************************************************************************)
(* Enqueuers                                                               *)
(***************************************************************************)

(* The envelope enqueue_in, enqueue_directly and enqueue_immediately build. *)
NewEnvelope(j, delay) == Envelope(j, 0, now + delay)

(* A caller outside a transaction enqueues a fresh job. The ids are uuids,  *)
(* so no two calls enqueue the same one.                                    *)
Enqueue(j, delay) ==
  /\ outcome[j] = "new"
  /\ queue' = Append(queue, NewEnvelope(j, delay))
  /\ outcome' = [outcome EXCEPT ![j] = "pending"]
  /\ due' = [due EXCEPT ![j] = now + delay]
  /\ UNCHANGED <<permits, engine, popped, pc, held, now, runs>>

(***************************************************************************)
(* The loop of JobWorkerEngine::start                                      *)
(***************************************************************************)

(* Mutation of Acquire: the loop does not wait for a permit.                *)
AcquireUnbounded ==
  /\ engine = "acquire"
  /\ permits' = permits - 1
  /\ engine' = "fetch"
  /\ UNCHANGED <<queue, popped, pc, held, now, outcome, runs, due>>

Acquire ==
  /\ engine = "acquire"
  /\ permits > 0
  /\ permits' = permits - 1
  /\ engine' = "fetch"
  /\ UNCHANGED <<queue, popped, pc, held, now, outcome, runs, due>>

(* Mutation of DropAndSleep: the permit is not returned.                    *)
SleepKeepingPermit ==
  /\ permits' = permits
  /\ engine' = "sleep"

(* drop(permit) and the 250 ms sleep of the else branch.                    *)
DropAndSleep ==
  /\ permits' = permits + 1
  /\ engine' = "sleep"

(* fetch_next, first half: try_recv. Another thread may send to the channel *)
(* before the second half runs.                                             *)
TryRecv ==
  /\ engine = "fetch"
  /\ queue # << >>
  /\ popped' = Head(queue)
  /\ queue' = Tail(queue)
  /\ engine' = "inspect"
  /\ UNCHANGED <<permits, pc, held, now, outcome, runs, due>>

TryRecvEmpty ==
  /\ engine = "fetch"
  /\ queue = << >>
  /\ DropAndSleep
  /\ UNCHANGED <<queue, popped, pc, held, now, outcome, runs, due>>

(* fetch_next, second half: a job whose time has come is handed to a task.  *)
Dispatch(t) ==
  /\ engine = "inspect"
  /\ popped.runAt <= now
  /\ pc[t] = "idle"
  /\ pc' = [pc EXCEPT ![t] = "spawned"]
  /\ held' = [held EXCEPT ![t] = popped]
  /\ popped' = None
  /\ engine' = "acquire"
  /\ UNCHANGED <<queue, permits, now, outcome, runs, due>>

(* Mutation of PutBack: the delayed job is not sent back.                   *)
PutBackNothing ==
  /\ engine = "inspect"
  /\ popped.runAt > now
  /\ popped' = None
  /\ DropAndSleep
  /\ UNCHANGED <<queue, pc, held, now, outcome, runs, due>>

(* fetch_next, second half: a delayed job goes to the back of the channel   *)
(* and the engine sleeps, whatever else is waiting behind it.               *)
PutBack ==
  /\ engine = "inspect"
  /\ popped.runAt > now
  /\ queue' = Append(queue, popped)
  /\ popped' = None
  /\ DropAndSleep
  /\ UNCHANGED <<pc, held, now, outcome, runs, due>>

Wake ==
  /\ engine = "sleep"
  /\ engine' = "acquire"
  /\ UNCHANGED <<queue, permits, popped, pc, held, now, outcome, runs, due>>

(***************************************************************************)
(* The spawned task                                                        *)
(***************************************************************************)

(* current_attempts += 1 and the call of the job's runner.                  *)
StartAttempt(t) ==
  LET e == held[t] IN
  /\ pc[t] = "spawned"
  /\ pc' = [pc EXCEPT ![t] = "performing"]
  /\ held' = [held EXCEPT ![t] = Envelope(e.id, e.attempts + 1, e.runAt)]
  /\ runs' = [runs EXCEPT ![e.id] = @ + 1]
  /\ UNCHANGED <<queue, permits, engine, popped, now, outcome, due>>

Returns(t) ==
  /\ pc[t] = "performing"
  /\ held[t].id \notin Hanging
  /\ pc' = [pc EXCEPT ![t] = "release"]
  /\ held' = [held EXCEPT ![t] = None]
  /\ UNCHANGED <<permits, engine, popped, now, runs>>

Settle(j, result) == outcome' = [outcome EXCEPT ![j] = result]

(* Mutation of Succeed: the job is reported done and re-enqueued.           *)
SucceedAndRequeue(t) ==
  /\ Returns(t)
  /\ held[t].id \in Registered
  /\ Settle(held[t].id, "completed")
  /\ queue' = Append(queue, held[t])
  /\ UNCHANGED due

(* perform() returned Ok: storage.complete, which does nothing in memory.   *)
Succeed(t) ==
  /\ Returns(t)
  /\ held[t].id \in Registered
  /\ Settle(held[t].id, "completed")
  /\ UNCHANGED <<queue, due>>

(* Mutation of RunAtAfterFailure: no backoff.                               *)
RunAtOnce(e) == now

(* perform() returned Err or panicked, or no runner is registered, with     *)
(* attempts left: storage.fail re-enqueues with exponential backoff.        *)
RunAtAfterFailure(e) == now + 2 ^ e.attempts

(* Mutation of Retry: one attempt too many.                                 *)
RetryOnceMore(t) ==
  LET e == held[t] IN
  /\ Returns(t)
  /\ e.attempts <= MaxRetries[e.id]
  /\ queue' = Append(queue, Envelope(e.id, e.attempts, RunAtAfterFailure(e)))
  /\ due' = [due EXCEPT ![e.id] = now + 2 ^ runs[e.id]]
  /\ UNCHANGED outcome

Retry(t) ==
  LET e == held[t] IN
  /\ Returns(t)
  /\ e.attempts < MaxRetries[e.id]
  /\ queue' = Append(queue, Envelope(e.id, e.attempts, RunAtAfterFailure(e)))
  /\ due' = [due EXCEPT ![e.id] = now + 2 ^ runs[e.id]]
  /\ UNCHANGED outcome

(* Mutation of DeadLetter: a failed job is given up with attempts left.     *)
DeadLetterEarly(t) ==
  /\ Returns(t)
  /\ Settle(held[t].id, "dead")
  /\ UNCHANGED <<queue, due>>

(* The last attempt failed: the job is reported as a dead letter.           *)
DeadLetter(t) ==
  LET e == held[t] IN
  /\ Returns(t)
  /\ ~ (e.attempts < MaxRetries[e.id])
  /\ Settle(e.id, "dead")
  /\ UNCHANGED <<queue, due>>

(* Mutation of Release: the permit is forgotten.                            *)
ReleaseNothing(t) ==
  /\ pc[t] = "release"
  /\ pc' = [pc EXCEPT ![t] = "idle"]
  /\ UNCHANGED <<permits, queue, engine, popped, held, now, outcome, runs, due>>

(* drop(permit), the task's last statement.                                 *)
Release(t) ==
  /\ pc[t] = "release"
  /\ pc' = [pc EXCEPT ![t] = "idle"]
  /\ permits' = permits + 1
  /\ UNCHANGED <<queue, engine, popped, held, now, outcome, runs, due>>

(***************************************************************************)
(* The clock. A second that passes while no envelope waits for its run_at  *)
(* changes no guard and shifts every later run_at alike, so the clock only *)
(* advances when some envelope is waiting: the times stay finite without a *)
(* horizon that would cut retries off.                                     *)
(***************************************************************************)
InQueue == {queue[i] : i \in 1..Len(queue)}

Waiting(e) == e # None /\ e.runAt > now

Tick ==
  /\ Waiting(popped) \/ \E e \in InQueue : Waiting(e)
  /\ now' = now + 1
  /\ UNCHANGED <<system, outcome, runs, due>>

EngineStep ==
  \/ Acquire \/ TryRecv \/ TryRecvEmpty \/ PutBack \/ Wake
  \/ \E t \in Tasks : Dispatch(t)

Attempted(t) == Succeed(t) \/ Retry(t) \/ DeadLetter(t)

TaskStep(t) == StartAttempt(t) \/ Attempted(t) \/ Release(t)

(* Every job is settled and nothing is under way: the engine polls an       *)
(* empty queue for ever.                                                    *)
JobsNext ==
  \/ \E j \in Jobs, delay \in Delays : Enqueue(j, delay)
  \/ EngineStep
  \/ \E t \in Tasks : TaskStep(t)
  \/ Tick

(***************************************************************************)
(* JobsFairness: the runtime polls the engine and every spawned task, a     *)
(* perform() that is not Hanging returns, time passes. Nobody has to       *)
(* enqueue anything.                                                       *)
(***************************************************************************)
JobsFairness ==
  /\ WF_jobsVars(EngineStep)
  /\ \A t \in Tasks : WF_jobsVars(TaskStep(t))
  /\ WF_jobsVars(Tick)

JobsSpec == JobsInit /\ [][JobsNext]_jobsVars /\ JobsFairness
-----------------------------------------------------------------------------
(***************************************************************************)
(* Properties                                                              *)
(***************************************************************************)
Live == {t \in Tasks : pc[t] # "idle"}

(* The engine owns the permit it acquired until it spawns a task or drops it. *)
EnginePermits == IF engine \in {"fetch", "inspect"} THEN 1 ELSE 0

(* Every permit of the semaphore is free, with the engine loop or with      *)
(* exactly one live task: no path of start() leaks a permit or returns it   *)
(* twice, whether the job succeeded, failed, was put back or died.          *)
PermitConservation ==
  permits + EnginePermits + Cardinality(Live) = MaxWorkers

Owns(t, j) == pc[t] \in {"spawned", "performing"} /\ held[t].id = j

Ids(q) == {q[i].id : i \in 1..Len(q)}
Distinct(q) == \A i, k \in 1..Len(q) : q[i].id = q[k].id => i = k

Queued(j) == j \in Ids(queue)
Popped(j) == popped # None /\ popped.id = j
Owned(j) == \E t \in Tasks : Owns(t, j)

(* An id stands in the channel, in the engine's hands or with a task once.  *)
NoDuplicate ==
  /\ Distinct(queue)
  /\ \A t, u \in Tasks, j \in Jobs : Owns(t, j) /\ Owns(u, j) => t = u
  /\ \A j \in Jobs : /\ ~ (Queued(j) /\ Popped(j))
                     /\ ~ (Queued(j) /\ Owned(j))
                     /\ ~ (Popped(j) /\ Owned(j))

(* A job whose enqueuer has not run, or that is settled, is nowhere.        *)
OnlyPending ==
  \A j \in Jobs : Queued(j) \/ Popped(j) \/ Owned(j) => outcome[j] = "pending"

(* A job that was accepted and is not settled is still held somewhere.      *)
NoLoss ==
  \A j \in Jobs : outcome[j] = "pending" => Queued(j) \/ Popped(j) \/ Owned(j)

(* A job that was accepted and is not settled is in exactly one place, and  *)
(* any other job in none: no interleaving of enqueue, fetch, put-back,      *)
(* retry and settlement loses a job or makes a second copy of it run.       *)
Places == NoDuplicate /\ OnlyPending /\ NoLoss

(* max_retries bounds the attempts, the first included; 0 still allows one. *)
Budget == [j \in Jobs |-> IF MaxRetries[j] = 0 THEN 1 ELSE MaxRetries[j]]

(* No job runs more often than its budget, and none is dead-lettered before *)
(* the budget is used up.                                                   *)
AttemptBudget ==
  \A j \in Jobs :
    /\ runs[j] <= Budget[j]
    /\ outcome[j] = "dead" => runs[j] = Budget[j]

(* No attempt starts before its time: not before the delay the caller asked *)
(* for, and not before the backoff that follows the previous failure.       *)
NeverEarly ==
  [][\A j \in Jobs : runs'[j] # runs[j] => now >= due[j]]_jobsVars

(* A settled job stays settled and is never attempted again.                *)
SettledIsFinal ==
  [][\A j \in Jobs : outcome[j] \in {"completed", "dead"} =>
        outcome'[j] = outcome[j] /\ runs'[j] = runs[j]]_jobsVars

(* As long as one worker is not taken by a job that never returns, every    *)
(* other job is completed or dead-lettered: jobs rotating with a delayed    *)
(* run_at, retries and hung neighbours starve nobody.                       *)
EventuallySettled ==
  Cardinality(Hanging) < MaxWorkers =>
    \A j \in Jobs \ Hanging :
      (outcome[j] = "pending") ~> (outcome[j] \in {"completed", "dead"})

(***************************************************************************)
(* The queue implements the life of a job as the enqueuer sees it.         *)
(***************************************************************************)
Performing(j) == \E t \in Tasks : pc[t] = "performing" /\ held[t].id = j

Status(j) ==
  IF outcome[j] # "pending" THEN outcome[j]
  ELSE IF Performing(j) THEN "running" ELSE "waiting"

Lifecycle == INSTANCE JobLifecycle WITH
  status <- [j \in Jobs |-> Status(j)],
  tries <- runs

ImplementsLifecycle == Lifecycle!Spec

-----------------------------------------------------------------------------
(* An accepted job is somewhere until it is settled, in one place only, and *)
(* has had no more attempts than it may.                                    *)
JobsAccounted == JobsTypeOK /\ Places /\ AttemptBudget

(* Attempts come neither too early nor after the end.                       *)
AttemptsInTime == NeverEarly /\ SettledIsFinal
=============================================================================
