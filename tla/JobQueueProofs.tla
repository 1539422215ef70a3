--------------------------- MODULE JobQueueProofs ---------------------------
(***************************************************************************)
(* Theorems about JobQueue for every set of jobs and tasks, every number   *)
(* of workers and every retry budget.                                      *)
(***************************************************************************)
EXTENDS JobQueue, FiniteSetTheorems, TLAPS

-----------------------------------------------------------------------------
(* The parts of the inductive invariant.                                    *)

(* Which steps of the engine and of a task own an envelope.                 *)
Ownership ==
  /\ popped # None <=> engine = "inspect"
  /\ \A t \in Tasks : held[t] # None <=> pc[t] \in {"spawned", "performing"}

TypeInv == JobsTypeOK /\ Ownership

(* An envelope's current_attempts counts the attempts its job has started,  *)
(* and its run_at is the time the job must wait for; r and d are runs and   *)
(* due, before or after a step.                                             *)
Faithful(e, r, d) == e.attempts = r[e.id] /\ e.runAt = d[e.id]

Unspent(e, r, d) == Faithful(e, r, d) /\ r[e.id] < Budget[e.id]

Started(e, r, d) == Faithful(e, r, d) /\ r[e.id] \in 1..Budget[e.id]

Accounted ==
  /\ \A i \in 1..Len(queue) : Unspent(queue[i], runs, due)
  /\ popped # None => Unspent(popped, runs, due)
  /\ \A t \in Tasks : pc[t] = "spawned" =>
        Unspent(held[t], runs, due) /\ held[t].runAt <= now
  /\ \A t \in Tasks : pc[t] = "performing" => Started(held[t], runs, due)
  /\ \A j \in Jobs : outcome[j] = "new" => runs[j] = 0

IInv == TypeInv /\ PermitConservation /\ Places /\ Accounted /\ AttemptBudget

-----------------------------------------------------------------------------
(* The channel: what sending and receiving do to the ids in it.             *)

(* Appending an envelope of a new job adds its id and keeps the ids distinct.*)
LEMMA AppendIds ==
  ASSUME NEW q \in Seq(Envelopes), NEW e \in Envelopes
  PROVE  /\ Ids(Append(q, e)) = Ids(q) \cup {e.id}
         /\ Distinct(q) /\ e.id \notin Ids(q) => Distinct(Append(q, e))
BY DEF Ids, Distinct

(* Removing the oldest envelope removes its id from a queue of distinct ids.*)
LEMMA TailIds ==
  ASSUME NEW q \in Seq(Envelopes), q # << >>, Distinct(q)
  PROVE  /\ Head(q) \in Envelopes
         /\ Tail(q) \in Seq(Envelopes)
         /\ Ids(q) = Ids(Tail(q)) \cup {Head(q).id}
         /\ Head(q).id \notin Ids(Tail(q))
         /\ Distinct(Tail(q))
<1>1. /\ Head(q) = q[1] /\ Head(q) \in Envelopes /\ Tail(q) \in Seq(Envelopes)
      /\ Len(q) \in Nat /\ Len(q) >= 1 /\ Len(Tail(q)) = Len(q) - 1
      /\ \A i \in 1..Len(Tail(q)) : Tail(q)[i] = q[i + 1]
  OBVIOUS
<1>2. Ids(q) = Ids(Tail(q)) \cup {Head(q).id}
  <2>1. ASSUME NEW i \in 1..Len(q)
        PROVE  q[i].id \in Ids(Tail(q)) \cup {Head(q).id}
    <3>1. CASE i = 1
      BY <1>1, <3>1
    <3>2. CASE i # 1
      <4>1. i - 1 \in 1..Len(Tail(q)) /\ Tail(q)[i - 1] = q[i]
        BY <1>1, <3>2
      <4> QED
        BY <4>1 DEF Ids
    <3> QED
      BY <3>1, <3>2
  <2>2. Head(q).id \in Ids(q)
    BY <1>1 DEF Ids
  <2>3. ASSUME NEW i \in 1..Len(Tail(q))
        PROVE  Tail(q)[i].id \in Ids(q)
    BY <1>1, i + 1 \in 1..Len(q) DEF Ids
  <2> QED
    BY <2>1, <2>2, <2>3 DEF Ids
<1>3. Head(q).id \notin Ids(Tail(q))
  BY <1>1 DEF Ids, Distinct
<1>4. Distinct(Tail(q))
  BY <1>1 DEF Distinct
<1> QED
  BY <1>1, <1>2, <1>3, <1>4

(* A backoff that is due is a natural number of seconds.                    *)
LEMMA BackoffType ==
  ASSUME NEW j \in Jobs, NEW n \in Nat, n <= MaxRetries[j]
  PROVE  2 ^ n \in Nat
<1>1. MaxRetries[j] \in Nat
  BY JobsAssumption
<1>2. n \in 0..MaxRetries[j]
  BY <1>1
<1> QED
  BY <1>2, PowerAssumption

-----------------------------------------------------------------------------
(* Types                                                                    *)

(* The job system starts well typed, with every envelope where its owner says.*)
LEMMA TypeInvInit == JobsInit => TypeInv
BY JobsAssumption DEF JobsInit, TypeInv, JobsTypeOK, Ownership, EngineStates, TaskStates, Outcomes

(* Every step of enqueuers, engine, tasks and clock keeps types and ownership.*)
LEMMA TypeInvNext ==
  ASSUME TypeInv, Accounted, [JobsNext]_jobsVars
  PROVE  TypeInv'
<1> USE JobsAssumption, NoneAssumption DEF TypeInv, JobsTypeOK, Ownership, EngineStates, TaskStates, Outcomes
<1>1. ASSUME NEW j \in Jobs, NEW delay \in Delays, Enqueue(j, delay)
      PROVE  TypeInv'
  <2>1. NewEnvelope(j, delay) \in Envelopes
    BY DEF NewEnvelope, Envelope, Envelopes
  <2> QED
    BY <1>1, <2>1 DEF Enqueue
<1>2. CASE Acquire
  BY <1>2 DEF Acquire
<1>3. CASE TryRecv
  <2>1. Head(queue) \in Envelopes /\ Tail(queue) \in Seq(Envelopes)
    BY <1>3 DEF TryRecv
  <2> QED
    BY <1>3, <2>1 DEF TryRecv
<1>4. CASE TryRecvEmpty
  BY <1>4 DEF TryRecvEmpty, DropAndSleep
<1>5. ASSUME NEW t \in Tasks, Dispatch(t)
      PROVE  TypeInv'
  BY <1>5 DEF Dispatch
<1>6. CASE PutBack
  <2>1. popped \in Envelopes
    BY <1>6 DEF PutBack
  <2> QED
    BY <1>6, <2>1 DEF PutBack, DropAndSleep
<1>7. CASE Wake
  BY <1>7 DEF Wake
<1>8. ASSUME NEW t \in Tasks, StartAttempt(t)
      PROVE  TypeInv'
  <2>1. held[t] \in Envelopes
    BY <1>8 DEF StartAttempt
  <2>2. Envelope(held[t].id, held[t].attempts + 1, held[t].runAt) \in Envelopes
    BY <2>1 DEF Envelope, Envelopes
  <2>4. runs' \in [Jobs -> Nat]
    BY <1>8, <2>1 DEF StartAttempt, Envelopes
  <2> QED
    BY <1>8, <2>1, <2>2, <2>4 DEF StartAttempt
<1>9. ASSUME NEW t \in Tasks, Succeed(t)
      PROVE  TypeInv'
  <2>1. held[t] \in Envelopes
    BY <1>9 DEF Succeed, Returns
  <2> QED
    BY <1>9, <2>1 DEF Succeed, Returns, Settle, Envelopes
<1>10. ASSUME NEW t \in Tasks, Retry(t)
       PROVE  TypeInv'
  <2> DEFINE e == held[t]
  <2>1. e \in Envelopes /\ e.id \in Jobs /\ e.attempts \in Nat /\ e.attempts < MaxRetries[e.id]
    BY <1>10 DEF Retry, Returns, Envelopes
  <2>2. e.attempts = runs[e.id]
    BY <1>10 DEF Retry, Returns, Accounted, Started, Faithful
  <2>3. 2 ^ e.attempts \in Nat /\ 2 ^ runs[e.id] \in Nat
    BY <2>1, <2>2, BackoffType
  <2>4. Envelope(e.id, e.attempts, RunAtAfterFailure(e)) \in Envelopes
    BY <2>1, <2>3 DEF RunAtAfterFailure, Envelope, Envelopes
  <2>5. queue' \in Seq(Envelopes)
    BY <1>10, <2>4 DEF Retry
  <2>6. due' \in [Jobs -> Nat]
    BY <1>10, <2>1, <2>3 DEF Retry
  <2> HIDE DEF e
  <2> QED
    BY <1>10, <2>5, <2>6 DEF Retry, Returns
<1>11. ASSUME NEW t \in Tasks, DeadLetter(t)
       PROVE  TypeInv'
  <2>1. held[t] \in Envelopes
    BY <1>11 DEF DeadLetter, Returns
  <2> QED
    BY <1>11, <2>1 DEF DeadLetter, Returns, Settle, Envelopes
<1>12. ASSUME NEW t \in Tasks, Release(t)
       PROVE  TypeInv'
  BY <1>12 DEF Release
<1>13. CASE Tick
  BY <1>13 DEF Tick, system
<1>14. CASE UNCHANGED jobsVars
  BY <1>14 DEF jobsVars
<1> QED
  BY <1>1, <1>2, <1>3, <1>4, <1>5, <1>6, <1>7, <1>8, <1>9, <1>10, <1>11, <1>12, <1>13, <1>14
     DEF JobsNext, EngineStep, TaskStep, Attempted

-----------------------------------------------------------------------------
(* Permits                                                                  *)

(* The spawned tasks that have not released their permit can be counted.    *)
LEMMA LiveFinite == IsFiniteSet(Live) /\ Cardinality(Live) \in Nat
BY JobsAssumption, FS_Subset, FS_CardinalityType, Live \subseteq Tasks DEF Live

(* At the start every permit of the semaphore is free.                      *)
LEMMA PermitInit == JobsInit => PermitConservation
<1> SUFFICES ASSUME JobsInit PROVE PermitConservation
  OBVIOUS
<1>1. Live = {}
  BY DEF JobsInit, Live
<1> QED
  BY <1>1, JobsAssumption, FS_EmptySet DEF JobsInit, PermitConservation, EnginePermits

(* A task that stays live, or stays idle, changes no permit.                *)
LEMMA SameLive ==
  ASSUME \A t \in Tasks : (pc[t] # "idle") <=> (pc'[t] # "idle")
  PROVE  Live' = Live
BY DEF Live

(* No step of the engine loop or of a task leaks a permit or returns it twice.*)
LEMMA PermitNext ==
  ASSUME TypeInv, PermitConservation, [JobsNext]_jobsVars
  PROVE  PermitConservation'
<1> USE DEF TypeInv, JobsTypeOK, PermitConservation, EnginePermits, TaskStates, EngineStates
<1>1. ASSUME NEW t \in Tasks, Dispatch(t)
      PROVE  PermitConservation'
  <2>1. Live' = Live \cup {t} /\ t \notin Live
    BY <1>1 DEF Dispatch, Live
  <2>2. Cardinality(Live') = Cardinality(Live) + 1
    BY <2>1, LiveFinite, FS_AddElement
  <2> QED
    BY <1>1, <2>2, LiveFinite DEF Dispatch
<1>2. ASSUME NEW t \in Tasks, Release(t)
      PROVE  PermitConservation'
  <2>1. Live' = Live \ {t} /\ t \in Live
    BY <1>2 DEF Release, Live
  <2>2. Cardinality(Live') = Cardinality(Live) - 1
    BY <2>1, LiveFinite, FS_RemoveElement
  <2>3. permits' = permits + 1 /\ permits \in Nat
    BY <1>2 DEF Release
  <2>4. EnginePermits' = EnginePermits /\ EnginePermits \in Nat
    BY <1>2 DEF Release
  <2>5. permits + EnginePermits + Cardinality(Live) = MaxWorkers
    OBVIOUS
  <2> HIDE DEF EnginePermits
  <2>6. permits' + EnginePermits' + Cardinality(Live') = MaxWorkers
    BY <2>2, <2>3, <2>4, <2>5, LiveFinite
  <2> QED
    BY <2>6
<1>3. ASSUME NEW t \in Tasks, StartAttempt(t) \/ Attempted(t)
      PROVE  PermitConservation'
  <2>1. Live' = Live
    BY <1>3, SameLive DEF StartAttempt, Attempted, Succeed, Retry, DeadLetter, Returns
  <2>2. UNCHANGED <<permits, engine>>
    BY <1>3 DEF StartAttempt, Attempted, Succeed, Retry, DeadLetter, Returns
  <2> QED
    BY <2>1, <2>2
<1>4. CASE Acquire \/ TryRecv \/ TryRecvEmpty \/ PutBack \/ Wake
  <2>1. Live' = Live
    BY <1>4 DEF Live, Acquire, TryRecv, TryRecvEmpty, PutBack, Wake
  <2> QED
    BY <1>4, <2>1, LiveFinite DEF Acquire, TryRecv, TryRecvEmpty, PutBack, Wake, DropAndSleep
<1>5. ASSUME NEW j \in Jobs, NEW delay \in Delays, Enqueue(j, delay)
      PROVE  PermitConservation'
  BY <1>5 DEF Enqueue, Live
<1>6. CASE Tick \/ UNCHANGED jobsVars
  BY <1>6 DEF Tick, jobsVars, system, Live
<1> QED
  BY <1>1, <1>2, <1>3, <1>4, <1>5, <1>6 DEF JobsNext, EngineStep, TaskStep
-----------------------------------------------------------------------------
(* Where a job is                                                           *)

(* A step that leaves every job where it is, or settles none, keeps Places. *)
LEMMA SamePlaces ==
  ASSUME Places,
         Ids(queue') = Ids(queue), Distinct(queue'), outcome' = outcome,
         \A j \in Jobs : Popped(j)' <=> Popped(j),
         \A t \in Tasks, j \in Jobs : Owns(t, j)' <=> Owns(t, j)
  PROVE  Places'
BY DEF Places, NoDuplicate, OnlyPending, NoLoss, Queued, Owned

(* At the start no job is anywhere.                                         *)
LEMMA PlacesInit == JobsInit => Places
BY DEF JobsInit, Places, NoDuplicate, OnlyPending, NoLoss, Queued, Popped, Owned, Owns, Ids, Distinct

(* Enqueuing puts a fresh job in the channel and nowhere else.              *)
LEMMA PlacesEnqueue ==
  ASSUME TypeInv, Places, NEW j \in Jobs, NEW delay \in Delays, Enqueue(j, delay)
  PROVE  Places'
<1> USE DEF TypeInv, JobsTypeOK
<1>1. NewEnvelope(j, delay) \in Envelopes /\ NewEnvelope(j, delay).id = j
  BY JobsAssumption DEF NewEnvelope, Envelope, Envelopes
<1>2. ~ Queued(j) /\ ~ Popped(j) /\ ~ Owned(j)
  BY DEF Enqueue, Places, OnlyPending
<1>3. Ids(queue') = Ids(queue) \cup {j} /\ Distinct(queue')
  BY <1>1, <1>2, AppendIds DEF Enqueue, Places, NoDuplicate, Queued
<1>4. \A t \in Tasks, k \in Jobs : Owns(t, k)' <=> Owns(t, k)
  BY DEF Enqueue, Owns
<1>5. \A k \in Jobs : Popped(k)' <=> Popped(k)
  BY DEF Enqueue, Popped
<1>6. outcome'[j] = "pending" /\ \A k \in Jobs \ {j} : outcome'[k] = outcome[k]
  BY DEF Enqueue
<1> QED
  BY <1>2, <1>3, <1>4, <1>5, <1>6 DEF Places, NoDuplicate, OnlyPending, NoLoss, Queued, Owned

(* try_recv moves the oldest job from the channel to the engine.            *)
LEMMA PlacesTryRecv ==
  ASSUME TypeInv, Places, TryRecv
  PROVE  Places'
<1> USE DEF TypeInv, JobsTypeOK
<1> DEFINE h == Head(queue).id
<1>1. /\ Head(queue) \in Envelopes
      /\ Ids(queue) = Ids(queue') \cup {h}
      /\ h \notin Ids(queue') /\ Distinct(queue')
  BY TailIds DEF TryRecv, Places, NoDuplicate
<1>2. \A k \in Jobs : ~ Popped(k) /\ (Popped(k)' <=> k = h)
  BY <1>1, NoneAssumption DEF TryRecv, Popped, Ownership
<1>3. \A t \in Tasks, k \in Jobs : Owns(t, k)' <=> Owns(t, k)
  BY DEF TryRecv, Owns
<1>4. outcome' = outcome
  BY DEF TryRecv
<1> HIDE DEF h
<1> QED
  BY <1>1, <1>2, <1>3, <1>4 DEF Places, NoDuplicate, OnlyPending, NoLoss, Queued, Owned

(* Spawning a task moves the fetched job from the engine to that task.      *)
LEMMA PlacesDispatch ==
  ASSUME TypeInv, Places, NEW t \in Tasks, Dispatch(t)
  PROVE  Places'
<1> USE DEF TypeInv, JobsTypeOK
<1>1. popped \in Envelopes
  BY DEF Dispatch, Ownership
<1>2. \A k \in Jobs : (Popped(k) <=> k = popped.id) /\ ~ Popped(k)'
  BY <1>1, NoneAssumption DEF Dispatch, Popped
<1>3. \A k \in Jobs : ~ Owns(t, k) /\ (Owns(t, k)' <=> k = popped.id)
  BY <1>1 DEF Dispatch, Owns
<1>4. \A u \in Tasks \ {t}, k \in Jobs : Owns(u, k)' <=> Owns(u, k)
  BY DEF Dispatch, Owns
<1>5. queue' = queue /\ outcome' = outcome
  BY DEF Dispatch
<1>6. popped.id \in Jobs /\ ~ Queued(popped.id) /\ ~ Owned(popped.id)
  BY <1>1, <1>2 DEF Places, NoDuplicate, Envelopes
<1>7. \A k \in Jobs : Owned(k)' <=> Owned(k) \/ k = popped.id
  BY <1>3, <1>4 DEF Owned
<1>8. NoDuplicate'
  BY <1>2, <1>3, <1>4, <1>5, <1>6, <1>7 DEF Places, NoDuplicate, Queued, Owned
<1>9. OnlyPending' /\ NoLoss'
  BY <1>2, <1>5, <1>7 DEF Places, OnlyPending, NoLoss, Queued
<1> QED
  BY <1>8, <1>9 DEF Places

(* Sending a delayed job back moves it from the engine to the channel.      *)
LEMMA PlacesPutBack ==
  ASSUME TypeInv, Places, PutBack
  PROVE  Places'
<1> USE DEF TypeInv, JobsTypeOK
<1>1. popped \in Envelopes
  BY DEF PutBack, Ownership
<1>2. popped.id \in Jobs
  BY <1>1 DEF Envelopes
<1>3. \A k \in Jobs : (Popped(k) <=> k = popped.id) /\ ~ Popped(k)'
  BY <1>1, NoneAssumption DEF PutBack, Popped
<1>4. Ids(queue') = Ids(queue) \cup {popped.id} /\ Distinct(queue')
  BY <1>1, <1>2, <1>3, AppendIds DEF PutBack, Places, NoDuplicate, Queued
<1>5. \A t \in Tasks, k \in Jobs : Owns(t, k)' <=> Owns(t, k)
  BY DEF PutBack, Owns
<1>6. outcome' = outcome
  BY DEF PutBack
<1>7. NoDuplicate'
  BY <1>2, <1>3, <1>4, <1>5 DEF Places, NoDuplicate, Queued, Owned
<1>8. OnlyPending'
  BY <1>2, <1>3, <1>4, <1>5, <1>6 DEF Places, OnlyPending, Queued, Owned
<1>9. NoLoss'
  BY <1>2, <1>3, <1>4, <1>5, <1>6 DEF Places, NoLoss, Queued, Owned
<1> QED
  BY <1>7, <1>8, <1>9 DEF Places

(* The task that owned a job gives it up, as it returns from perform().     *)
LEMMA ReturnsOwner ==
  ASSUME TypeInv, Places, NEW t \in Tasks, Returns(t)
  PROVE  /\ held[t] \in Envelopes /\ held[t].id \in Jobs
         /\ \A k \in Jobs : (Owns(t, k) <=> k = held[t].id) /\ ~ Owns(t, k)'
         /\ \A u \in Tasks \ {t}, k \in Jobs : Owns(u, k)' <=> Owns(u, k)
         /\ \A u \in Tasks \ {t} : ~ Owns(u, held[t].id)
         /\ ~ Queued(held[t].id) /\ ~ Popped(held[t].id)
         /\ popped' = popped
<1> USE DEF TypeInv, JobsTypeOK
<1>1. held[t] \in Envelopes /\ held[t].id \in Jobs
  BY DEF Returns, Ownership, Envelopes
<1>2. \A k \in Jobs : (Owns(t, k) <=> k = held[t].id) /\ ~ Owns(t, k)'
  BY DEF Returns, Owns
<1>3. \A u \in Tasks \ {t}, k \in Jobs : Owns(u, k)' <=> Owns(u, k)
  BY DEF Returns, Owns
<1>4. Owns(t, held[t].id) /\ Owned(held[t].id)
  BY <1>1, <1>2 DEF Owned
<1>5. /\ \A u \in Tasks \ {t} : ~ Owns(u, held[t].id)
      /\ ~ Queued(held[t].id) /\ ~ Popped(held[t].id)
  BY <1>1, <1>4 DEF Places, NoDuplicate
<1> QED
  BY <1>1, <1>2, <1>3, <1>5 DEF Returns

(* A job that is completed or dead-lettered is nowhere any more.            *)
LEMMA PlacesSettled ==
  ASSUME TypeInv, Places, NEW t \in Tasks, Succeed(t) \/ DeadLetter(t)
  PROVE  Places'
<1> DEFINE j == held[t].id
<1>1. Returns(t)
  BY DEF Succeed, DeadLetter
<1>2. queue' = queue /\ popped' = popped
  BY <1>1, ReturnsOwner DEF Succeed, DeadLetter
<1>3. /\ outcome'[j] # "pending" /\ outcome'[j] # "new"
      /\ \A k \in Jobs \ {j} : outcome'[k] = outcome[k]
  BY <1>1, ReturnsOwner DEF Succeed, DeadLetter, Settle, TypeInv, JobsTypeOK
<1>4. \A k \in Jobs : Popped(k)' <=> Popped(k)
  BY <1>2 DEF Popped
<1> QED
  BY <1>1, <1>2, <1>3, <1>4, ReturnsOwner
     DEF Places, NoDuplicate, OnlyPending, NoLoss, Queued, Owned

(* A retry moves the failed job from its task back to the channel.          *)
LEMMA PlacesRetry ==
  ASSUME TypeInv, TypeInv', Places, NEW t \in Tasks, Retry(t)
  PROVE  Places'
<1> DEFINE e == held[t]
           r == Envelope(e.id, e.attempts, RunAtAfterFailure(e))
<1>1. Returns(t) /\ queue' = Append(queue, r) /\ outcome' = outcome
  BY DEF Retry
<1>2. e \in Envelopes /\ e.id \in Jobs /\ ~ Queued(e.id) /\ ~ Popped(e.id) /\ popped' = popped
  BY <1>1, ReturnsOwner
<1>3. r \in Envelopes /\ r.id = e.id
  <2>1. r = queue'[Len(queue) + 1]
    BY <1>1 DEF TypeInv, JobsTypeOK
  <2>2. Len(queue) + 1 \in 1..Len(queue')
    BY <1>1 DEF TypeInv, JobsTypeOK
  <2> QED
    BY <2>1, <2>2 DEF TypeInv, JobsTypeOK, Envelope
<1>4. Ids(queue') = Ids(queue) \cup {e.id} /\ Distinct(queue')
  <2> HIDE DEF e, r
  <2> QED
    BY <1>1, <1>2, <1>3, AppendIds DEF Places, NoDuplicate, Queued, TypeInv, JobsTypeOK
<1>5. \A k \in Jobs : Popped(k)' <=> Popped(k)
  BY <1>2 DEF Popped
<1>6. outcome[e.id] = "pending"
  BY <1>1, ReturnsOwner DEF Places, OnlyPending, Owned
<1> HIDE DEF r
<1> QED
  BY <1>1, <1>2, <1>4, <1>5, <1>6, ReturnsOwner
     DEF Places, NoDuplicate, OnlyPending, NoLoss, Queued, Owned

(* Every step keeps each unsettled job in exactly one place.                *)
LEMMA PlacesNext ==
  ASSUME TypeInv, TypeInv', Places, [JobsNext]_jobsVars
  PROVE  Places'
<1>1. ASSUME NEW t \in Tasks, StartAttempt(t)
      PROVE  Places'
  <2>1. \A u \in Tasks, k \in Jobs : Owns(u, k)' <=> Owns(u, k)
    BY <1>1 DEF StartAttempt, Owns, Envelope, TypeInv, JobsTypeOK, TaskStates
  <2>2. queue' = queue /\ popped' = popped /\ outcome' = outcome
    BY <1>1 DEF StartAttempt
  <2> QED
    BY <2>1, <2>2, SamePlaces DEF Popped, Places, NoDuplicate
<1>2. ASSUME NEW t \in Tasks, Release(t)
      PROVE  Places'
  <2>1. \A u \in Tasks, k \in Jobs : Owns(u, k)' <=> Owns(u, k)
    BY <1>2 DEF Release, Owns, TypeInv, JobsTypeOK, TaskStates
  <2>2. queue' = queue /\ popped' = popped /\ outcome' = outcome
    BY <1>2 DEF Release
  <2> QED
    BY <2>1, <2>2, SamePlaces DEF Popped, Places, NoDuplicate
<1>3. CASE Acquire \/ TryRecvEmpty \/ Wake \/ Tick \/ UNCHANGED jobsVars
  <2>1. queue' = queue /\ popped' = popped /\ outcome' = outcome /\ pc' = pc /\ held' = held
    BY <1>3 DEF Acquire, TryRecvEmpty, Wake, Tick, jobsVars, system
  <2> QED
    BY <2>1, SamePlaces DEF Popped, Owns, Places, NoDuplicate
<1> QED
  BY <1>1, <1>2, <1>3, PlacesEnqueue, PlacesTryRecv, PlacesDispatch, PlacesPutBack,
     PlacesSettled, PlacesRetry
     DEF JobsNext, EngineStep, TaskStep, Attempted
-----------------------------------------------------------------------------
(* What an envelope knows about its job                                     *)

(* The attempts a job may use are at least one, whatever max_retries says.  *)
LEMMA BudgetType ==
  ASSUME NEW j \in Jobs
  PROVE  /\ Budget[j] \in Nat \ {0}
         /\ MaxRetries[j] \in Nat
         /\ Budget[j] = IF MaxRetries[j] = 0 THEN 1 ELSE MaxRetries[j]
BY JobsAssumption DEF Budget

(* At the start no attempt was made and no envelope exists.                 *)
LEMMA AccountedInit == JobsInit => Accounted /\ AttemptBudget
<1> SUFFICES ASSUME JobsInit PROVE Accounted /\ AttemptBudget
  OBVIOUS
<1> QED
  BY BudgetType, NoneAssumption DEF JobsInit, Accounted, AttemptBudget

(* A step that only moves envelopes about, or removes some, keeps them      *)
(* true to the history.                                                     *)
LEMMA MovedEnvelopes ==
  ASSUME TypeInv, Accounted, AttemptBudget,
         runs' = runs, due' = due, outcome' = outcome, now' \in Nat, now' >= now,
         \A i \in 1..Len(queue') :
           \/ \E k \in 1..Len(queue) : queue'[i] = queue[k]
           \/ popped # None /\ queue'[i] = popped,
         popped' # None => popped' = popped \/ \E k \in 1..Len(queue) : popped' = queue[k],
         \A t \in Tasks :
           \/ pc'[t] = pc[t] /\ held'[t] = held[t]
           \/ pc'[t] \notin {"spawned", "performing"}
           \/ /\ pc'[t] = "spawned" /\ popped # None
              /\ held'[t] = popped /\ popped.runAt <= now
  PROVE  Accounted' /\ AttemptBudget'
<1> USE DEF TypeInv, JobsTypeOK
<1>1. \A i \in 1..Len(queue') : Unspent(queue'[i], runs', due')
  BY DEF Accounted
<1>2. popped' # None => Unspent(popped', runs', due')
  BY DEF Accounted
<1>3. ASSUME NEW t \in Tasks
      PROVE  /\ pc'[t] = "spawned" => Unspent(held'[t], runs', due') /\ held'[t].runAt <= now'
             /\ pc'[t] = "performing" => Started(held'[t], runs', due')
  <2>1. CASE pc'[t] = pc[t] /\ held'[t] = held[t]
    <3>1. pc[t] = "spawned" => held[t] \in Envelopes /\ held[t].runAt \in Nat
      BY DEF Ownership, Envelopes
    <3> QED
      BY <2>1, <3>1 DEF Accounted
  <2>2. CASE pc'[t] = "spawned" /\ popped # None /\ held'[t] = popped /\ popped.runAt <= now
    <3>1. popped.runAt \in Nat
      BY <2>2 DEF Envelopes
    <3> QED
      BY <2>2, <3>1 DEF Accounted
  <2> QED
    BY <2>1, <2>2
<1>4. \A j \in Jobs : outcome[j] = "new" => runs[j] = 0
  BY DEF Accounted
<1> QED
  BY <1>1, <1>2, <1>3, <1>4 DEF Accounted, AttemptBudget

(* Changing the history of one job leaves the envelopes of the others true. *)
LEMMA OtherJobs ==
  ASSUME NEW j, NEW r, NEW d, NEW r2, NEW d2, NEW e,
         e.id # j, e.id \in Jobs,
         \A k \in Jobs \ {j} : r2[k] = r[k] /\ d2[k] = d[k]
  PROVE  /\ Unspent(e, r, d) => Unspent(e, r2, d2)
         /\ Started(e, r, d) => Started(e, r2, d2)
BY DEF Unspent, Started, Faithful

(* A step that changes the history of job j, which was nowhere or is held   *)
(* by task t: what the others hold stays true, so what remains to be shown  *)
(* is about j alone.                                                        *)
LEMMA OneJobChanges ==
  ASSUME TypeInv, Accounted, NEW j \in Jobs,
         ~ Queued(j), ~ Popped(j),
         \A k \in Jobs \ {j} : runs'[k] = runs[k] /\ due'[k] = due[k],
         now' = now, popped' = popped
  PROVE  /\ \A i \in 1..Len(queue) : Unspent(queue[i], runs', due')
         /\ popped' # None => Unspent(popped', runs', due')
         /\ \A u \in Tasks :
              ~ Owns(u, j) /\ pc'[u] = pc[u] /\ held'[u] = held[u] =>
                /\ pc'[u] = "spawned" =>
                     Unspent(held'[u], runs', due') /\ held'[u].runAt <= now'
                /\ pc'[u] = "performing" => Started(held'[u], runs', due')
<1> USE DEF TypeInv, JobsTypeOK
<1>1. ASSUME NEW i \in 1..Len(queue)
      PROVE  Unspent(queue[i], runs', due')
  <2>0. queue[i] \in Envelopes
    OBVIOUS
  <2>1. queue[i].id \in Jobs
    BY <2>0 DEF Envelopes
  <2>2. queue[i].id # j
    BY DEF Queued, Ids
  <2>3. Unspent(queue[i], runs, due)
    BY DEF Accounted
  <2> QED
    BY <2>1, <2>2, <2>3, OtherJobs, ZenonT(30)
<1>2. ASSUME popped' # None
      PROVE  Unspent(popped', runs', due')
  <2>1. popped.id \in Jobs /\ popped.id # j /\ Unspent(popped, runs, due)
    BY <1>2 DEF Envelopes, Popped, Accounted
  <2>2. runs'[popped.id] = runs[popped.id] /\ due'[popped.id] = due[popped.id]
    BY <2>1
  <2> QED
    BY <2>1, <2>2 DEF Unspent, Faithful
<1>3. ASSUME NEW u \in Tasks, ~ Owns(u, j), pc'[u] = pc[u], held'[u] = held[u],
             pc[u] \in {"spawned", "performing"}
      PROVE  /\ pc'[u] = "spawned" =>
                  Unspent(held'[u], runs', due') /\ held'[u].runAt <= now'
             /\ pc'[u] = "performing" => Started(held'[u], runs', due')
  <2>1. held[u].id \in Jobs /\ held[u].id # j
    BY <1>3 DEF Ownership, Owns, Envelopes
  <2>2. /\ pc[u] = "spawned" => Unspent(held[u], runs, due) /\ held[u].runAt <= now
        /\ pc[u] = "performing" => Started(held[u], runs, due)
    BY DEF Accounted
  <2>3. /\ Unspent(held[u], runs, due) => Unspent(held[u], runs', due')
        /\ Started(held[u], runs, due) => Started(held[u], runs', due')
    BY <2>1, OtherJobs
  <2> QED
    BY <1>3, <2>2, <2>3
<1> QED
  BY <1>1, <1>2, <1>3

(* A fresh envelope carries no attempts and the delay it was enqueued with. *)
LEMMA AccountedEnqueue ==
  ASSUME TypeInv, Places, Accounted, AttemptBudget,
         NEW j \in Jobs, NEW delay \in Delays, Enqueue(j, delay)
  PROVE  Accounted' /\ AttemptBudget'
<1> USE DEF TypeInv, JobsTypeOK
<1> DEFINE e == NewEnvelope(j, delay)
<1>1. e \in Envelopes /\ e.id = j /\ e.attempts = 0 /\ e.runAt = now + delay
  BY JobsAssumption DEF NewEnvelope, Envelope, Envelopes
<1>2. /\ queue' = Append(queue, e) /\ runs' = runs /\ now' = now
      /\ popped' = popped /\ pc' = pc /\ held' = held
      /\ due'[j] = now + delay /\ \A k \in Jobs \ {j} : due'[k] = due[k]
      /\ outcome[j] = "new"
      /\ outcome'[j] = "pending" /\ \A k \in Jobs \ {j} : outcome'[k] = outcome[k]
  BY DEF Enqueue
<1>3. runs[j] = 0 /\ 0 < Budget[j]
  BY <1>2, BudgetType DEF Accounted
<1>4. Unspent(e, runs', due')
  BY <1>1, <1>2, <1>3 DEF Unspent, Faithful
<1>5. ~ Queued(j) /\ ~ Popped(j) /\ \A t \in Tasks : ~ Owns(t, j)
  BY <1>2 DEF Places, OnlyPending, Owned
<1>6. \A i \in 1..Len(queue') :
        \/ i \in 1..Len(queue) /\ queue'[i] = queue[i]
        \/ queue'[i] = e
  <2> HIDE DEF e
  <2> QED
    BY <1>1, <1>2
<1>7. \A i \in 1..Len(queue') : Unspent(queue'[i], runs', due')
  <2> HIDE DEF e
  <2> QED
    BY <1>2, <1>4, <1>5, <1>6, OneJobChanges
<1>8. popped' # None => Unspent(popped', runs', due')
  BY <1>2, <1>5, OneJobChanges
<1>9. \A t \in Tasks :
        /\ pc'[t] = "spawned" => Unspent(held'[t], runs', due') /\ held'[t].runAt <= now'
        /\ pc'[t] = "performing" => Started(held'[t], runs', due')
  BY <1>2, <1>5, OneJobChanges
<1>10. \A k \in Jobs : outcome'[k] = "new" => runs'[k] = 0
  BY <1>2 DEF Accounted
<1>11. AttemptBudget'
  <2>1. \A k \in Jobs : outcome'[k] = "dead" => outcome[k] = "dead"
    BY <1>2
  <2> QED
    BY <1>2, <2>1 DEF AttemptBudget
<1>12. Accounted'
  <2> HIDE DEF e
  <2> QED
    BY <1>7, <1>8, <1>9, <1>10 DEF Accounted
<1> QED
  BY <1>11, <1>12
(* The job a task is attempting is with that task alone.                    *)
LEMMA SoleOwner ==
  ASSUME TypeInv, Places, NEW t \in Tasks, pc[t] \in {"spawned", "performing"}
  PROVE  /\ held[t] \in Envelopes /\ held[t].id \in Jobs
         /\ held[t].attempts \in Nat /\ held[t].runAt \in Nat
         /\ ~ Queued(held[t].id) /\ ~ Popped(held[t].id)
         /\ \A u \in Tasks \ {t} : ~ Owns(u, held[t].id)
         /\ outcome[held[t].id] = "pending"
<1>1. held[t] \in Envelopes
  BY DEF TypeInv, JobsTypeOK, Ownership
<1>2. held[t].id \in Jobs /\ held[t].attempts \in Nat /\ held[t].runAt \in Nat
  BY <1>1 DEF Envelopes
<1>3. Owns(t, held[t].id) /\ Owned(held[t].id)
  BY <1>2 DEF Owns, Owned
<1> QED
  BY <1>1, <1>2, <1>3 DEF Places, NoDuplicate, OnlyPending

(* Starting an attempt counts it in the envelope and in the history alike.  *)
LEMMA AccountedStartAttempt ==
  ASSUME TypeInv, Places, Accounted, AttemptBudget, NEW t \in Tasks, StartAttempt(t)
  PROVE  Accounted' /\ AttemptBudget'
<1> USE DEF TypeInv, JobsTypeOK
<1> DEFINE e == held[t]
           j == e.id
           f == Envelope(e.id, e.attempts + 1, e.runAt)
<1>1. pc[t] = "spawned"
  BY DEF StartAttempt
<1>2. /\ e \in Envelopes /\ j \in Jobs /\ e.attempts \in Nat /\ e.runAt \in Nat
      /\ ~ Queued(j) /\ ~ Popped(j)
      /\ \A u \in Tasks \ {t} : ~ Owns(u, j)
      /\ outcome[j] = "pending"
  BY <1>1, SoleOwner
<1>3. Unspent(e, runs, due) /\ e.runAt <= now
  BY <1>1 DEF Accounted
<1>4. /\ queue' = queue /\ popped' = popped /\ now' = now /\ due' = due /\ outcome' = outcome
      /\ pc'[t] = "performing" /\ held'[t] = f
      /\ \A u \in Tasks \ {t} : pc'[u] = pc[u] /\ held'[u] = held[u]
      /\ runs'[j] = runs[j] + 1
      /\ \A k \in Jobs \ {j} : runs'[k] = runs[k]
  BY <1>2 DEF StartAttempt
<1>5. Started(f, runs', due')
  <2>1. runs[j] \in Nat /\ Budget[j] \in Nat /\ runs[j] < Budget[j]
    BY <1>2, <1>3, BudgetType DEF Unspent
  <2>2. runs'[j] \in 1..Budget[j]
    BY <1>4, <2>1
  <2>3. f.id = j /\ f.attempts = e.attempts + 1 /\ f.runAt = e.runAt
    BY DEF Envelope
  <2>4. e.attempts = runs[j] /\ e.runAt = due[j]
    BY <1>3 DEF Unspent, Faithful
  <2> HIDE DEF e, j, f
  <2> QED
    BY <1>4, <2>2, <2>3, <2>4 DEF Started, Faithful
<1> HIDE DEF e, j, f
<1>6. \A i \in 1..Len(queue') : Unspent(queue'[i], runs', due')
  BY <1>2, <1>4, OneJobChanges
<1>7. popped' # None => Unspent(popped', runs', due')
  BY <1>2, <1>4, OneJobChanges
<1>8. ASSUME NEW u \in Tasks
      PROVE  /\ pc'[u] = "spawned" => Unspent(held'[u], runs', due') /\ held'[u].runAt <= now'
             /\ pc'[u] = "performing" => Started(held'[u], runs', due')
  <2>1. CASE u = t
    BY <2>1, <1>4, <1>5
  <2>2. CASE u # t
    BY <2>2, <1>2, <1>4, OneJobChanges
  <2> QED
    BY <2>1, <2>2
<1>9. \A k \in Jobs : outcome'[k] = "new" => runs'[k] = 0
  BY <1>2, <1>4 DEF Accounted
<1>10. AttemptBudget'
  <2>1. runs'[j] <= Budget[j]
    <3>1. runs[j] \in Nat /\ Budget[j] \in Nat /\ runs[j] < Budget[j]
      BY <1>2, <1>3, BudgetType DEF Unspent, j
    <3> QED
      BY <1>4, <3>1
  <2> QED
    BY <1>2, <1>4, <2>1 DEF AttemptBudget
<1>11. Accounted'
  BY <1>6, <1>7, <1>8, <1>9 DEF Accounted
<1> QED
  BY <1>10, <1>11

(* However perform() ends, the envelopes and the history agree afterwards.  *)
LEMMA AccountedReturns ==
  ASSUME TypeInv, TypeInv', Places, Accounted, AttemptBudget,
         NEW t \in Tasks, Attempted(t)
  PROVE  Accounted' /\ AttemptBudget'
<1> USE DEF TypeInv, JobsTypeOK
<1> DEFINE e == held[t]
           j == e.id
           f == Envelope(e.id, e.attempts, RunAtAfterFailure(e))
<1>1. Returns(t) /\ pc[t] = "performing"
  BY DEF Attempted, Succeed, Retry, DeadLetter, Returns
<1>2. /\ e \in Envelopes /\ j \in Jobs /\ e.attempts \in Nat
      /\ ~ Queued(j) /\ ~ Popped(j)
      /\ \A u \in Tasks \ {t} : ~ Owns(u, j)
      /\ outcome[j] = "pending"
  BY <1>1, SoleOwner
<1>3. /\ Started(e, runs, due)
      /\ runs[j] = e.attempts /\ runs[j] \in 1..Budget[j]
      /\ runs[j] \in Nat /\ Budget[j] \in Nat /\ MaxRetries[j] \in Nat
      /\ Budget[j] = IF MaxRetries[j] = 0 THEN 1 ELSE MaxRetries[j]
  BY <1>1, <1>2, BudgetType DEF Accounted, Started, Faithful
<1>4. /\ popped' = popped /\ now' = now /\ runs' = runs
      /\ pc'[t] = "release" /\ \A u \in Tasks \ {t} : pc'[u] = pc[u] /\ held'[u] = held[u]
      /\ \A k \in Jobs \ {j} : outcome'[k] = outcome[k] /\ due'[k] = due[k]
      /\ outcome'[j] # "new"
  BY <1>1, <1>2 DEF Attempted, Succeed, Retry, DeadLetter, Returns, Settle
<1>5. \A i \in 1..Len(queue') : Unspent(queue'[i], runs', due')
  <2>1. \A i \in 1..Len(queue) : Unspent(queue[i], runs', due')
    <3> HIDE DEF e, j
    <3> QED
      BY <1>2, <1>4, OneJobChanges
  <2>2. CASE Retry(t)
    <3>1. queue' = Append(queue, f) /\ e.attempts < MaxRetries[j] /\ due'[j] = now + 2 ^ runs[j]
      BY <1>2, <2>2 DEF Retry
    <3>2. f.id = j /\ f.attempts = e.attempts /\ f.runAt = now + 2 ^ e.attempts
      BY DEF Envelope, RunAtAfterFailure
    <3>3. runs[j] < Budget[j]
      BY <1>3, <3>1
    <3> HIDE DEF e, j, f
    <3>4. Unspent(f, runs', due')
      BY <1>3, <1>4, <3>1, <3>2, <3>3 DEF Unspent, Faithful
    <3>5. \A i \in 1..Len(queue') : (i \in 1..Len(queue) /\ queue'[i] = queue[i]) \/ queue'[i] = f
      BY <3>1
    <3> QED
      BY <2>1, <3>4, <3>5
  <2>3. CASE ~ Retry(t)
    BY <2>1, <2>3 DEF Attempted, Succeed, DeadLetter
  <2> QED
    BY <2>2, <2>3
<1>6. AttemptBudget'
  <2>1. CASE outcome'[j] = "dead"
    <3>1. DeadLetter(t)
      BY <1>2, <2>1 DEF Attempted, Succeed, Retry, Settle
    <3>2. ~ (e.attempts < MaxRetries[j])
      BY <3>1 DEF DeadLetter
    <3>3. runs[j] = Budget[j]
      BY <1>3, <3>2
    <3> HIDE DEF e, j
    <3> QED
      BY <1>2, <1>4, <3>3 DEF AttemptBudget
  <2>2. CASE outcome'[j] # "dead"
    <3> HIDE DEF e, j
    <3> QED
      BY <1>2, <1>4, <2>2 DEF AttemptBudget
  <2> QED
    BY <2>1, <2>2
<1> HIDE DEF e, j, f
<1>7. popped' # None => Unspent(popped', runs', due')
  BY <1>2, <1>4, OneJobChanges
<1>8. ASSUME NEW u \in Tasks
      PROVE  /\ pc'[u] = "spawned" => Unspent(held'[u], runs', due') /\ held'[u].runAt <= now'
             /\ pc'[u] = "performing" => Started(held'[u], runs', due')
  <2>1. CASE u = t
    BY <2>1, <1>4
  <2>2. CASE u # t
    BY <2>2, <1>2, <1>4, OneJobChanges
  <2> QED
    BY <2>1, <2>2
<1>9. \A k \in Jobs : outcome'[k] = "new" => runs'[k] = 0
  BY <1>2, <1>4 DEF Accounted
<1>10. Accounted'
  BY <1>5, <1>7, <1>8, <1>9 DEF Accounted
<1> QED
  BY <1>6, <1>10

(* The clock is a number of seconds and a tick only moves it forward.       *)
LEMMA NowType == TypeInv => now \in Nat /\ now >= now /\ now + 1 \in Nat /\ now + 1 >= now
BY DEF TypeInv, JobsTypeOK

(* Every step keeps the envelopes true to the history of attempts.          *)
LEMMA AccountedNext ==
  ASSUME TypeInv, TypeInv', Places, Accounted, AttemptBudget, [JobsNext]_jobsVars
  PROVE  Accounted' /\ AttemptBudget'
<1>1. CASE TryRecv
  <2>1. /\ Head(queue) = queue[1] /\ Len(queue) \in Nat /\ Len(queue) >= 1
        /\ Len(Tail(queue)) = Len(queue) - 1
        /\ \A i \in 1..Len(Tail(queue)) : Tail(queue)[i] = queue[i + 1]
    BY <1>1 DEF TryRecv, TypeInv, JobsTypeOK
  <2>2. /\ queue' = Tail(queue) /\ popped' = Head(queue) /\ pc' = pc /\ held' = held
        /\ now' = now /\ runs' = runs /\ due' = due /\ outcome' = outcome
    BY <1>1 DEF TryRecv
  <2>3. \A i \in 1..Len(queue') : \E k \in 1..Len(queue) : queue'[i] = queue[k]
    <3>1. ASSUME NEW i \in 1..Len(queue')
          PROVE  i + 1 \in 1..Len(queue) /\ queue'[i] = queue[i + 1]
      BY <2>1, <2>2
    <3> QED
      BY <3>1
  <2>4. \E k \in 1..Len(queue) : popped' = queue[k]
    BY <2>1, <2>2
  <2> QED
    BY <2>2, <2>3, <2>4, NowType, MovedEnvelopes
<1>2. CASE PutBack
  <2>1. popped # None /\ popped \in Envelopes /\ queue' = Append(queue, popped)
    BY <1>2 DEF PutBack, TypeInv, JobsTypeOK, Ownership
  <2>3. \A i \in 1..Len(queue') : (i \in 1..Len(queue) /\ queue'[i] = queue[i]) \/ queue'[i] = popped
    BY <2>1 DEF TypeInv, JobsTypeOK
  <2>2. /\ popped' = None /\ pc' = pc /\ held' = held
        /\ now' = now /\ runs' = runs /\ due' = due /\ outcome' = outcome
    BY <1>2 DEF PutBack
  <2> QED
    BY <2>1, <2>2, <2>3, NowType, MovedEnvelopes
<1>3. ASSUME NEW t \in Tasks, Dispatch(t)
      PROVE  Accounted' /\ AttemptBudget'
  <2>1. /\ queue' = queue /\ popped' = None /\ popped # None
        /\ now' = now /\ runs' = runs /\ due' = due /\ outcome' = outcome
    BY <1>3 DEF Dispatch, TypeInv, Ownership
  <2>2. /\ pc'[t] = "spawned" /\ held'[t] = popped /\ popped.runAt <= now
        /\ \A u \in Tasks \ {t} : pc'[u] = pc[u] /\ held'[u] = held[u]
    BY <1>3 DEF Dispatch, TypeInv, JobsTypeOK
  <2> QED
    BY <2>1, <2>2, NowType, MovedEnvelopes
<1>4. ASSUME NEW t \in Tasks, Release(t)
      PROVE  Accounted' /\ AttemptBudget'
  <2>1. /\ queue' = queue /\ popped' = popped
        /\ now' = now /\ runs' = runs /\ due' = due /\ outcome' = outcome
        /\ pc'[t] = "idle" /\ \A u \in Tasks \ {t} : pc'[u] = pc[u] /\ held'[u] = held[u]
    BY <1>4 DEF Release, TypeInv, JobsTypeOK
  <2> QED
    BY <2>1, NowType, MovedEnvelopes
<1>5. CASE Acquire \/ TryRecvEmpty \/ Wake \/ Tick \/ UNCHANGED jobsVars
  <2>1. /\ queue' = queue /\ popped' = popped /\ pc' = pc /\ held' = held
        /\ now' \in Nat /\ now' >= now /\ runs' = runs /\ due' = due /\ outcome' = outcome
    BY <1>5, NowType DEF Acquire, TryRecvEmpty, Wake, Tick, jobsVars, system
  <2> QED
    BY <2>1, MovedEnvelopes
<1>6. ASSUME NEW j \in Jobs, NEW delay \in Delays, Enqueue(j, delay)
      PROVE  Accounted' /\ AttemptBudget'
  BY <1>6, AccountedEnqueue
<1>7. ASSUME NEW t \in Tasks, StartAttempt(t) \/ Attempted(t)
      PROVE  Accounted' /\ AttemptBudget'
  BY <1>7, AccountedStartAttempt, AccountedReturns
<1> QED
  BY <1>1, <1>2, <1>3, <1>4, <1>5, <1>6, <1>7 DEF JobsNext, EngineStep, TaskStep

-----------------------------------------------------------------------------
(* The invariant, and what follows from it                                  *)

(* The inductive invariant holds when the server starts.                    *)
LEMMA InvariantInit == JobsInit => IInv
BY TypeInvInit, PermitInit, PlacesInit, AccountedInit DEF IInv

(* Every step of the job system preserves the inductive invariant.          *)
LEMMA InvariantNext == IInv /\ [JobsNext]_jobsVars => IInv'
<1> SUFFICES ASSUME IInv, [JobsNext]_jobsVars PROVE IInv'
  OBVIOUS
<1>1. TypeInv'
  BY TypeInvNext DEF IInv
<1>2. PermitConservation'
  BY PermitNext DEF IInv
<1>3. Places'
  BY <1>1, PlacesNext DEF IInv
<1>4. Accounted' /\ AttemptBudget'
  BY <1>1, AccountedNext DEF IInv
<1> QED
  BY <1>1, <1>2, <1>3, <1>4 DEF IInv

(* The job system never leaves its inductive invariant.                     *)
THEOREM Invariance == JobsSpec => []IInv
BY InvariantInit, InvariantNext, PTL DEF JobsSpec

(* The variables of the job system always have their types.                 *)
THEOREM TypeCorrect == JobsSpec => []JobsTypeOK
<1>1. IInv => JobsTypeOK
  BY DEF IInv, TypeInv
<1> QED
  BY <1>1, Invariance, PTL

(* Every path through the engine and the task returns the permit it took,   *)
(* once.                                                                    *)
THEOREM PermitsConserved == JobsSpec => []PermitConservation
<1>1. IInv => PermitConservation
  BY DEF IInv
<1> QED
  BY <1>1, Invariance, PTL

(* No interleaving of fetch, put-back, retry and completion duplicates an   *)
(* accepted job or loses it.                                                *)
THEOREM EachJobInOnePlace == JobsSpec => []Places
<1>1. IInv => Places
  BY DEF IInv
<1> QED
  BY <1>1, Invariance, PTL

(* No job is attempted more often than its max_retries allows, and a job is *)
(* only given up when it has used all of them.                              *)
THEOREM AttemptsBounded == JobsSpec => []AttemptBudget
<1>1. IInv => AttemptBudget
  BY DEF IInv
<1> QED
  BY <1>1, Invariance, PTL

(* No attempt starts before the delay or the backoff it must wait for.      *)
THEOREM BackoffRespected == JobsSpec => NeverEarly
<1> DEFINE Punctual == \A j \in Jobs : runs'[j] # runs[j] => now >= due[j]
<1>1. IInv /\ [JobsNext]_jobsVars => [Punctual]_jobsVars
  <2> SUFFICES ASSUME IInv, JobsNext, NEW j \in Jobs, runs'[j] # runs[j] PROVE now >= due[j]
    OBVIOUS
  <2>1. PICK t \in Tasks : StartAttempt(t)
    BY DEF JobsNext, EngineStep, TaskStep, Attempted, Enqueue, Acquire, TryRecv, TryRecvEmpty,
           PutBack, Wake, Dispatch, Succeed, Retry, DeadLetter, Returns, Release, Tick
  <2>2. held[t].id = j /\ pc[t] = "spawned"
    BY <2>1 DEF StartAttempt, IInv, TypeInv, JobsTypeOK
  <2>3. held[t].runAt = due[j] /\ held[t].runAt <= now
    BY <2>2 DEF IInv, Accounted, Unspent, Faithful
  <2>4. due[j] \in Nat /\ now \in Nat
    BY DEF IInv, TypeInv, JobsTypeOK
  <2> QED
    BY <2>3, <2>4
<1> QED
  BY <1>1, Invariance, PTL DEF JobsSpec, NeverEarly

(* A job that is completed or given up is never touched again.              *)
THEOREM SettlementIsFinal == JobsSpec => SettledIsFinal
<1> DEFINE Final == \A j \in Jobs : outcome[j] \in {"completed", "dead"} =>
                      outcome'[j] = outcome[j] /\ runs'[j] = runs[j]
<1>1. IInv /\ [JobsNext]_jobsVars => [Final]_jobsVars
  <2> SUFFICES ASSUME IInv, JobsNext, NEW j \in Jobs, outcome[j] \in {"completed", "dead"}
               PROVE  outcome'[j] = outcome[j] /\ runs'[j] = runs[j]
    OBVIOUS
  <2>1. \A t \in Tasks : pc[t] \in {"spawned", "performing"} => held[t].id # j
    BY SoleOwner DEF IInv
  <2>2. ASSUME NEW t \in Tasks, TaskStep(t)
        PROVE  outcome'[j] = outcome[j] /\ runs'[j] = runs[j]
    BY <2>1, <2>2 DEF TaskStep, StartAttempt, Attempted, Succeed, Retry, DeadLetter, Returns,
                      Release, Settle, IInv, TypeInv, JobsTypeOK
  <2>3. ASSUME NEW k \in Jobs, NEW delay \in Delays, Enqueue(k, delay)
        PROVE  outcome'[j] = outcome[j] /\ runs'[j] = runs[j]
    BY <2>3 DEF Enqueue, IInv, TypeInv, JobsTypeOK
  <2>4. CASE EngineStep \/ Tick
    BY <2>4 DEF EngineStep, Acquire, TryRecv, TryRecvEmpty, PutBack, Wake, Dispatch, Tick
  <2> QED
    BY <2>2, <2>3, <2>4 DEF JobsNext
<1> QED
  BY <1>1, Invariance, PTL DEF JobsSpec, SettledIsFinal
-----------------------------------------------------------------------------
(* Refinement                                                               *)

PerformingTasks == {t \in Tasks : pc[t] = "performing"}

(* Only a task performs a job, so the running jobs are no more than the     *)
(* tasks that perform one.                                                  *)
LEMMA RunningBound ==
  ASSUME TypeInv
  PROVE  /\ IsFiniteSet(PerformingTasks)
         /\ IsFiniteSet(Lifecycle!Running)
         /\ Cardinality(Lifecycle!Running) <= Cardinality(PerformingTasks)
<1> DEFINE job == [t \in PerformingTasks |-> held[t].id]
           Performed == {held[t].id : t \in PerformingTasks}
<1>1. IsFiniteSet(PerformingTasks)
  BY JobsAssumption, FS_Subset DEF PerformingTasks
<1>2. IsFiniteSet(Performed) /\ Cardinality(Performed) <= Cardinality(PerformingTasks)
  <2>1. job \in Surjection(PerformingTasks, Performed)
    BY DEF Surjection
  <2> HIDE DEF job, Performed
  <2> QED
    BY <1>1, <2>1, FS_Surjection
<1>3. Lifecycle!Running \subseteq Performed
  BY DEF Lifecycle!Running, Status, Performing, PerformingTasks, TypeInv, JobsTypeOK, Outcomes
<1>4. /\ IsFiniteSet(Lifecycle!Running)
      /\ Cardinality(Lifecycle!Running) <= Cardinality(Performed)
  BY <1>2, <1>3, FS_Subset
<1> QED
  BY <1>1, <1>2, <1>4, FS_CardinalityType
(* A step that starts and ends no attempt and settles nothing stutters.     *)
LEMMA LifecycleStutter ==
  ASSUME outcome' = outcome, runs' = runs, \A j \in Jobs : Performing(j)' <=> Performing(j)
  PROVE  UNCHANGED Lifecycle!vars
BY DEF Lifecycle!vars, Status

(* A step of the queue is one step in the life of one job, or none.         *)
LEMMA LifecycleStep ==
  ASSUME IInv, IInv', [JobsNext]_jobsVars
  PROVE  [Lifecycle!Next]_(Lifecycle!vars)
<1> USE DEF IInv, TypeInv
<1> DEFINE status == [j \in Jobs |-> Status(j)]
<1>1. ASSUME NEW j \in Jobs, NEW delay \in Delays, Enqueue(j, delay)
      PROVE  Lifecycle!Submit(j)
  <2>1. /\ outcome[j] = "new" /\ outcome' = [outcome EXCEPT ![j] = "pending"]
        /\ runs' = runs /\ pc' = pc /\ held' = held
    BY <1>1 DEF Enqueue
  <2>2. ~ Performing(j)
    BY <2>1, SoleOwner DEF Performing
  <2>3. \A k \in Jobs : Performing(k)' <=> Performing(k)
    BY <2>1 DEF Performing
  <2>4. /\ Status(j) = "new" /\ Status(j)' = "waiting"
        /\ \A k \in Jobs \ {j} : Status(k)' = Status(k)
    BY <2>1, <2>2, <2>3 DEF Status, JobsTypeOK
  <2> QED
    BY <2>1, <2>4 DEF Lifecycle!Submit, Lifecycle!Move
<1>2. ASSUME NEW t \in Tasks, StartAttempt(t), NEW j \in Jobs, j = held[t].id
      PROVE  Lifecycle!Start(j)
  <2>1. /\ pc[t] = "spawned" /\ pc' = [pc EXCEPT ![t] = "performing"] /\ outcome' = outcome
        /\ runs' = [runs EXCEPT ![j] = @ + 1] /\ held'[t].id = j
        /\ \A u \in Tasks \ {t} : held'[u] = held[u]
    BY <1>2 DEF StartAttempt, Envelope, JobsTypeOK
  <2>2. outcome[j] = "pending" /\ \A u \in Tasks \ {t} : ~ Owns(u, j)
    BY <1>2, <2>1, SoleOwner
  <2>3. ~ Performing(j) /\ Performing(j)' /\ \A k \in Jobs \ {j} : Performing(k)' <=> Performing(k)
    BY <1>2, <2>1, <2>2 DEF Performing, Owns, JobsTypeOK
  <2>4. /\ Status(j) = "waiting" /\ Status(j)' = "running"
        /\ \A k \in Jobs \ {j} : Status(k)' = Status(k)
    BY <2>1, <2>2, <2>3 DEF Status
  <2>5. Cardinality(Lifecycle!Running) < MaxWorkers
    <3>1. PerformingTasks \subseteq Live \ {t} /\ t \in Live
      BY <2>1 DEF PerformingTasks, Live
    <3>2. IsFiniteSet(Live \ {t}) /\ Cardinality(Live \ {t}) = Cardinality(Live) - 1
      BY <3>1, LiveFinite, FS_RemoveElement
    <3>3. Cardinality(PerformingTasks) <= Cardinality(Live) - 1
      BY <3>1, <3>2, FS_Subset
    <3>4. Cardinality(Live) <= MaxWorkers /\ MaxWorkers \in Nat
      BY LiveFinite, JobsAssumption DEF PermitConservation, EnginePermits, JobsTypeOK
    <3>5. /\ Cardinality(Lifecycle!Running) \in Nat /\ Cardinality(PerformingTasks) \in Nat
          /\ Cardinality(Lifecycle!Running) <= Cardinality(PerformingTasks)
      BY RunningBound, FS_CardinalityType
    <3> QED
      BY <3>3, <3>4, <3>5, LiveFinite
  <2>6. status'= [status EXCEPT ![j] = "running"]
    BY <2>2, <2>4
  <2>7. Lifecycle!Cardinality(Lifecycle!Running) < MaxWorkers
    BY <2>5 DEF Lifecycle!Cardinality, Cardinality
  <2> QED
    BY <2>1, <2>2, <2>4, <2>6, <2>7 DEF Lifecycle!Start, Lifecycle!Move
<1>3. ASSUME NEW t \in Tasks, Attempted(t), NEW j \in Jobs, j = held[t].id
      PROVE  Lifecycle!Succeed(j) \/ Lifecycle!Retry(j) \/ Lifecycle!GiveUp(j)
  <2>1. Returns(t) /\ pc[t] = "performing" /\ runs' = runs
    BY <1>3 DEF Attempted, Succeed, Retry, DeadLetter, Returns
  <2>2. outcome[j] = "pending" /\ \A u \in Tasks \ {t} : ~ Owns(u, j)
    BY <1>3, <2>1, SoleOwner
  <2>3. runs[j] = held[t].attempts /\ runs[j] \in 1..Budget[j]
    BY <1>3, <2>1 DEF Accounted, Started, Faithful
  <2>4. /\ pc'[t] = "release"
        /\ \A u \in Tasks \ {t} : pc'[u] = pc[u] /\ held'[u] = held[u]
    BY <2>1 DEF Returns, JobsTypeOK
  <2>5. Performing(j) /\ ~ Performing(j)' /\ \A k \in Jobs \ {j} : Performing(k)' <=> Performing(k)
    <3>1. Performing(j)
      BY <1>3, <2>1 DEF Performing
    <3>2. \A u \in Tasks \ {t} : pc[u] = "performing" => held[u].id # j
      BY <2>2 DEF Owns
    <3>3. \A k \in Jobs \ {j} : Performing(k)' <=> Performing(k)
      BY <1>3, <2>1, <2>4 DEF Performing
    <3>4. ~ Performing(j)'
      BY <2>4, <3>2 DEF Performing
    <3> QED
      BY <3>1, <3>3, <3>4
  <2>6. \A k \in Jobs \ {j} : outcome'[k] = outcome[k]
    BY <1>3, <2>2 DEF Attempted, Succeed, Retry, DeadLetter, Settle, JobsTypeOK
  <2>7. Status(j) = "running" /\ \A k \in Jobs \ {j} : Status(k)' = Status(k)
    BY <2>2, <2>5, <2>6 DEF Status
  <2>8. Budget[j] \in Nat /\ MaxRetries[j] \in Nat /\ Budget[j] = IF MaxRetries[j] = 0 THEN 1 ELSE MaxRetries[j]
    BY <2>2, BudgetType
  <2>9. CASE Succeed(t)
    <3>1. j \in Registered /\ outcome'[j] = "completed"
      BY <2>2, <1>3, <2>9 DEF Succeed, Settle, JobsTypeOK
    <3>2. status' = [status EXCEPT ![j] = "completed"]
      BY <2>2, <2>7, <3>1 DEF Status
    <3>3. Lifecycle!Succeed(j)
      BY <2>1, <2>2, <2>7, <3>1, <3>2 DEF Lifecycle!Succeed, Lifecycle!Move
    <3> QED
      BY <3>3
  <2>10. CASE Retry(t)
    <3>1. runs[j] < Budget[j] /\ outcome'[j] = "pending"
      BY <2>2, <2>3, <2>8, <1>3, <2>10 DEF Retry
    <3>2. status' = [status EXCEPT ![j] = "waiting"]
      BY <2>2, <2>5, <2>7, <3>1 DEF Status
    <3>3. Lifecycle!Retry(j)
      BY <2>1, <2>2, <2>7, <3>1, <3>2 DEF Lifecycle!Retry, Lifecycle!Move
    <3> QED
      BY <3>3
  <2>11. CASE DeadLetter(t)
    <3>1. runs[j] = Budget[j] /\ outcome'[j] = "dead"
      BY <2>2, <2>3, <2>8, <1>3, <2>11 DEF DeadLetter, Settle, JobsTypeOK
    <3>2. status' = [status EXCEPT ![j] = "dead"]
      BY <2>2, <2>7, <3>1 DEF Status
    <3>3. Lifecycle!GiveUp(j)
      BY <2>1, <2>2, <2>7, <3>1, <3>2 DEF Lifecycle!GiveUp, Lifecycle!Move
    <3> QED
      BY <3>3
  <2> QED
    BY <1>3, <2>9, <2>10, <2>11 DEF Attempted
<1>4. ASSUME NEW t \in Tasks, Release(t) \/ Dispatch(t)
      PROVE  UNCHANGED Lifecycle!vars
  <2>1. \A j \in Jobs : Performing(j)' <=> Performing(j)
    BY <1>4 DEF Release, Dispatch, Performing, JobsTypeOK
  <2>2. outcome' = outcome /\ runs' = runs
    BY <1>4 DEF Release, Dispatch
  <2> QED
    BY <2>1, <2>2, LifecycleStutter
<1>5. CASE Acquire \/ TryRecv \/ TryRecvEmpty \/ PutBack \/ Wake \/ Tick \/ UNCHANGED jobsVars
  <2>1. outcome' = outcome /\ runs' = runs /\ pc' = pc /\ held' = held
    BY <1>5 DEF Acquire, TryRecv, TryRecvEmpty, PutBack, Wake, Tick, jobsVars, system
  <2> QED
    BY <2>1, LifecycleStutter DEF Performing
<1>6. \A t \in Tasks : StartAttempt(t) \/ Attempted(t) => held[t].id \in Jobs
  BY SoleOwner DEF StartAttempt, Attempted, Succeed, Retry, DeadLetter, Returns
<1> QED
  BY <1>1, <1>2, <1>3, <1>4, <1>5, <1>6 DEF JobsNext, EngineStep, TaskStep, Lifecycle!Next

(* The empty queue is the start of every job's life.                        *)
LEMMA LifecycleInit == JobsInit => Lifecycle!Init
BY DEF JobsInit, Lifecycle!Init, Status

(* The queue, the engine and the tasks together implement the life of a job *)
(* that JobLifecycle describes, with at most MaxWorkers attempts under way. *)
THEOREM Refinement == JobsSpec => ImplementsLifecycle
BY LifecycleInit, LifecycleStep, Invariance, PTL DEF JobsSpec, ImplementsLifecycle, Lifecycle!Spec

(* No interleaving loses, duplicates or overworks a job.                    *)
THEOREM JobsAccountedFor == JobsSpec => []JobsAccounted
<1>1. JobsTypeOK /\ Places /\ AttemptBudget => JobsAccounted
  BY DEF JobsAccounted
<1> QED
  BY <1>1, TypeCorrect, EachJobInOnePlace, AttemptsBounded, PTL

(* Every attempt waits for its delay, and none follows the settlement.      *)
THEOREM AttemptsAreInTime == JobsSpec => AttemptsInTime
BY BackoffRespected, SettlementIsFinal DEF AttemptsInTime
=============================================================================
