---------------------------- MODULE JobLifecycle ----------------------------
(***************************************************************************)
(* What the job queue promises to the code that enqueues a job, with the   *)
(* queue, the polling engine, the permits and the clock left out: a job    *)
(* waits, is attempted, and after each failed attempt either waits again   *)
(* or is given up; at most MaxWorkers attempts are under way at a time.    *)
(*                                                                         *)
(* JobQueue implements this specification (JobQueue!Lifecycle).            *)
(***************************************************************************)
EXTENDS Integers, FiniteSets

CONSTANTS
  Jobs,        (* The enqueued jobs, by id.                                *)
  MaxWorkers,  (* Size of the worker pool.                                 *)
  Budget,      (* Budget[j]: the attempts j may use before it is given up. *)
  Registered   (* The jobs whose type has a registered runner.             *)

VARIABLES
  status,      (* status[j]: where j is in its life.                       *)
  tries        (* tries[j]: the attempts of j started so far.              *)

vars == <<status, tries>>

Stages == {"new", "waiting", "running", "completed", "dead"}

TypeOK ==
  /\ status \in [Jobs -> Stages]
  /\ tries \in [Jobs -> Nat]

Init ==
  /\ status = [j \in Jobs |-> "new"]
  /\ tries = [j \in Jobs |-> 0]

Running == {j \in Jobs : status[j] = "running"}

Move(j, from, to) ==
  /\ status[j] = from
  /\ status' = [status EXCEPT ![j] = to]

Submit(j) == Move(j, "new", "waiting") /\ UNCHANGED tries

Start(j) ==
  /\ Cardinality(Running) < MaxWorkers
  /\ Move(j, "waiting", "running")
  /\ tries' = [tries EXCEPT ![j] = @ + 1]

Succeed(j) == j \in Registered /\ Move(j, "running", "completed") /\ UNCHANGED tries

Retry(j) == tries[j] < Budget[j] /\ Move(j, "running", "waiting") /\ UNCHANGED tries

GiveUp(j) == tries[j] = Budget[j] /\ Move(j, "running", "dead") /\ UNCHANGED tries

Next ==
  \E j \in Jobs : Submit(j) \/ Start(j) \/ Succeed(j) \/ Retry(j) \/ GiveUp(j)

Spec == Init /\ [][Next]_vars
=============================================================================
