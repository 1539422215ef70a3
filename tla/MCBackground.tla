---------------------------- MODULE MCBackground ----------------------------
(* The two machines behind the handlers, the job queue and the event bus:   *)
(* one of them moves in a behaviour and the other keeps still, so that one  *)
(* run explores both.                                                       *)
EXTENDS JobQueue, EventBus
CONSTANTS a, b, c, h1, h2, h3

VARIABLE part
parts == <<part, jobsVars, busVars>>

(* Job a may be attempted twice, b has retries = 0, c once.                 *)
MCMaxRetries == [j \in Jobs |-> CASE j = a -> 2 [] j = b -> 0 [] OTHER -> 1]
(* Two handlers of one type and one of another.                             *)
MCWants == [h \in Handlers |-> IF h = h3 THEN "paid" ELSE "placed"]

Init == part \in {"jobs", "bus"} /\ JobsInit /\ BusInit

(* Once every event is published and handled, the bus is silent.            *)
Next ==
  /\ UNCHANGED part
  /\ \/ part = "jobs" /\ JobsNext /\ UNCHANGED busVars
     \/ part = "bus" /\ BusNext /\ UNCHANGED jobsVars
     \/ part = "bus" /\ UNCHANGED parts

(* JobsFairness where the jobs move; a bus without handlers is silent.      *)
Fairness ==
  /\ BusFairness
  /\ WF_jobsVars(part = "jobs" /\ EngineStep)
  /\ \A t \in Tasks : WF_jobsVars(part = "jobs" /\ TaskStep(t))
  /\ WF_jobsVars(part = "jobs" /\ Tick)

Spec == Init /\ [][Next]_parts /\ Fairness
=============================================================================
