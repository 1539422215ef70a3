-------------------------------- MODULE Cron --------------------------------
(***************************************************************************)
(* The cron scheduler of src/src/core/job_queue.rs, for one rule that is   *)
(* due every Period: each second it looks whether the next occurrence is   *)
(* less than a second away, and then enqueues the job. The interval is     *)
(* tokio's, whose missed ticks follow one another at once (Burst). A tick  *)
(* reads the clock twice, and time passes between the two.                 *)
(***************************************************************************)
EXTENDS Integers, Sequences

CONSTANTS
  Second,     (* The clock's units in a second: finer than any lateness.   *)
  Period,     (* The units between two occurrences.                        *)
  MaxLate,    (* A tick is served at most this long after its time.        *)
  Horizon     (* The clock stops here.                                     *)

ASSUME CronAssumption ==
  /\ {Second, Period} \subseteq Nat \ {0} /\ {MaxLate, Horizon} \subseteq Nat

VARIABLES
  time,
  tick,     (* When the interval's next tick is due.                       *)
  looked,   (* The `now` of the tick under way, NoTick between the ticks.  *)
  fired     (* fired: the occurrence of every job enqueued, in order.      *)

cron == <<time, tick, looked, fired>>

NoTick == -1

CronInit(start) == time = start /\ tick = start /\ looked = NoTick /\ fired = << >>

(* schedule.upcoming: the first occurrence after the clock's time.          *)
Upcoming == (time \div Period + 1) * Period

(* Mutation of Within: the second before the last counts too.               *)
WithinTwo(next) == (next - looked) \div Second <= 1

(* diff == 0, of whole seconds from `now`.                                  *)
Within(next) == (next - looked) \div Second = 0

(* The tick comes and reads `now` ...                                       *)
CronTick ==
  /\ looked = NoTick /\ tick <= time
  /\ looked' = time
  /\ UNCHANGED <<time, tick, fired>>

(* ... and upcoming reads the clock again.                                  *)
Fire ==
  /\ looked # NoTick
  /\ looked' = NoTick
  /\ tick' = tick + Second
  /\ fired' = IF Within(Upcoming) THEN Append(fired, Upcoming) ELSE fired
  /\ UNCHANGED time

(* Time passes, unless a tick is as late as it can be.                      *)
Flow ==
  /\ time < Horizon /\ time < tick + MaxLate
  /\ time' = time + 1
  /\ UNCHANGED <<tick, looked, fired>>

CronNext == CronTick \/ Fire \/ Flow

CronSpec(start) == CronInit(start) /\ [][CronNext]_cron
-----------------------------------------------------------------------------
(* Bunched ticks enqueue one occurrence more than once, but the damage is   *)
(* bounded by the lateness: between the first job of an occurrence and its  *)
(* last there are fewer jobs than the seconds of lateness and one more.     *)
CronBounded ==
  \A i, j \in DOMAIN fired :
    fired[i] = fired[j] => j - i < (MaxLate + 2 * Second - 2) \div Second
=============================================================================
