----------------------------- MODULE Migrations -----------------------------
(***************************************************************************)
(* Schema migrations: a server applies the pending files of migrations/    *)
(* when it connects to its database (src/src/database/db.rs), and the      *)
(* command line applies or rolls back files (src/cli/src/migration_runner  *)
(* .rs). Every statement, script and ledger row is a database call of its  *)
(* own: a process may die, or another one run, between any two.            *)
(*                                                                         *)
(* A file is its place in name order. Its Up script is a number of         *)
(* statements; effect[f] of them, the first ones, are in the schema. A     *)
(* statement of a strict file fails when it has nothing to do (CREATE      *)
(* TABLE), one of the others then does nothing (IF NOT EXISTS).            *)
(***************************************************************************)
EXTENDS Integers, Sequences, FiniteSets, SequencesExt

CONSTANTS
  LastFile,    (* The files are 1 .. LastFile.                             *)
  Servers,     (* Server processes that share the database ...             *)
  Clis,        (* ... and command line runs.                               *)
  Commands,    (* What a command line run is asked: direction and file, or *)
               (* 0 for no --file.                                         *)
  MaxCrashes

ASSUME MigrationsAssumption ==
  /\ LastFile \in Nat /\ MaxCrashes \in Nat
  /\ Servers \cap Clis = {}
  /\ Commands \subseteq [dir : {"up", "down"}, file : 0..LastFile]

VARIABLES
  files,    (* files[f]: its statements, strict, and the markers before    *)
            (* its scripts: "full" ("-- Up:", "-- Down:"), "bare" (no      *)
            (* colon) or "none".                                           *)
  ledger,   (* The rows of gritshield_migrations.                          *)
  effect,
  audit,    (* The table audit_logs exists.                                *)
  proc,     (* proc[p]: where a process is; todo, the files before it; at, *)
            (* the statements of the first one done.                       *)
  crashes,
  upset     (* History: the files a --file run was about, or of which the  *)
            (* command line has undone something, meant or not.            *)

migrations == <<files, ledger, effect, audit, proc, crashes, upset>>

Names == 1..LastFile
Idle == [pc |-> "off", dir |-> "up", todo |-> << >>, at |-> 0]

MigrationsTypeOK ==
  /\ ledger \cup upset \subseteq Names
  /\ \A f \in Names : effect[f] \in 0..files[f].len
  /\ \A p \in Servers \cup Clis : ToSet(proc[p].todo) \subseteq Names

MigrationsInit(fs) ==
  /\ files = fs
  /\ ledger = {} /\ upset = {} /\ audit = FALSE /\ crashes = 0
  /\ effect = [f \in Names |-> 0]
  /\ proc = [p \in Servers \cup Clis |-> Idle]

(* How many statements the command line sends: extract_section finds        *)
(* nothing in a file without markers, and an Up script ends for it only at  *)
(* "-- Down:", colon included: after a bare "-- Down" it goes on with the   *)
(* statements that undo the others. extract_up_sql of a server reads both.  *)
Script(p, f) ==
  CASE files[f].marks = "none" -> 0
    [] files[f].marks = "bare" /\ proc[p].dir = "up" -> 2 * files[f].len
    [] OTHER -> files[f].len

(* The next statement undoes one, the last one first.                       *)
Undoes(p, f) == proc[p].dir = "down" \/ proc[p].at >= files[f].len

(* The files are sorted by name, and for a rollback the other way round.    *)
Listed(dir) == LET up == [i \in 1..LastFile |-> i] IN IF dir = "up" THEN up ELSE Reverse(up)

(* DbManager::connect; the table is checked and then created.               *)
Connect(p) ==
  /\ p \in Servers /\ proc[p].pc = "off"
  /\ proc' = [proc EXCEPT ![p] = [Idle EXCEPT !.pc = IF audit THEN "check" ELSE "create",
                                              !.todo = Listed("up")]]
  /\ UNCHANGED <<files, ledger, effect, audit, crashes, upset>>

CreateAudit(p) ==
  /\ proc[p].pc = "create"
  /\ proc' = [proc EXCEPT ![p] = IF audit THEN Idle ELSE [@ EXCEPT !.pc = "check"]]
  /\ audit' = TRUE
  /\ UNCHANGED <<files, ledger, effect, crashes, upset>>

(* gritshield migration up | down [--file f]                                *)
Command(p) ==
  /\ p \in Clis /\ proc[p].pc = "off"
  /\ \E c \in Commands :
       /\ proc' = [proc EXCEPT ![p] =
            [Idle EXCEPT !.pc = "check", !.dir = c.dir,
                         !.todo = IF c.file = 0 THEN Listed(c.dir) ELSE <<c.file>>]]
       /\ upset' = IF c.file = 0 THEN upset ELSE upset \cup {c.file}
  /\ UNCHANGED <<files, ledger, effect, audit, crashes>>

At(p, pc) == proc[p].pc = pc /\ proc[p].todo # << >>
File(p) == Head(proc[p].todo)
NextFile(p) == [proc[p] EXCEPT !.pc = "check", !.todo = Tail(@), !.at = 0]
(* An error: the rest of the files is left. A server is up all the same.    *)
Abort(p) == [proc[p] EXCEPT !.pc = IF p \in Servers THEN "up" ELSE "off", !.todo = << >>]

(* Mutation of Failed: an error is logged and the next file is next.        *)
Continue(p) == NextFile(p)
(* Mutation of Failed: the file counts as applied.                          *)
RecordAnyway(p) == [proc[p] EXCEPT !.pc = "record"]
Failed(p) == Abort(p)

(* A file is skipped if the ledger has it, or for a rollback if it has not. *)
Check(p) ==
  /\ At(p, "check")
  /\ proc' = [proc EXCEPT ![p] = IF (File(p) \in ledger) = (@.dir = "up") THEN NextFile(p)
                                 ELSE [@ EXCEPT !.pc = "script"]]
  /\ UNCHANGED <<files, ledger, effect, audit, crashes, upset>>

Larger(a, b) == IF a > b THEN a ELSE b
Smaller(a, b) == IF a < b THEN a ELSE b

(* A server sends the script in one call, and so it fails at its first      *)
(* statement or not at all ...                                              *)
RunScript(p) ==
  /\ p \in Servers /\ At(p, "script")
  /\ LET f == File(p) IN
       IF files[f].strict /\ effect[f] > 0
       THEN proc' = [proc EXCEPT ![p] = Failed(p)] /\ UNCHANGED effect
       ELSE /\ proc' = [proc EXCEPT ![p].pc = "record"]
            /\ effect' = [effect EXCEPT ![f] = files[f].len]
  /\ UNCHANGED <<files, ledger, audit, crashes, upset>>

(* ... the command line sends statement by statement.                       *)
RunStatement(p) ==
  /\ p \in Clis /\ At(p, "script") /\ proc[p].at < Script(p, File(p))
  /\ LET f == File(p)
         i == IF Undoes(p, f) THEN Script(p, f) - proc[p].at ELSE proc[p].at + 1
         useless == (i <= effect[f]) # Undoes(p, f)
     IN /\ IF useless /\ files[f].strict
           THEN proc' = [proc EXCEPT ![p] = Failed(p)] /\ UNCHANGED effect
           ELSE /\ proc' = [proc EXCEPT ![p].at = @ + 1]
                /\ effect' = [effect EXCEPT ![f] = IF Undoes(p, f) THEN Smaller(@, i - 1)
                                                   ELSE Larger(@, i)]
        /\ upset' = IF Undoes(p, f) THEN upset \cup {f} ELSE upset
  /\ UNCHANGED <<files, ledger, audit, crashes>>

ScriptOver(p) ==
  /\ p \in Clis /\ At(p, "script") /\ proc[p].at = Script(p, File(p))
  /\ proc' = [proc EXCEPT ![p].pc = "record"]
  /\ UNCHANGED <<files, ledger, effect, audit, crashes, upset>>

(* The ledger row, inserted under its primary key or deleted.               *)
Record(p) ==
  /\ At(p, "record")
  /\ LET f == File(p) IN
       \/ /\ proc[p].dir = "up" /\ f \notin ledger
          /\ ledger' = ledger \cup {f}
          /\ proc' = [proc EXCEPT ![p] = NextFile(p)]
       \/ /\ proc[p].dir = "up" /\ f \in ledger
          /\ proc' = [proc EXCEPT ![p] = Failed(p)]
          /\ UNCHANGED ledger
       \/ /\ proc[p].dir = "down"
          /\ ledger' = ledger \ {f}
          /\ proc' = [proc EXCEPT ![p] = NextFile(p)]
  /\ upset' = IF proc[p].dir = "down" THEN upset \cup {File(p)} ELSE upset
  /\ UNCHANGED <<files, effect, audit, crashes>>

Finish(p) ==
  /\ proc[p].pc = "check" /\ proc[p].todo = << >>
  /\ proc' = [proc EXCEPT ![p] = Abort(p)]
  /\ UNCHANGED <<files, ledger, effect, audit, crashes, upset>>

(* A process dies; a script it has sent may be in effect in part.           *)
Crash(p) ==
  /\ proc[p].pc # "off" /\ crashes < MaxCrashes
  /\ crashes' = crashes + 1
  /\ proc' = [proc EXCEPT ![p] = Idle]
  /\ \/ UNCHANGED effect
     \/ /\ p \in Servers /\ At(p, "script") /\ effect[File(p)] = 0
        /\ \E n \in 1..files[File(p)].len : effect' = [effect EXCEPT ![File(p)] = n]
  /\ UNCHANGED <<files, ledger, audit, upset>>

MigrationsNext ==
  \E p \in Servers \cup Clis :
    \/ Connect(p) \/ CreateAudit(p) \/ Command(p) \/ Check(p) \/ RunScript(p)
    \/ RunStatement(p) \/ ScriptOver(p) \/ Record(p) \/ Finish(p) \/ Crash(p)

MigrationsSpec(fs) == MigrationsInit(fs) /\ [][MigrationsNext]_migrations
-----------------------------------------------------------------------------
(* What the ledger says was applied is in the schema, whatever processes    *)
(* raced or died on the way. Excepted are the files of a --file run, those  *)
(* the command line undid - in a rollback, or because it read a bare        *)
(* "-- Down" as part of the Up script (migration_runner.rs:225; a server    *)
(* stops there, db.rs:230) - and those without markers, of which it records *)
(* a script it did not find.                                                *)
LedgerIsTrue ==
  \A f \in ledger \ upset : files[f].marks # "none" => effect[f] = files[f].len

(* The files take effect in their order: nothing of a file is in the schema *)
(* before every earlier one is in the ledger, though one process may be at  *)
(* the earlier file while another goes on, or fails, or dies.               *)
AppliedInOrder ==
  upset = {} => \A f, g \in Names : f < g /\ effect[g] > 0 => f \in ledger

(* What the next start may conclude from the ledger: what it names is in    *)
(* effect, and what comes before anything in effect is named.               *)
LedgerHolds == MigrationsTypeOK /\ LedgerIsTrue /\ AppliedInOrder
=============================================================================
