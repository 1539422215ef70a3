-------------------------- MODULE TransactionProofs --------------------------
(***************************************************************************)
(* Theorems about Transaction for every set of requests, every pool, every *)
(* depth of nesting and any number of scopes, effects and detached clones; *)
(* and about Repository for every table, query and relation asked for, any *)
(* writes of other clients and every set of entities.                      *)
(***************************************************************************)
EXTENDS Transaction, Repository, FiniteSetTheorems, WellFoundedInduction, SequenceTheorems, TLAPS

-----------------------------------------------------------------------------
(* The parts of the inductive invariant.                                    *)

(* A scope is on the stack of one request, and once.                        *)
Scopes ==
  \A r, s \in Requests : \A i \in 1..Len(stack[r]), j \in 1..Len(stack[s]) :
    stack[r][i] = stack[s][j] => r = s /\ i = j

(* The scopes a request is in have an open transaction and no result.       *)
Undecided ==
  \A r \in Requests : \A i \in 1..Len(stack[r]) :
    db[stack[r][i]] = "open" /\ result[stack[r][i]] = "none"

(* A clone keeps its transaction open; what has not begun has no result.    *)
Clones ==
  \A x \in Txns : /\ detached[x] > 0 => db[x] = "open"
                  /\ db[x] = "none" => result[x] = "none"

(* A commit under way has the only Arc of the innermost scope.              *)
Committing ==
  \A r \in Requests : doing[r] = "commit" => stack[r] # << >> /\ detached[Last(stack[r])] = 0

(* The types of what the scopes are, and of what is emitted in them.        *)
StateOK ==
  /\ doing \in [Requests -> {"body", "acquire", "commit", "done"}]
  /\ stack \in [Requests -> Seq(Txns)]
  /\ db \in [Txns -> {"none", "open", "committed", "rolledback"}]
  /\ free \in 0..PoolSize
  /\ detached \in [Txns -> 0..MaxDetached]
  /\ result \in [Txns -> {"none", "ok", "dropped", "err", "aborted"}]

BuffersOK ==
  /\ events \in [Txns -> Seq(Effects)]
  /\ jobs \in [Txns -> Seq(Effects)]
  /\ flush \in [Txns -> Seq(Effects)]
  /\ bus \in Seq(Effects)
  /\ jobQueue \in Seq(Effects)
  /\ lost \subseteq Effects
  /\ emitted \in [Txns \cup {Outside} -> Seq(Effects)]

Shape == StateOK /\ Scopes /\ Undecided /\ Clones /\ Committing /\ PoolConservation

(* The history names each effect by its scope and its place.                *)
Numbered ==
  \A x \in Txns \cup {Outside} : \A i \in 1..Len(emitted[x]) :
    emitted[x][i].txn = x /\ emitted[x][i].n = i

(* What x staged and lost.                                                  *)
LostOf(x) == {e \in lost : e.txn = x}

(* What an open scope emitted is all in its buffers, and nowhere else.      *)
HeldBack ==
  \A x \in Txns : result[x] = "none" =>
    /\ ToSet(events[x]) = Emitted(x, "event") /\ InOrder(x, events[x])
    /\ ToSet(jobs[x]) = Emitted(x, "job") /\ InOrder(x, jobs[x])
    /\ From(x, bus) = {} /\ From(x, jobQueue) = {} /\ LostOf(x) = {}

(* Only a scope that returned Ok has jobs on their way, and they are its own. *)
Tagged ==
  \A x \in Txns : /\ flush[x] # << >> => result[x] = "ok"
                  /\ \A e \in ToSet(flush[x]) : e.txn = x

EffectsInv == BuffersOK /\ Numbered /\ HeldBack /\ Tagged /\ FlushedOnce

IInv == Shape /\ EffectsInv

-----------------------------------------------------------------------------
(* Stacks                                                                   *)

(* The innermost scope is the last of the stack, the others are its front.  *)
LEMMA Innermost ==
  ASSUME NEW S, NEW s \in Seq(S), s # << >>
  PROVE  /\ Len(s) \in Nat \ {0}
         /\ Last(s) = s[Len(s)] /\ Last(s) \in S
         /\ Front(s) \in Seq(S) /\ Len(Front(s)) = Len(s) - 1
         /\ \A i \in 1..(Len(s) - 1) : Front(s)[i] = s[i]
<1>1. Len(s) \in Nat \ {0}
  OBVIOUS
<1>2. Last(s) = s[Len(s)] /\ Last(s) \in S
  BY <1>1 DEF Last
<1>3. Front(s) = [i \in 1..(Len(s) - 1) |-> s[i]]
  BY <1>1 DEF Front
<1>4. Front(s) \in Seq(S) /\ Len(Front(s)) = Len(s) - 1
  BY <1>1, <1>3
<1> QED
  BY <1>1, <1>2, <1>3, <1>4

-----------------------------------------------------------------------------
(* The pool                                                                 *)
OpenTxns == {x \in Txns : db[x] = "open"}

(* There are finitely many scopes.                                          *)
LEMMA OpenFinite ==
  /\ IsFiniteSet(OpenTxns) /\ Cardinality(OpenTxns) \in Nat
  /\ IsFiniteSet(OpenTxns') /\ Cardinality(OpenTxns') \in Nat
<1>1. IsFiniteSet(Txns)
  <2>1. 1 \in Int /\ MaxTxns \in Int
    BY TransactionAssumption
  <2>2. IsFiniteSet(1..MaxTxns)
    BY ONLY <2>1, FS_Interval
  <2> QED
    BY <2>2 DEF Txns
<1>2. OpenTxns \in SUBSET Txns /\ OpenTxns' \in SUBSET Txns
  BY DEF OpenTxns
<1> QED
  BY <1>1, <1>2, FS_Subset, FS_CardinalityType

(* Connections of transactions that were open return to the pool.           *)
LEMMA PoolReturns ==
  ASSUME PoolConservation, free \in 0..PoolSize, NEW C \in SUBSET OpenTxns,
         OpenTxns' = OpenTxns \ C, free' = free + Cardinality(C)
  PROVE  PoolConservation' /\ free' \in 0..PoolSize
<1>1. Cardinality(OpenTxns \ C) = Cardinality(OpenTxns) - Cardinality(C)
  <2>1. OpenTxns \cap C = C
    OBVIOUS
  <2> QED
    BY <2>1, OpenFinite, FS_Difference
<1>2. Cardinality(C) \in Nat /\ Cardinality(C) <= Cardinality(OpenTxns)
  BY OpenFinite, FS_Subset, FS_CardinalityType
<1>3. free + Cardinality(OpenTxns) = PoolSize
  BY DEF PoolConservation, OpenTxns
<1>4. free' + Cardinality(OpenTxns') = PoolSize
  BY <1>1, <1>2, <1>3, OpenFinite
<1>5. free' \in 0..PoolSize
  BY <1>2, <1>3, OpenFinite, TransactionAssumption
<1> QED
  BY <1>4, <1>5 DEF PoolConservation, OpenTxns

(* An idle connection goes to a transaction that begins.                    *)
LEMMA PoolGives ==
  ASSUME PoolConservation, free \in 0..PoolSize, free > 0, NEW x \in Txns, db[x] # "open",
         OpenTxns' = OpenTxns \cup {x}, free' = free - 1
  PROVE  PoolConservation' /\ free' \in 0..PoolSize
<1>1. Cardinality(OpenTxns \cup {x}) = Cardinality(OpenTxns) + 1
  BY OpenFinite, FS_AddElement DEF OpenTxns
<1>2. free + Cardinality(OpenTxns) = PoolSize
  BY DEF PoolConservation, OpenTxns
<1>3. free' + Cardinality(OpenTxns') = PoolSize
  BY <1>1, <1>2, OpenFinite
<1>4. free' \in 0..PoolSize
  BY TransactionAssumption
<1> QED
  BY <1>3, <1>4 DEF PoolConservation, OpenTxns

-----------------------------------------------------------------------------
(* Scopes and their transactions                                            *)

(* No scope is open before the first begins.                                *)
LEMMA ShapeInit == TxnInit => Shape
<1> SUFFICES ASSUME TxnInit PROVE Shape
  OBVIOUS
<1>1. StateOK /\ Scopes /\ Undecided /\ Clones /\ Committing
  BY TransactionAssumption DEF TxnInit, TxnStart, StateOK, Scopes, Undecided, Clones, Committing
<1>2. OpenTxns = {}
  BY DEF TxnInit, TxnStart, OpenTxns
<1>3. PoolConservation
  <2>1. Cardinality(OpenTxns) = 0
    BY <1>2, FS_EmptySet
  <2> QED
    BY <2>1, TransactionAssumption DEF TxnInit, TxnStart, PoolConservation, OpenTxns
<1> QED
  BY <1>1, <1>3 DEF Shape

(* A request enters no scope and leaves none: where it stands may change.   *)
LEMMA ShapeStays ==
  ASSUME Shape, NEW r \in Requests, NEW state \in {"body", "acquire", "commit", "done"},
         doing' = [doing EXCEPT ![r] = state],
         state = "commit" => stack[r] # << >> /\ detached[Last(stack[r])] = 0,
         UNCHANGED <<stack, db, free, detached, result>>
  PROVE  Shape'
<1>1. StateOK' /\ Scopes' /\ Undecided' /\ Clones'
  BY DEF Shape, StateOK, Scopes, Undecided, Clones
<1>2. Committing'
  BY DEF Shape, StateOK, Committing
<1>3. PoolConservation'
  BY DEF Shape, PoolConservation
<1> QED
  BY <1>1, <1>2, <1>3 DEF Shape

(* A new scope takes a transaction nobody has had and a connection.         *)
LEMMA ShapeBegin ==
  ASSUME Shape, NEW r \in Requests, NEW x \in Txns, Begin(r, x)
  PROVE  Shape'
<1> USE DEF Shape, StateOK
<1>1. /\ doing' = [doing EXCEPT ![r] = "body"] /\ stack' = [stack EXCEPT ![r] = Append(@, x)]
      /\ db' = [db EXCEPT ![x] = "open"] /\ db[x] = "none"
      /\ free > 0 /\ free' = free - 1 /\ detached' = detached /\ result' = result
  BY DEF Begin
<1>2. /\ stack[r] \in Seq(Txns) /\ stack'[r] \in Seq(Txns)
      /\ Len(stack[r]) \in Nat /\ Len(stack'[r]) = Len(stack[r]) + 1
      /\ stack'[r][Len(stack[r]) + 1] = x
      /\ \A i \in 1..Len(stack[r]) : stack'[r][i] = stack[r][i]
  BY <1>1
<1>3. \A s \in Requests : s # r => stack'[s] = stack[s]
  BY <1>1
<1>4. \A s \in Requests : \A i \in 1..Len(stack[s]) : stack[s][i] \in Txns /\ stack[s][i] # x
  BY <1>1 DEF Undecided
<1>5. OpenTxns' = OpenTxns \cup {x}
  BY <1>1 DEF OpenTxns
<1>6. PoolConservation' /\ free' \in 0..PoolSize
  BY <1>1, <1>5, PoolGives
<1>7. StateOK'
  BY <1>1, <1>6
<1>8. \A p \in Requests : \A i \in 1..Len(stack'[p]) :
        \/ p = r /\ i = Len(stack[r]) + 1 /\ stack'[p][i] = x
        \/ i \in 1..Len(stack[p]) /\ stack'[p][i] = stack[p][i] /\ stack'[p][i] # x
  <2> TAKE p \in Requests
  <2>1. CASE p = r
    BY <1>2, <1>4, <2>1, SMTT(30)
  <2>2. CASE p # r
    BY <1>3, <1>4, <2>2
  <2> QED
    BY <2>1, <2>2
<1>12. Scopes'
  <2> SUFFICES ASSUME NEW p \in Requests, NEW q \in Requests,
                      NEW i \in 1..Len(stack'[p]), NEW j \in 1..Len(stack'[q]),
                      stack'[p][i] = stack'[q][j]
               PROVE  p = q /\ i = j
    BY DEF Scopes
  <2>1. \/ p = r /\ i = Len(stack[r]) + 1 /\ q = r /\ j = Len(stack[r]) + 1
        \/ /\ i \in 1..Len(stack[p]) /\ j \in 1..Len(stack[q])
           /\ stack[p][i] = stack[q][j]
    BY <1>8
  <2> QED
    BY <2>1 DEF Scopes
<1>9. Undecided'
  BY <1>1, <1>4, <1>8 DEF Undecided, Clones
<1>10. Clones'
  BY <1>1 DEF Clones
<1>11. Committing'
  BY <1>1, <1>3 DEF Committing
<1> QED
  BY <1>6, <1>7, <1>9, <1>10, <1>11, <1>12

Decided == {"committed", "rolledback"}
Results == {"ok", "dropped", "err", "aborted"}

(* The connections of a set of open scopes without clones return: what is   *)
(* closed is decided, the other transactions are as they were.              *)
LEMMA PoolCloses ==
  ASSUME Shape, NEW C \in SUBSET OpenTxns, free' = free + Cardinality(C),
         db' \in [Txns -> {"none", "open", "committed", "rolledback"}],
         \A x \in C : db'[x] \in Decided, \A x \in Txns \ C : db'[x] = db[x]
  PROVE  PoolConservation' /\ free' \in 0..PoolSize
<1>1. OpenTxns' = OpenTxns \ C
  BY DEF OpenTxns, Decided
<1> QED
  BY <1>1, PoolReturns DEF Shape, StateOK

(* A request leaves its innermost scope, with a result; the transaction is  *)
(* closed unless a clone is alive.                                          *)
LEMMA ShapeLeaves ==
  ASSUME Shape, NEW r \in Requests, stack[r] # << >>, NEW x, x = Last(stack[r]),
         doing' = [doing EXCEPT ![r] = "body"],
         stack' = [stack EXCEPT ![r] = Front(@)],
         NEW res \in Results, result' = [result EXCEPT ![x] = res],
         detached' = detached,
         \/ /\ detached[x] = 0
            /\ \E outcome \in Decided : db' = [db EXCEPT ![x] = outcome]
            /\ free' = free + 1
         \/ detached[x] > 0 /\ db' = db /\ free' = free
  PROVE  Shape'
<1> USE DEF Shape, StateOK
<1>1. stack[r] \in Seq(Txns)
  OBVIOUS
<1>2. /\ Len(stack[r]) \in Nat \ {0} /\ x = stack[r][Len(stack[r])] /\ x \in Txns
      /\ Front(stack[r]) \in Seq(Txns) /\ Len(Front(stack[r])) = Len(stack[r]) - 1
      /\ \A i \in 1..(Len(stack[r]) - 1) : Front(stack[r])[i] = stack[r][i]
  BY <1>1, Innermost
<1>3. stack'[r] = Front(stack[r]) /\ \A s \in Requests : s # r => stack'[s] = stack[s]
  OBVIOUS
<1>4. db[x] = "open" /\ result[x] = "none"
  BY <1>2, SMTT(30) DEF Undecided
<1>5. \A p \in Requests : \A i \in 1..Len(stack'[p]) :
        i \in 1..Len(stack[p]) /\ stack'[p][i] = stack[p][i] /\ stack[p][i] \in Txns /\ stack'[p][i] # x
  <2> TAKE p \in Requests
  <2>1. CASE p = r
    <3> SUFFICES ASSUME NEW i \in 1..Len(stack'[r])
                 PROVE  /\ i \in 1..Len(stack[r]) /\ stack'[r][i] = stack[r][i]
                        /\ stack[r][i] \in Txns /\ stack[r][i] # x
      BY <2>1
    <3>1. i \in 1..(Len(stack[r]) - 1) /\ i \in 1..Len(stack[r]) /\ Len(stack[r]) \in 1..Len(stack[r])
      BY <1>2, <1>3
    <3>2. stack[r][i] = stack[r][Len(stack[r])] => i = Len(stack[r])
      BY <3>1 DEF Scopes
    <3>3. stack[r][i] # x
      BY <1>2, <3>1, <3>2
    <3> QED
      BY <1>1, <1>2, <1>3, <3>1, <3>3
  <2>2. CASE p # r
    BY <1>2, <1>3, <2>2 DEF Scopes
  <2> QED
    BY <2>1, <2>2
<1>6. db' \in [Txns -> {"none", "open", "committed", "rolledback"}]
      /\ \A y \in Txns : y # x => db'[y] = db[y]
  BY <1>2 DEF Decided
<1>7. PoolConservation' /\ free' \in 0..PoolSize
  <2>1. CASE detached[x] = 0 /\ free' = free + 1 /\ db'[x] \in Decided
    <3>1. {x} \in SUBSET OpenTxns /\ Cardinality({x}) = 1
      BY <1>2, <1>4, FS_Singleton DEF OpenTxns
    <3> QED
      BY <1>6, <2>1, <3>1, PoolCloses
  <2>2. CASE db' = db /\ free' = free
    BY <2>2 DEF PoolConservation
  <2> QED
    BY <1>2, <2>1, <2>2
<1>8. StateOK'
  BY <1>2, <1>6, <1>7 DEF Results
<1>9. Scopes'
  BY <1>5 DEF Scopes
<1>10. Undecided'
  BY <1>5, <1>6 DEF Undecided
<1>11. Clones'
  <2> SUFFICES ASSUME NEW y \in Txns
               PROVE  /\ detached[y] > 0 => db'[y] = "open"
                      /\ db'[y] = "none" => result'[y] = "none"
    BY DEF Clones
  <2>1. CASE y = x
    BY <1>2, <1>4, <2>1 DEF Decided
  <2>2. CASE y # x
    BY <1>2, <1>6, <2>2 DEF Clones
  <2> QED
    BY <2>1, <2>2
<1>12. Committing'
  BY <1>3 DEF Committing
<1> QED
  BY <1>7, <1>8, <1>9, <1>10, <1>11, <1>12

(* A clone of the innermost scope goes to another task.                     *)
LEMMA ShapeDetach ==
  ASSUME Shape, NEW r \in Requests, Detach(r)
  PROVE  Shape'
<1> USE DEF Shape, StateOK
<1>1. stack[r] \in Seq(Txns) /\ stack[r] # << >> /\ doing[r] = "body"
  BY DEF Detach, InTransaction
<1> DEFINE x == Last(stack[r])
<1>2. Len(stack[r]) \in Nat \ {0} /\ x = stack[r][Len(stack[r])] /\ x \in Txns
  BY <1>1, Innermost
<1>3. /\ detached' = [detached EXCEPT ![x] = @ + 1] /\ detached[x] < MaxDetached
      /\ UNCHANGED <<doing, stack, db, free, result>>
  BY DEF Detach, Current
<1>4. db[x] = "open"
  BY <1>2 DEF Undecided
<1> HIDE DEF x
<1>5. StateOK'
  BY <1>2, <1>3, TransactionAssumption
<1>6. Scopes' /\ Undecided' /\ PoolConservation'
  BY <1>3 DEF Scopes, Undecided, PoolConservation
<1>7. Clones'
  BY <1>2, <1>3, <1>4 DEF Clones
<1>8. Committing'
  <2> SUFFICES ASSUME NEW s \in Requests, doing[s] = "commit"
               PROVE  stack[s] # << >> /\ detached'[Last(stack[s])] = 0
    BY <1>3 DEF Committing
  <2>1. s # r /\ stack[s] \in Seq(Txns) /\ stack[s] # << >> /\ detached[Last(stack[s])] = 0
    BY <1>1 DEF Committing
  <2>2. Last(stack[s]) = stack[s][Len(stack[s])] /\ Len(stack[s]) \in Nat \ {0} /\ Last(stack[s]) \in Txns
    BY <2>1, Innermost
  <2>3. Last(stack[s]) # x
    <3>1. Len(stack[s]) \in 1..Len(stack[s]) /\ Len(stack[r]) \in 1..Len(stack[r])
      BY <1>2, <2>2
    <3> QED
      BY <1>2, <2>1, <2>2, <3>1 DEF Scopes
  <2> QED
    BY <1>2, <1>3, <2>1, <2>2, <2>3
<1> QED
  BY <1>5, <1>6, <1>7, <1>8

(* A clone is gone; the last one of a scope that was left closes it.        *)
LEMMA ShapeDropDetached ==
  ASSUME Shape, NEW x \in Txns, DropDetached(x)
  PROVE  Shape'
<1> USE DEF Shape, StateOK
<1>1. /\ detached[x] > 0 /\ detached' = [detached EXCEPT ![x] = @ - 1]
      /\ UNCHANGED <<doing, stack, result>>
  BY DEF DropDetached
<1>2. db[x] = "open"
  BY <1>1 DEF Clones
<1>3. \/ /\ detached[x] = 1 /\ result[x] # "none"
         /\ db' = [db EXCEPT ![x] = "rolledback"] /\ free' = free + 1
      \/ ~ (detached[x] = 1 /\ result[x] # "none") /\ UNCHANGED <<db, free>>
  BY DEF DropDetached, CloseTxn
<1>4. PoolConservation' /\ free' \in 0..PoolSize /\ db' \in [Txns -> {"none", "open", "committed", "rolledback"}]
  <2>1. CASE UNCHANGED <<db, free>>
    BY <2>1 DEF PoolConservation
  <2>2. CASE db' = [db EXCEPT ![x] = "rolledback"] /\ free' = free + 1
    <3>1. {x} \in SUBSET OpenTxns /\ Cardinality({x}) = 1
      BY <1>2, FS_Singleton DEF OpenTxns
    <3> QED
      BY <2>2, <3>1, PoolCloses DEF Decided
  <2> QED
    BY <1>3, <2>1, <2>2
<1>5. StateOK'
  <2>1. detached' \in [Txns -> 0..MaxDetached]
    BY <1>1, TransactionAssumption
  <2> QED
    BY <1>1, <1>4, <2>1
<1>6. Undecided'
  BY <1>1, <1>3 DEF Undecided
<1>7. Clones'
  BY <1>1, <1>2, <1>3 DEF Clones
<1>8. Committing'
  <2> SUFFICES ASSUME NEW s \in Requests, doing[s] = "commit"
               PROVE  stack[s] # << >> /\ detached'[Last(stack[s])] = 0
    BY <1>1 DEF Committing
  <2>1. stack[s] \in Seq(Txns) /\ stack[s] # << >> /\ detached[Last(stack[s])] = 0
    BY DEF Committing
  <2>2. Last(stack[s]) \in Txns
    BY <2>1, Innermost
  <2> QED
    BY <1>1, <2>1, <2>2
<1>9. Scopes'
  BY <1>1 DEF Scopes
<1> QED
  BY <1>4, <1>5, <1>6, <1>7, <1>8, <1>9

(* Everything a request is in is left at once.                              *)
LEMMA ShapeAbort ==
  ASSUME Shape, NEW r \in Requests, Abort(r)
  PROVE  Shape'
<1> USE DEF Shape, StateOK
<1> DEFINE scopes == {stack[r][i] : i \in 1..Len(stack[r])}
           closed == {x \in scopes : detached[x] = 0}
<1>1. /\ doing' = [doing EXCEPT ![r] = "done"] /\ stack' = [stack EXCEPT ![r] = << >>]
      /\ free' = free + Cardinality(closed) /\ detached' = detached
      /\ result' = [x \in Txns |-> IF x \in scopes THEN "aborted" ELSE result[x]]
      /\ \E last \in Decided :
            db' = [x \in Txns |-> IF x \notin closed THEN db[x]
                                  ELSE IF x = Current(r) THEN last ELSE "rolledback"]
  BY DEF Abort, Decided
<1>2. stack[r] \in Seq(Txns) /\ stack'[r] = << >> /\ \A s \in Requests : s # r => stack'[s] = stack[s]
  BY <1>1
<1>3. \A x \in scopes : x \in Txns /\ db[x] = "open" /\ result[x] = "none"
  BY <1>2 DEF Undecided
<1>4. closed \in SUBSET OpenTxns
  BY <1>3 DEF OpenTxns
<1>5. /\ db' \in [Txns -> {"none", "open", "committed", "rolledback"}]
      /\ \A x \in closed : db'[x] \in Decided
      /\ \A x \in Txns \ closed : db'[x] = db[x]
  BY <1>1, <1>3 DEF Decided
<1>6. PoolConservation' /\ free' \in 0..PoolSize
  BY <1>1, <1>4, <1>5, PoolCloses
<1>7. StateOK'
  BY <1>1, <1>5, <1>6
<1>8. \A p \in Requests : \A i \in 1..Len(stack'[p]) :
        p # r /\ i \in 1..Len(stack[p]) /\ stack'[p][i] = stack[p][i] /\ stack[p][i] \in Txns /\ stack'[p][i] \notin scopes
  BY <1>2 DEF Scopes
<1>9. Scopes'
  BY <1>8 DEF Scopes
<1>10. Undecided'
  BY <1>1, <1>5, <1>8 DEF Undecided
<1>11. Clones'
  BY <1>1, <1>3, <1>5 DEF Clones, Decided
<1>12. Committing'
  BY <1>1, <1>2 DEF Committing
<1> QED
  BY <1>6, <1>7, <1>9, <1>10, <1>11, <1>12

(* Every step keeps scopes, transactions and pool in agreement.             *)
LEMMA ShapeNext ==
  ASSUME Shape, [TxnNext]_txnVars
  PROVE  Shape'
<1>1. ASSUME NEW r \in Requests, AskBegin(r)
      PROVE  Shape'
  BY <1>1, ShapeStays DEF AskBegin
<1>2. ASSUME NEW r \in Requests, BeginFails(r)
      PROVE  Shape'
  BY <1>2, ShapeStays DEF BeginFails
<1>3. ASSUME NEW r \in Requests, Finish(r)
      PROVE  Shape'
  BY <1>3, ShapeStays DEF Finish
<1>4. ASSUME NEW r \in Requests, StartCommit(r)
      PROVE  Shape'
  BY <1>4, ShapeStays DEF StartCommit, InTransaction, Current
<1>5. ASSUME NEW r \in Requests, Committed(r)
      PROVE  Shape'
  <2>1. stack[r] # << >> /\ detached[Current(r)] = 0
    BY <1>5 DEF Shape, Committing, Committed, Current
  <2>2. \E res \in Results : result' = [result EXCEPT ![Current(r)] = res]
    BY <1>5 DEF Committed, ReturnOk, Return, Results
  <2>3. /\ doing' = [doing EXCEPT ![r] = "body"] /\ stack' = [stack EXCEPT ![r] = Front(@)]
        /\ detached' = detached /\ free' = free + 1
        /\ \E outcome \in Decided : db' = [db EXCEPT ![Current(r)] = outcome]
    BY <1>5 DEF Committed, LeaveScope, CloseTxn, Decided
  <2> QED
    BY <2>1, <2>2, <2>3, ShapeLeaves DEF Current
<1>6. ASSUME NEW r \in Requests, CommitFails(r)
      PROVE  Shape'
  <2>1. stack[r] # << >> /\ detached[Current(r)] = 0
    BY <1>6 DEF Shape, Committing, CommitFails, Current
  <2>2. \E res \in Results : result' = [result EXCEPT ![Current(r)] = res]
    BY <1>6 DEF CommitFails, Return, Results
  <2>3. /\ doing' = [doing EXCEPT ![r] = "body"] /\ stack' = [stack EXCEPT ![r] = Front(@)]
        /\ detached' = detached /\ free' = free + 1
        /\ \E outcome \in Decided : db' = [db EXCEPT ![Current(r)] = outcome]
    BY <1>6 DEF CommitFails, LeaveScope, CloseTxn, Decided
  <2> QED
    BY <2>1, <2>2, <2>3, ShapeLeaves DEF Current
<1>7. ASSUME NEW r \in Requests, ReturnUncommitted(r)
      PROVE  Shape'
  <2>1. stack[r] # << >> /\ detached[Current(r)] > 0
    BY <1>7 DEF ReturnUncommitted, InTransaction
  <2>2. \E res \in Results : result' = [result EXCEPT ![Current(r)] = res]
    BY <1>7 DEF ReturnUncommitted, ReturnOk, Return, Results
  <2>3. /\ doing' = [doing EXCEPT ![r] = "body"] /\ stack' = [stack EXCEPT ![r] = Front(@)]
        /\ detached' = detached /\ free' = free /\ db' = db
    BY <1>7 DEF ReturnUncommitted, LeaveScope, Shape, StateOK
  <2> QED
    BY <2>1, <2>2, <2>3, ShapeLeaves DEF Current
<1>8. ASSUME NEW r \in Requests, ReturnErr(r)
      PROVE  Shape'
  <2>1. stack[r] # << >> /\ "err" \in Results
    BY <1>8 DEF ReturnErr, InTransaction, Results
  <2>2. result' = [result EXCEPT ![Current(r)] = "err"]
    BY <1>8 DEF ReturnErr, Return
  <2>3. /\ doing' = [doing EXCEPT ![r] = "body"] /\ stack' = [stack EXCEPT ![r] = Front(@)]
        /\ detached' = detached
    BY <1>8 DEF ReturnErr, LeaveScope, Shape, StateOK
  <2>4. stack[r] \in Seq(Txns) /\ Current(r) \in Txns
    BY <2>1, Innermost DEF Shape, StateOK, Current
  <2>5. \/ /\ detached[Current(r)] = 0
           /\ \E outcome \in Decided : db' = [db EXCEPT ![Current(r)] = outcome]
           /\ free' = free + 1
        \/ detached[Current(r)] > 0 /\ db' = db /\ free' = free
    BY <1>8, <2>4, TransactionAssumption DEF ReturnErr, CloseTxn, Decided, Shape, StateOK
  <2> QED
    BY <2>1, <2>2, <2>3, <2>5, ShapeLeaves DEF Current
<1>9. ASSUME NEW r \in Requests, NEW kind \in {"event", "job"}, Stage(r, kind)
      PROVE  Shape'
  <2>1. UNCHANGED <<doing, stack, db, free, detached, result>>
    BY <1>9 DEF Stage
  <2> QED
    BY <2>1 DEF Shape, StateOK, Scopes, Undecided, Clones, Committing, PoolConservation
<1>10. ASSUME NEW x \in Txns, FlushJob(x)
       PROVE  Shape'
  <2>1. UNCHANGED <<doing, stack, db, free, detached, result>>
    BY <1>10 DEF FlushJob
  <2> QED
    BY <2>1 DEF Shape, StateOK, Scopes, Undecided, Clones, Committing, PoolConservation
<1>12. ASSUME ServerExit
       PROVE  Shape'
  <2>1. UNCHANGED <<doing, stack, db, free, detached, result>>
    BY <1>12 DEF ServerExit
  <2> QED
    BY <2>1 DEF Shape, StateOK, Scopes, Undecided, Clones, Committing, PoolConservation
<1>11. CASE UNCHANGED txnVars
  BY <1>11 DEF txnVars, Shape, StateOK, Scopes, Undecided, Clones, Committing, PoolConservation
<1> QED
  BY <1>1, <1>2, <1>3, <1>4, <1>5, <1>6, <1>7, <1>8, <1>9, <1>10, <1>11, <1>12,
     ShapeBegin, ShapeDetach, ShapeDropDetached, ShapeAbort
     DEF TxnNext, RequestStep, Acquired, BodyEnds, Commit

-----------------------------------------------------------------------------
(* Sequences of effects                                                     *)

(* What a concatenation holds, and when it is in order.                     *)
LEMMA Concat ==
  ASSUME NEW s \in Seq(Effects), NEW t \in Seq(Effects), NEW x
  PROVE  /\ s \o t \in Seq(Effects)
         /\ ToSet(s \o t) = ToSet(s) \cup ToSet(t)
         /\ From(x, s \o t) = From(x, s) \cup From(x, t)
         /\ InOrder(x, s \o t) <=>
               /\ InOrder(x, s) /\ InOrder(x, t)
               /\ \A d \in From(x, s), e \in From(x, t) : d.n < e.n
<1> DEFINE u == s \o t
<1>1. /\ u \in Seq(Effects) /\ Len(s) \in Nat /\ Len(t) \in Nat /\ Len(u) = Len(s) + Len(t)
      /\ \A i \in 1..Len(s) : i \in 1..Len(u) /\ u[i] = s[i]
      /\ \A j \in 1..Len(t) : Len(s) + j \in 1..Len(u) /\ u[Len(s) + j] = t[j]
      /\ DOMAIN s = 1..Len(s) /\ DOMAIN t = 1..Len(t) /\ DOMAIN u = 1..Len(u)
  OBVIOUS
<1>2. \A i \in 1..Len(u) : i \in 1..Len(s) \/ (i - Len(s) \in 1..Len(t) /\ i = Len(s) + (i - Len(s)))
  BY <1>1
<1> HIDE DEF u
<1>3. ToSet(u) = ToSet(s) \cup ToSet(t)
  <2>1. \A i \in 1..Len(u) : u[i] \in ToSet(s) \cup ToSet(t)
    BY <1>1, <1>2 DEF ToSet
  <2>2. \A i \in 1..Len(s) : s[i] \in ToSet(u)
    BY <1>1 DEF ToSet
  <2>3. \A i \in 1..Len(t) : t[i] \in ToSet(u)
    BY <1>1 DEF ToSet
  <2> QED
    BY <1>1, <2>1, <2>2, <2>3 DEF ToSet
<1>4. From(x, u) = From(x, s) \cup From(x, t)
  BY <1>3 DEF From
<1>5. ASSUME InOrder(x, u)
      PROVE  /\ InOrder(x, s) /\ InOrder(x, t)
             /\ \A d \in From(x, s), e \in From(x, t) : d.n < e.n
  <2>1. InOrder(x, s)
    BY <1>1, <1>5 DEF InOrder
  <2>2. InOrder(x, t)
    <3> SUFFICES ASSUME NEW i \in 1..Len(t), NEW j \in 1..Len(t), i < j, t[i].txn = x, t[j].txn = x
                 PROVE  t[i].n < t[j].n
      BY DEF InOrder
    <3>1. Len(s) + i < Len(s) + j
      BY <1>1
    <3> QED
      BY <1>1, <1>5, <3>1 DEF InOrder
  <2>3. ASSUME NEW d \in From(x, s), NEW e \in From(x, t)
        PROVE  d.n < e.n
    <3>1. PICK i \in 1..Len(s) : d = s[i] /\ s[i].txn = x
      BY <1>1 DEF From, ToSet
    <3>2. PICK j \in 1..Len(t) : e = t[j] /\ t[j].txn = x
      BY <1>1 DEF From, ToSet
    <3>3. i < Len(s) + j
      BY <1>1
    <3> QED
      BY <1>1, <1>5, <3>1, <3>2, <3>3 DEF InOrder
  <2> QED
    BY <2>1, <2>2, <2>3
<1>6. ASSUME InOrder(x, s), InOrder(x, t), \A d \in From(x, s), e \in From(x, t) : d.n < e.n
      PROVE  InOrder(x, u)
  <2> SUFFICES ASSUME NEW i \in 1..Len(u), NEW j \in 1..Len(u), i < j, u[i].txn = x, u[j].txn = x
               PROVE  u[i].n < u[j].n
    BY DEF InOrder
  <2>1. CASE i \in 1..Len(s) /\ j \in 1..Len(s)
    BY <1>1, <1>6, <2>1 DEF InOrder
  <2>2. CASE i \in 1..Len(s) /\ j \notin 1..Len(s)
    <3>1. u[i] \in From(x, s)
      BY <1>1, <2>2 DEF From, ToSet
    <3>2. u[j] \in From(x, t)
      BY <1>1, <1>2, <2>2 DEF From, ToSet
    <3> QED
      BY <1>6, <3>1, <3>2
  <2>3. CASE i \notin 1..Len(s)
    <3> DEFINE k == i - Len(s)
               l == j - Len(s)
    <3>1. k \in 1..Len(t) /\ l \in 1..Len(t) /\ k < l /\ i = Len(s) + k /\ j = Len(s) + l
      BY <1>1, <2>3
    <3>2. u[i] = t[k] /\ u[j] = t[l]
      BY <1>1, <3>1
    <3> HIDE DEF k, l
    <3> QED
      BY <1>6, <3>1, <3>2 DEF InOrder
  <2> QED
    BY <2>1, <2>2, <2>3
<1> QED
  BY <1>1, <1>3, <1>4, <1>5, <1>6 DEF u

(* One more effect at the end.                                              *)
LEMMA Push ==
  ASSUME NEW s \in Seq(Effects), NEW e \in Effects, NEW x
  PROVE  /\ Append(s, e) \in Seq(Effects)
         /\ ToSet(Append(s, e)) = ToSet(s) \cup {e}
         /\ From(x, Append(s, e)) = From(x, s) \cup {d \in {e} : d.txn = x}
         /\ InOrder(x, Append(s, e)) <=>
               InOrder(x, s) /\ (e.txn = x => \A d \in From(x, s) : d.n < e.n)
<1>1. <<e>> \in Seq(Effects) /\ Append(s, e) = s \o <<e>> /\ ToSet(<<e>>) = {e} /\ InOrder(x, <<e>>)
  BY DEF ToSet, InOrder
<1>2. From(x, <<e>>) = {d \in {e} : d.txn = x}
  BY <1>1 DEF From
<1> DEFINE one == <<e>>
<1> HIDE DEF one
<1>3. /\ s \o one \in Seq(Effects)
      /\ ToSet(s \o one) = ToSet(s) \cup ToSet(one)
      /\ From(x, s \o one) = From(x, s) \cup From(x, one)
      /\ InOrder(x, s \o one) <=>
            /\ InOrder(x, s) /\ InOrder(x, one)
            /\ \A d \in From(x, s), f \in From(x, one) : d.n < f.n
  BY <1>1, Concat DEF one
<1>4. (\A d \in From(x, s), f \in From(x, one) : d.n < f.n)
        <=> (e.txn = x => \A d \in From(x, s) : d.n < e.n)
  BY <1>2 DEF one
<1> QED
  BY <1>1, <1>2, <1>3, <1>4 DEF one

(* A sequence without effects of x adds nothing to those of x, at either end. *)
LEMMA Quiet ==
  ASSUME NEW s \in Seq(Effects), NEW t \in Seq(Effects), NEW x, From(x, t) = {}
  PROVE  /\ From(x, s \o t) = From(x, s) /\ (InOrder(x, s \o t) <=> InOrder(x, s))
         /\ From(x, t \o s) = From(x, s) /\ (InOrder(x, t \o s) <=> InOrder(x, s))
<1>1. InOrder(x, t)
  <2>1. \A i \in 1..Len(t) : t[i] \in ToSet(t)
    BY DEF ToSet
  <2> QED
    BY <2>1 DEF From, InOrder
<1>2. From(x, s \o t) = From(x, s) /\ (InOrder(x, s \o t) <=> InOrder(x, s))
  <2>1. /\ From(x, s \o t) = From(x, s) \cup From(x, t)
        /\ InOrder(x, s \o t) <=> InOrder(x, s) /\ InOrder(x, t)
                                  /\ \A d \in From(x, s), e \in From(x, t) : d.n < e.n
    BY Concat
  <2> QED
    BY <1>1, <2>1
<1>3. From(x, t \o s) = From(x, s) /\ (InOrder(x, t \o s) <=> InOrder(x, s))
  <2>1. /\ From(x, t \o s) = From(x, t) \cup From(x, s)
        /\ InOrder(x, t \o s) <=> InOrder(x, t) /\ InOrder(x, s)
                                  /\ \A d \in From(x, t), e \in From(x, s) : d.n < e.n
    BY Concat
  <2> QED
    BY <1>1, <2>1
<1> QED
  BY <1>2, <1>3

-----------------------------------------------------------------------------
(* Effects                                                                  *)

(* Nothing is emitted before the first scope.                               *)
LEMMA EffectsInit == TxnInit => EffectsInv
<1> SUFFICES ASSUME TxnInit PROVE EffectsInv
  OBVIOUS
<1>1. BuffersOK
  BY DEF TxnInit, TxnStart, BuffersOK
<1>2. \A x : ToSet(<< >>) = {} /\ From(x, << >>) = {} /\ InOrder(x, << >>)
  BY DEF ToSet, From, InOrder
<1>3. \A x \in Txns : emitted[x] = << >>
  BY DEF TxnInit, TxnStart
<1>4. \A x \in Txns : \A kind : Emitted(x, kind) = {}
  BY <1>2, <1>3 DEF Emitted
<1>5. Numbered
  BY DEF TxnInit, TxnStart, Numbered
<1>6. HeldBack
  BY <1>2, <1>4 DEF TxnInit, TxnStart, HeldBack, LostOf
<1>7. Tagged
  BY <1>2 DEF TxnInit, TxnStart, Tagged
<1>8. FlushedOnce
  BY DEF TxnInit, TxnStart, FlushedOnce
<1> QED
  BY <1>1, <1>5, <1>6, <1>7, <1>8 DEF EffectsInv

(* Buffers depend on nothing but the effects in them and on the results.    *)
LEMMA EffectsStay ==
  ASSUME EffectsInv, UNCHANGED <<buffers, result>>
  PROVE  EffectsInv'
BY DEF EffectsInv, buffers, BuffersOK, Numbered, HeldBack, Tagged, FlushedOnce, From, Emitted, InOrder, LostOf

(* An effect that is emitted is an effect, where it is emitted.             *)
LEMMA EmitType ==
  ASSUME BuffersOK, NEW x \in Txns \cup {Outside}, NEW kind \in {"event", "job"},
         Emit(x, kind), flush' = flush, lost' = lost
  PROVE  BuffersOK'
<1> DEFINE e == Effect(x, kind, Len(emitted[x]) + 1)
<1>1. e \in Effects
  BY DEF Effect, Effects, BuffersOK
<1>2. emitted' = [emitted EXCEPT ![x] = Append(@, e)]
  BY DEF Emit
<1>3. emitted' \in [Txns \cup {Outside} -> Seq(Effects)]
  BY <1>1, <1>2 DEF BuffersOK
<1>4. CASE x # Outside /\ kind = "event"
  <2>1. x \in Txns /\ events' = [events EXCEPT ![x] = Append(@, e)] /\ UNCHANGED <<jobs, bus, jobQueue>>
    BY <1>4 DEF Emit
  <2> QED
    BY <1>1, <1>3, <2>1 DEF BuffersOK
<1>5. CASE x # Outside /\ kind = "job"
  <2>1. x \in Txns /\ jobs' = [jobs EXCEPT ![x] = Append(@, e)] /\ UNCHANGED <<events, bus, jobQueue>>
    BY <1>5 DEF Emit
  <2> QED
    BY <1>1, <1>3, <2>1 DEF BuffersOK
<1>6. CASE x = Outside /\ kind = "event"
  <2>1. bus' = Append(bus, e) /\ UNCHANGED <<events, jobs, jobQueue>>
    BY <1>6 DEF Emit
  <2> QED
    BY <1>1, <1>3, <2>1 DEF BuffersOK
<1>7. CASE x = Outside /\ kind = "job"
  <2>1. jobQueue' = Append(jobQueue, e) /\ UNCHANGED <<events, jobs, bus>>
    BY <1>7 DEF Emit
  <2> QED
    BY <1>1, <1>3, <2>1 DEF BuffersOK
<1> QED
  BY <1>4, <1>5, <1>6, <1>7

(* A scope keeps its part of the invariant when only effects of others are  *)
(* published and sent.                                                      *)
Delivered(x) ==
  /\ result[x] = "none" =>
       /\ ToSet(events[x]) = Emitted(x, "event") /\ InOrder(x, events[x])
       /\ ToSet(jobs[x]) = Emitted(x, "job") /\ InOrder(x, jobs[x])
       /\ From(x, bus) = {} /\ From(x, jobQueue) = {} /\ LostOf(x) = {}
  /\ flush[x] # << >> => result[x] = "ok"
  /\ \A e \in ToSet(flush[x]) : e.txn = x
  /\ result[x] = "ok" =>
       /\ From(x, bus) = Emitted(x, "event") /\ InOrder(x, bus)
       /\ From(x, jobQueue \o flush[x]) = Emitted(x, "job") \ lost
       /\ InOrder(x, jobQueue \o flush[x])
  /\ result[x] \in {"dropped", "err", "aborted"} => From(x, bus \o jobQueue) = {}

LEMMA Scopewise == EffectsInv <=> BuffersOK /\ Numbered /\ \A x \in Txns : Delivered(x)
BY DEF EffectsInv, HeldBack, Tagged, FlushedOnce, Delivered

LEMMA ScopewiseNext == EffectsInv' <=> BuffersOK' /\ Numbered' /\ \A x \in Txns : Delivered(x)'
BY DEF EffectsInv, HeldBack, Tagged, FlushedOnce, Delivered

LEMMA ScopeKept ==
  ASSUME BuffersOK, BuffersOK', NEW x \in Txns, Delivered(x),
         emitted'[x] = emitted[x], events'[x] = events[x], jobs'[x] = jobs[x],
         flush'[x] = flush[x], result'[x] = result[x],
         From(x, bus') = From(x, bus), InOrder(x, bus') <=> InOrder(x, bus),
         From(x, jobQueue') = From(x, jobQueue), InOrder(x, jobQueue') <=> InOrder(x, jobQueue),
         LostOf(x)' = LostOf(x), Emitted(x, "job") \ lost' = Emitted(x, "job") \ lost
  PROVE  Delivered(x)'
<1>1. /\ bus \in Seq(Effects) /\ jobQueue \in Seq(Effects) /\ flush[x] \in Seq(Effects)
      /\ bus' \in Seq(Effects) /\ jobQueue' \in Seq(Effects)
  BY DEF BuffersOK
<1>2. /\ From(x, jobQueue' \o flush[x]) = From(x, jobQueue \o flush[x])
      /\ InOrder(x, jobQueue' \o flush[x]) <=> InOrder(x, jobQueue \o flush[x])
      /\ From(x, bus' \o jobQueue') = From(x, bus \o jobQueue)
  <2>1. /\ From(x, jobQueue \o flush[x]) = From(x, jobQueue) \cup From(x, flush[x])
        /\ InOrder(x, jobQueue \o flush[x]) <=>
              /\ InOrder(x, jobQueue) /\ InOrder(x, flush[x])
              /\ \A d \in From(x, jobQueue), e \in From(x, flush[x]) : d.n < e.n
    BY <1>1, Concat
  <2>2. /\ From(x, jobQueue' \o flush[x]) = From(x, jobQueue') \cup From(x, flush[x])
        /\ InOrder(x, jobQueue' \o flush[x]) <=>
              /\ InOrder(x, jobQueue') /\ InOrder(x, flush[x])
              /\ \A d \in From(x, jobQueue'), e \in From(x, flush[x]) : d.n < e.n
    BY <1>1, Concat
  <2>3. From(x, bus \o jobQueue) = From(x, bus) \cup From(x, jobQueue)
    BY <1>1, Concat
  <2>4. From(x, bus' \o jobQueue') = From(x, bus') \cup From(x, jobQueue')
    BY <1>1, Concat
  <2> QED
    BY <2>1, <2>2, <2>3, <2>4
<1>3. Emitted(x, "event")' = Emitted(x, "event") /\ Emitted(x, "job")' = Emitted(x, "job")
  BY DEF Emitted
<1>4. /\ From(x, bus)' = From(x, bus') /\ From(x, jobQueue)' = From(x, jobQueue')
      /\ InOrder(x, bus)' <=> InOrder(x, bus')
      /\ From(x, jobQueue \o flush[x])' = From(x, jobQueue' \o flush[x])
      /\ InOrder(x, jobQueue \o flush[x])' <=> InOrder(x, jobQueue' \o flush[x])
      /\ From(x, bus \o jobQueue)' = From(x, bus' \o jobQueue')
      /\ InOrder(x, events[x])' <=> InOrder(x, events[x])
      /\ InOrder(x, jobs[x])' <=> InOrder(x, jobs[x])
  BY DEF From, InOrder
<1> QED
  BY <1>2, <1>3, <1>4 DEF Delivered

(* The body of an open scope emits.                                         *)
LEMMA EffectsStage ==
  ASSUME Shape, EffectsInv, NEW r \in Requests, NEW kind \in {"event", "job"}, Stage(r, kind)
  PROVE  EffectsInv'
<1>1. PICK x : x = IF InTransaction(r) THEN Current(r) ELSE Outside
  OBVIOUS
<1>2. PICK e : e = Effect(x, kind, Len(emitted[x]) + 1)
  OBVIOUS
<1>3. ((x \in Txns /\ result[x] = "none") \/ x = Outside) /\ x \in Txns \cup {Outside} /\ Outside \notin Txns
  <2>1. CASE InTransaction(r)
    <3>1. stack[r] \in Seq(Txns) /\ stack[r] # << >> /\ x = Last(stack[r])
      BY <1>1, <2>1 DEF Shape, StateOK, InTransaction, Current
    <3>2. Len(stack[r]) \in Nat \ {0} /\ Last(stack[r]) = stack[r][Len(stack[r])] /\ Last(stack[r]) \in Txns
      BY <3>1, Innermost
    <3> QED
      BY <3>1, <3>2, TransactionAssumption DEF Shape, Undecided
  <2>2. CASE ~ InTransaction(r)
    BY <1>1, <2>2, TransactionAssumption
  <2> QED
    BY <2>1, <2>2
<1>4. /\ Emit(x, kind) /\ flush' = flush /\ lost' = lost /\ result' = result
      /\ emitted' = [emitted EXCEPT ![x] = Append(@, e)]
  BY <1>1, <1>2 DEF Stage, Emit
<1>5. emitted[x] \in Seq(Effects) /\ Len(emitted[x]) \in Nat
  BY <1>3 DEF EffectsInv, BuffersOK
<1>6. e \in Effects /\ e.txn = x /\ e.kind = kind /\ e.n = Len(emitted[x]) + 1
  BY <1>2, <1>3, <1>5 DEF Effect, Effects
<1>8. BuffersOK'
  BY <1>3, <1>4, EmitType DEF EffectsInv
<1>9. Numbered'
  <2>1. /\ emitted'[x] = Append(emitted[x], e) /\ \A y \in Txns \cup {Outside} : y # x => emitted'[y] = emitted[y]
    BY <1>3, <1>4 DEF EffectsInv, BuffersOK
  <2>2. \A i \in 1..Len(emitted'[x]) : emitted'[x][i].txn = x /\ emitted'[x][i].n = i
    BY <1>3, <1>5, <1>6, <2>1 DEF EffectsInv, Numbered
  <2> QED
    BY <2>1, <2>2 DEF EffectsInv, Numbered
<1>10. /\ \A y \in Txns : y # x => /\ Emitted(y, "event")' = Emitted(y, "event")
                                    /\ Emitted(y, "job")' = Emitted(y, "job")
       /\ x \in Txns => ToSet(emitted'[x]) = ToSet(emitted[x]) \cup {e}
  <2>1. /\ emitted'[x] = Append(emitted[x], e) /\ \A y \in Txns : y # x => emitted'[y] = emitted[y]
    BY <1>3, <1>4 DEF EffectsInv, BuffersOK
  <2>2. ToSet(emitted'[x]) = ToSet(emitted[x]) \cup {e}
    BY <1>5, <1>6, <2>1, Push
  <2> QED
    BY <2>1, <2>2 DEF Emitted
<1>11. \A k : \A d \in Emitted(x, k) : d.txn = x /\ d.n < e.n
  <2> SUFFICES ASSUME NEW d \in ToSet(emitted[x])
               PROVE  d.txn = x /\ d.n < e.n
    BY DEF Emitted
  <2>1. PICK i \in 1..Len(emitted[x]) : d = emitted[x][i]
    BY <1>5 DEF ToSet
  <2> QED
    BY <1>3, <1>5, <1>6, <2>1 DEF EffectsInv, Numbered
<1>12. CASE x # Outside /\ kind = "event"
  <2>1. x \in Txns /\ result[x] = "none"
    BY <1>12, <1>3
  <2>2. events' = [events EXCEPT ![x] = Append(@, e)] /\ UNCHANGED <<jobs, bus, jobQueue>>
    BY <1>2, <1>4, <1>12 DEF Emit
  <2>3. events[x] \in Seq(Effects) /\ events'[x] = Append(events[x], e) /\ \A y \in Txns : y # x => events'[y] = events[y]
    BY <2>1, <2>2 DEF EffectsInv, BuffersOK
  <2>4. From(x, events[x]) = Emitted(x, "event") /\ ToSet(events[x]) = Emitted(x, "event") /\ InOrder(x, events[x])
    BY <1>11, <2>1 DEF EffectsInv, HeldBack, From
  <2>5. ToSet(events'[x]) = ToSet(events[x]) \cup {e} /\ InOrder(x, events'[x])
    BY <1>6, <1>11, <2>3, <2>4, Push
  <2>6. /\ Emitted(x, "event")' = Emitted(x, "event") \cup {e}
        /\ Emitted(x, "job")' = Emitted(x, "job")
    <3>1. ToSet(emitted'[x]) = ToSet(emitted[x]) \cup {e} /\ e.kind = "event"
      BY <1>6, <1>10, <1>12, <2>1
    <3>2. /\ Emitted(x, "event")' = {d \in ToSet(emitted'[x]) : d.kind = "event"}
          /\ Emitted(x, "job")' = {d \in ToSet(emitted'[x]) : d.kind = "job"}
      BY DEF Emitted
    <3> QED
      BY <3>1, <3>2 DEF Emitted
  <2>7. HeldBack'
    <3> SUFFICES ASSUME NEW y \in Txns, result[y] = "none"
                 PROVE  /\ ToSet(events'[y]) = Emitted(y, "event")' /\ InOrder(y, events'[y])
                        /\ ToSet(jobs'[y]) = Emitted(y, "job")' /\ InOrder(y, jobs'[y])
                        /\ From(y, bus) = {} /\ From(y, jobQueue) = {} /\ LostOf(y) = {}
      BY <1>4, <2>2 DEF HeldBack, From, InOrder, LostOf
    <3>1. CASE y = x
      BY <2>1, <2>2, <2>4, <2>5, <2>6, <3>1 DEF EffectsInv, HeldBack
    <3>2. CASE y # x
      BY <1>10, <2>2, <2>3, <3>2 DEF EffectsInv, HeldBack
    <3> QED
      BY <3>1, <3>2
  <2>8. Tagged'
    BY <1>4 DEF EffectsInv, Tagged
  <2>9. FlushedOnce'
    BY <1>4, <1>10, <2>1, <2>2, SMTT(30) DEF EffectsInv, FlushedOnce, From, InOrder
  <2> QED
    BY <1>8, <1>9, <2>7, <2>8, <2>9 DEF EffectsInv
<1>13. CASE x # Outside /\ kind = "job"
  <2>1. x \in Txns /\ result[x] = "none"
    BY <1>13, <1>3
  <2>2. jobs' = [jobs EXCEPT ![x] = Append(@, e)] /\ UNCHANGED <<events, bus, jobQueue>>
    BY <1>2, <1>4, <1>13 DEF Emit
  <2>3. jobs[x] \in Seq(Effects) /\ jobs'[x] = Append(jobs[x], e) /\ \A y \in Txns : y # x => jobs'[y] = jobs[y]
    BY <2>1, <2>2 DEF EffectsInv, BuffersOK
  <2>4. From(x, jobs[x]) = Emitted(x, "job") /\ ToSet(jobs[x]) = Emitted(x, "job") /\ InOrder(x, jobs[x])
    BY <1>11, <2>1 DEF EffectsInv, HeldBack, From
  <2>5. ToSet(jobs'[x]) = ToSet(jobs[x]) \cup {e} /\ InOrder(x, jobs'[x])
    BY <1>6, <1>11, <2>3, <2>4, Push
  <2>6. /\ Emitted(x, "job")' = Emitted(x, "job") \cup {e}
        /\ Emitted(x, "event")' = Emitted(x, "event")
    <3>1. ToSet(emitted'[x]) = ToSet(emitted[x]) \cup {e} /\ e.kind = "job"
      BY <1>6, <1>10, <1>13, <2>1
    <3>2. /\ Emitted(x, "job")' = {d \in ToSet(emitted'[x]) : d.kind = "job"}
          /\ Emitted(x, "event")' = {d \in ToSet(emitted'[x]) : d.kind = "event"}
      BY DEF Emitted
    <3> QED
      BY <3>1, <3>2 DEF Emitted
  <2>7. HeldBack'
    <3> SUFFICES ASSUME NEW y \in Txns, result[y] = "none"
                 PROVE  /\ ToSet(events'[y]) = Emitted(y, "event")' /\ InOrder(y, events'[y])
                        /\ ToSet(jobs'[y]) = Emitted(y, "job")' /\ InOrder(y, jobs'[y])
                        /\ From(y, bus) = {} /\ From(y, jobQueue) = {} /\ LostOf(y) = {}
      BY <1>4, <2>2 DEF HeldBack, From, InOrder, LostOf
    <3>1. CASE y = x
      BY <2>1, <2>2, <2>4, <2>5, <2>6, <3>1 DEF EffectsInv, HeldBack
    <3>2. CASE y # x
      BY <1>10, <2>2, <2>3, <3>2 DEF EffectsInv, HeldBack
    <3> QED
      BY <3>1, <3>2
  <2>8. Tagged'
    BY <1>4 DEF EffectsInv, Tagged
  <2>9. FlushedOnce'
    BY <1>4, <1>10, <2>1, <2>2, SMTT(30) DEF EffectsInv, FlushedOnce, From, InOrder
  <2> QED
    BY <1>8, <1>9, <2>7, <2>8, <2>9 DEF EffectsInv
<1>14. CASE x = Outside
  <2>1. \/ bus' = Append(bus, e) /\ UNCHANGED <<events, jobs, jobQueue>>
        \/ jobQueue' = Append(jobQueue, e) /\ UNCHANGED <<events, jobs, bus>>
    BY <1>2, <1>4, <1>14 DEF Emit
  <2>2. \A y \in Txns : Emitted(y, "event")' = Emitted(y, "event") /\ Emitted(y, "job")' = Emitted(y, "job")
    BY <1>3, <1>10, <1>14
  <2>3. \A y \in Txns : e.txn # y /\ emitted'[y] = emitted[y]
    BY <1>3, <1>4, <1>6, <1>14 DEF EffectsInv, BuffersOK
  <2>4. bus \in Seq(Effects) /\ jobQueue \in Seq(Effects) /\ BuffersOK
    BY DEF EffectsInv, BuffersOK
  <2>5. ASSUME NEW y \in Txns
        PROVE  Delivered(y)'
    <3>1. {d \in {e} : d.txn = y} = {} /\ e.txn # y
      BY <2>3
    <3>2. From(y, Append(bus, e)) = From(y, bus) /\ (InOrder(y, Append(bus, e)) <=> InOrder(y, bus))
      <4>1. /\ From(y, Append(bus, e)) = From(y, bus) \cup {d \in {e} : d.txn = y}
            /\ InOrder(y, Append(bus, e)) <=>
                  InOrder(y, bus) /\ (e.txn = y => \A d \in From(y, bus) : d.n < e.n)
        BY <1>6, <2>4, Push
      <4> QED
        BY <3>1, <4>1
    <3>3. From(y, Append(jobQueue, e)) = From(y, jobQueue) /\ (InOrder(y, Append(jobQueue, e)) <=> InOrder(y, jobQueue))
      <4>1. /\ From(y, Append(jobQueue, e)) = From(y, jobQueue) \cup {d \in {e} : d.txn = y}
            /\ InOrder(y, Append(jobQueue, e)) <=>
                  InOrder(y, jobQueue) /\ (e.txn = y => \A d \in From(y, jobQueue) : d.n < e.n)
        BY <1>6, <2>4, Push
      <4> QED
        BY <3>1, <4>1
    <3>4. /\ From(y, bus') = From(y, bus) /\ (InOrder(y, bus') <=> InOrder(y, bus))
          /\ From(y, jobQueue') = From(y, jobQueue) /\ (InOrder(y, jobQueue') <=> InOrder(y, jobQueue))
      BY <2>1, <3>2, <3>3
    <3>5. events' = events /\ jobs' = jobs
      BY <2>1
    <3>6. Delivered(y)
      BY Scopewise
    <3>7. LostOf(y)' = LostOf(y) /\ Emitted(y, "job") \ lost' = Emitted(y, "job") \ lost
      BY <1>4 DEF LostOf
    <3> QED
      BY <1>4, <1>8, <2>3, <2>4, <3>4, <3>5, <3>6, <3>7, ScopeKept
  <2> QED
    BY <1>8, <1>9, <2>5, ScopewiseNext
<1> QED
  BY <1>12, <1>13, <1>14

(* A scope is left with Ok: its events are published and its jobs are on    *)
(* their way, unless the request has no bus and no queue.                   *)
LEMMA EffectsFlush ==
  ASSUME Shape, EffectsInv, NEW r \in Requests, stack[r] # << >>,
         Flush(r, Current(r)), ReturnOk(r, Current(r))
  PROVE  EffectsInv'
<1>1. PICK x : x = Current(r)
  OBVIOUS
<1>2. x \in Txns /\ result[x] = "none"
  <2>1. stack[r] \in Seq(Txns)
    BY DEF Shape, StateOK
  <2>2. Len(stack[r]) \in Nat \ {0} /\ Last(stack[r]) = stack[r][Len(stack[r])] /\ Last(stack[r]) \in Txns
    BY <2>1, Innermost
  <2> QED
    BY <1>1, <2>2 DEF Current, Shape, Undecided
<1>3. /\ bus' = IF r \in Scoped THEN bus \o events[x] ELSE bus
      /\ flush' = IF r \in Scoped THEN [flush EXCEPT ![x] = jobs[x]] ELSE flush
      /\ events' = [events EXCEPT ![x] = << >>] /\ jobs' = [jobs EXCEPT ![x] = << >>]
      /\ jobQueue' = jobQueue /\ lost' = lost /\ emitted' = emitted
      /\ result' = [result EXCEPT ![x] = IF r \in Scoped THEN "ok" ELSE "dropped"]
  BY <1>1 DEF Flush, DropBuffers, ReturnOk, Return
<1>4. BuffersOK /\ Numbered /\ Delivered(x)
  BY <1>2, Scopewise
<1>5. /\ events[x] \in Seq(Effects) /\ jobs[x] \in Seq(Effects) /\ flush[x] \in Seq(Effects)
      /\ bus \in Seq(Effects) /\ jobQueue \in Seq(Effects)
  BY <1>2, <1>4 DEF BuffersOK
<1>6. bus \o events[x] \in Seq(Effects)
  BY <1>5
<1>7. BuffersOK'
  BY <1>2, <1>3, <1>4, <1>5, <1>6 DEF BuffersOK
<1>8. Numbered'
  BY <1>3, <1>4 DEF Numbered
<1>9. /\ ToSet(events[x]) = Emitted(x, "event") /\ InOrder(x, events[x])
      /\ ToSet(jobs[x]) = Emitted(x, "job") /\ InOrder(x, jobs[x])
      /\ From(x, bus) = {} /\ From(x, jobQueue) = {} /\ flush[x] = << >>
      /\ LostOf(x) = {}
  BY <1>2, <1>4 DEF Delivered
<1>10. \A d \in Emitted(x, "event") \cup Emitted(x, "job") : d.txn = x
  <2> SUFFICES ASSUME NEW d \in ToSet(emitted[x])
               PROVE  d.txn = x
    BY DEF Emitted
  <2>1. emitted[x] \in Seq(Effects)
    BY <1>2, <1>4 DEF BuffersOK
  <2>2. PICK i \in 1..Len(emitted[x]) : d = emitted[x][i]
    BY <2>1 DEF ToSet
  <2> QED
    BY <1>2, <1>4, <2>2 DEF Numbered
<1>11. From(x, events[x]) = Emitted(x, "event") /\ From(x, jobs[x]) = Emitted(x, "job")
  BY <1>9, <1>10 DEF From
<1>12. Emitted(x, "event")' = Emitted(x, "event") /\ Emitted(x, "job")' = Emitted(x, "job")
  BY <1>3 DEF Emitted
<1>13. Emitted(x, "job") \ lost = Emitted(x, "job")
  BY <1>9, <1>10 DEF LostOf
<1>15. Delivered(x)'
  <2>1. CASE r \in Scoped
    <3>1. result'[x] = "ok" /\ flush'[x] = jobs[x] /\ bus' = bus \o events[x]
      <4>1. result \in [Txns -> {"none", "ok", "dropped", "err", "aborted"}]
        BY DEF Shape, StateOK
      <4> QED
        BY <1>2, <1>3, <1>4, <2>1, <4>1 DEF BuffersOK
    <3>2. From(x, bus \o events[x]) = Emitted(x, "event") /\ InOrder(x, bus \o events[x])
      BY <1>5, <1>9, <1>11, Quiet
    <3>3. From(x, jobQueue \o jobs[x]) = Emitted(x, "job") /\ InOrder(x, jobQueue \o jobs[x])
      BY <1>5, <1>9, <1>11, Quiet
    <3>4. \A d \in ToSet(jobs[x]) : d.txn = x
      BY <1>9, <1>10
    <3>5. PICK f : f = jobs[x]
      OBVIOUS
    <3>6. flush'[x] = f /\ jobQueue' = jobQueue
      BY <1>3, <3>1, <3>5
    <3>7. From(x, bus)' = Emitted(x, "event")' /\ InOrder(x, bus)'
      BY <1>12, <3>1, <3>2 DEF From, InOrder
    <3>8. From(x, jobQueue \o flush[x])' = (Emitted(x, "job") \ lost)' /\ InOrder(x, jobQueue \o flush[x])'
      BY <1>3, <1>12, <1>13, <3>3, <3>5, <3>6 DEF From, InOrder
    <3>9. \A d \in ToSet(flush'[x]) : d.txn = x
      BY <3>1, <3>4
    <3> QED
      BY <3>1, <3>7, <3>8, <3>9 DEF Delivered
  <2>2. CASE r \notin Scoped
    <3>1. result'[x] = "dropped" /\ flush'[x] = << >> /\ bus' = bus /\ jobQueue' = jobQueue
      <4>1. result \in [Txns -> {"none", "ok", "dropped", "err", "aborted"}]
        BY DEF Shape, StateOK
      <4> QED
        BY <1>2, <1>3, <1>9, <2>2, <4>1
    <3>2. From(x, bus \o jobQueue) = {}
      BY <1>5, <1>9, Quiet
    <3>3. From(x, bus \o jobQueue)' = {} /\ ToSet(flush'[x]) = {}
      BY <3>1, <3>2 DEF From, ToSet
    <3> QED
      BY <3>1, <3>3 DEF Delivered
  <2> QED
    BY <2>1, <2>2
<1>16. ASSUME NEW y \in Txns, y # x
       PROVE  Delivered(y)'
  <2>1. \A d \in ToSet(events[x]) : d.txn # y
    BY <1>9, <1>10, <1>16
  <2>2. From(y, events[x]) = {}
    BY <2>1 DEF From
  <2>4. From(y, bus \o events[x]) = From(y, bus) /\ (InOrder(y, bus \o events[x]) <=> InOrder(y, bus))
    BY <1>5, <2>2, Quiet
  <2>5. From(y, bus') = From(y, bus) /\ (InOrder(y, bus') <=> InOrder(y, bus))
    BY <1>3, <2>4
  <2>6. /\ emitted'[y] = emitted[y] /\ events'[y] = events[y] /\ jobs'[y] = jobs[y]
        /\ flush'[y] = flush[y] /\ result'[y] = result[y]
    BY <1>3, <1>4, <1>16 DEF BuffersOK, Shape, StateOK
  <2>7. Delivered(y)
    BY Scopewise
  <2>8. LostOf(y)' = LostOf(y) /\ Emitted(y, "job") \ lost' = Emitted(y, "job") \ lost
    BY <1>3 DEF LostOf
  <2> QED
    BY <1>3, <1>4, <1>7, <2>5, <2>6, <2>7, <2>8, ScopeKept
<1> QED
  BY <1>7, <1>8, <1>15, <1>16, ScopewiseNext

(* Scopes are left without Ok: what they staged is discarded.               *)
LEMMA EffectsDiscard ==
  ASSUME EffectsInv, NEW L \in SUBSET Txns, NEW res \in {"err", "aborted"},
         \A x \in L : result[x] = "none",
         result' = [x \in Txns |-> IF x \in L THEN res ELSE result[x]],
         events' = [x \in Txns |-> IF x \in L THEN << >> ELSE events[x]],
         jobs' = [x \in Txns |-> IF x \in L THEN << >> ELSE jobs[x]],
         UNCHANGED <<flush, bus, jobQueue, lost, emitted>>
  PROVE  EffectsInv'
<1>1. BuffersOK'
  BY DEF EffectsInv, BuffersOK
<1>2. Numbered'
  BY DEF EffectsInv, Numbered
<1>3. ASSUME NEW x \in L
      PROVE  Delivered(x)'
  <2>1. Delivered(x) /\ result[x] = "none" /\ result'[x] = res /\ BuffersOK
    BY Scopewise
  <2>2. From(x, bus) = {} /\ From(x, jobQueue) = {} /\ flush[x] = << >>
    BY <2>1 DEF Delivered
  <2>3. From(x, bus \o jobQueue) = {}
    BY <2>1, <2>2, Quiet DEF BuffersOK
  <2>4. From(x, bus \o jobQueue)' = {} /\ ToSet(flush'[x]) = {} /\ flush'[x] = << >>
    BY <2>2, <2>3 DEF From, ToSet
  <2> QED
    BY <2>1, <2>4 DEF Delivered
<1>4. ASSUME NEW x \in Txns \ L
      PROVE  Delivered(x)'
  <2>1. Delivered(x) /\ BuffersOK
    BY Scopewise
  <2>2. events'[x] = events[x] /\ jobs'[x] = jobs[x] /\ result'[x] = result[x]
    BY <1>4
  <2>3. LostOf(x)' = LostOf(x) /\ Emitted(x, "job") \ lost' = Emitted(x, "job") \ lost
    BY DEF LostOf
  <2> QED
    BY <1>1, <2>1, <2>2, <2>3, ScopeKept
<1> QED
  BY <1>1, <1>2, <1>3, <1>4, ScopewiseNext

(* The next job of a scope's task, e, and those after it.                   *)
OnTheWay(x, e, rest) ==
  /\ e \in Effects /\ rest \in Seq(Effects) /\ flush[x] = <<e>> \o rest
  /\ e.txn = x /\ result[x] = "ok"
  /\ \A d \in ToSet(rest) : d.txn = x

LEMMA NextOnTheWay ==
  ASSUME BuffersOK, NEW x \in Txns, Delivered(x), flush[x] # << >>
  PROVE  OnTheWay(x, Head(flush[x]), Tail(flush[x]))
<1>1. flush[x] \in Seq(Effects)
  BY DEF BuffersOK
<1>2. PICK e : e = Head(flush[x])
  OBVIOUS
<1>3. PICK rest : rest = Tail(flush[x])
  OBVIOUS
<1>4. e \in Effects /\ rest \in Seq(Effects) /\ flush[x] = <<e>> \o rest
  BY <1>1, <1>2, <1>3
<1>5. e \in ToSet(flush[x]) /\ ToSet(rest) \subseteq ToSet(flush[x])
  <2>1. ToSet(<<e>>) = {e} /\ <<e>> \in Seq(Effects)
    BY <1>4 DEF ToSet
  <2>2. ToSet(<<e>> \o rest) = ToSet(<<e>>) \cup ToSet(rest)
    BY <1>4, <2>1, Concat
  <2> QED
    BY <1>4, <2>1, <2>2
<1>6. e.txn = x /\ result[x] = "ok" /\ \A d \in ToSet(rest) : d.txn = x
  BY <1>5 DEF Delivered
<1> QED
  BY <1>2, <1>3, <1>4, <1>6 DEF OnTheWay

(* The task of a scope that was left with Ok sends the next of its jobs.    *)
LEMMA EffectsSend ==
  ASSUME EffectsInv, NEW x \in Txns, flush[x] # << >>,
         flush' = [flush EXCEPT ![x] = Tail(@)],
         jobQueue' = Append(jobQueue, Head(flush[x])),
         UNCHANGED <<events, jobs, bus, lost, result, emitted>>
  PROVE  EffectsInv'
<1>1. BuffersOK /\ Numbered /\ Delivered(x)
  BY Scopewise
<1>2. flush[x] \in Seq(Effects) /\ jobQueue \in Seq(Effects)
  BY <1>1 DEF BuffersOK
<1>3. PICK e : e = Head(flush[x])
  OBVIOUS
<1>4. PICK rest : rest = Tail(flush[x])
  OBVIOUS
<1>5. /\ e \in Effects /\ rest \in Seq(Effects)
      /\ e.txn = x /\ result[x] = "ok" /\ \A d \in ToSet(rest) : d.txn = x
      /\ flush[x] = <<e>> \o rest
  <2>1. OnTheWay(x, e, rest)
    BY <1>1, <1>3, <1>4, NextOnTheWay
  <2> QED
    BY <2>1 DEF OnTheWay
<1>6. Append(jobQueue, e) \o rest = jobQueue \o flush[x]
  BY <1>2, <1>5
<1>8. flush'[x] = rest /\ jobQueue' = Append(jobQueue, e) /\ \A y \in Txns : y # x => flush'[y] = flush[y]
  BY <1>1, <1>3, <1>4 DEF BuffersOK
<1>9. BuffersOK'
  BY <1>1, <1>3, <1>4, <1>5 DEF BuffersOK
<1>10. Numbered'
  BY <1>1 DEF Numbered
<1>11. Delivered(x)'
  <2>2. /\ From(x, jobQueue \o flush[x])' = From(x, jobQueue \o flush[x])
        /\ InOrder(x, jobQueue \o flush[x])' <=> InOrder(x, jobQueue \o flush[x])
    BY <1>6, <1>8 DEF From, InOrder
  <2>3. /\ From(x, bus)' = From(x, bus) /\ (InOrder(x, bus)' <=> InOrder(x, bus))
        /\ Emitted(x, "event")' = Emitted(x, "event")
        /\ (Emitted(x, "job") \ lost)' = Emitted(x, "job") \ lost
        /\ result'[x] = "ok"
    BY <1>5 DEF From, InOrder, Emitted
  <2>4. \A d \in ToSet(flush'[x]) : d.txn = x
    BY <1>5, <1>8
  <2> QED
    BY <1>1, <1>5, <2>2, <2>3, <2>4 DEF Delivered
<1>12. ASSUME NEW y \in Txns, y # x
       PROVE  Delivered(y)'
  <2>1. {d \in {e} : d.txn = y} = {} /\ e.txn # y
    BY <1>5, <1>12
  <2>2. /\ From(y, Append(jobQueue, e)) = From(y, jobQueue) \cup {d \in {e} : d.txn = y}
        /\ InOrder(y, Append(jobQueue, e)) <=>
              InOrder(y, jobQueue) /\ (e.txn = y => \A d \in From(y, jobQueue) : d.n < e.n)
    BY <1>2, <1>5, Push
  <2>3. From(y, jobQueue') = From(y, jobQueue) /\ (InOrder(y, jobQueue') <=> InOrder(y, jobQueue))
    BY <1>8, <2>1, <2>2
  <2>4. flush'[y] = flush[y] /\ Delivered(y)
    BY <1>8, <1>12, Scopewise
  <2>5. LostOf(y)' = LostOf(y) /\ Emitted(y, "job") \ lost' = Emitted(y, "job") \ lost
    BY DEF LostOf
  <2> QED
    BY <1>1, <1>9, <2>3, <2>4, <2>5, ScopeKept
<1> QED
  BY <1>9, <1>10, <1>11, <1>12, ScopewiseNext

(* Jobs of scopes leave the way to the queue without getting there: what is *)
(* left of them keeps its order, and nothing lost was sent.                 *)
LEMMA EffectsLose ==
  ASSUME EffectsInv, NEW L, L \subseteq Effects, lost' = lost \cup L,
         flush' \in [Txns -> Seq(Effects)],
         \A x \in Txns :
           /\ From(x, flush'[x]) = From(x, flush[x]) \ L
           /\ ToSet(flush'[x]) \subseteq ToSet(flush[x])
           /\ InOrder(x, flush[x]) => InOrder(x, flush'[x])
           /\ \A e \in L : e.txn = x => e \in ToSet(flush[x]) /\ flush[x] # << >>
           /\ flush[x] = << >> => flush'[x] = << >>,
         UNCHANGED <<events, jobs, bus, jobQueue, result, emitted>>
  PROVE  EffectsInv'
<1>1. BuffersOK /\ Numbered /\ \A x \in Txns : Delivered(x)
  BY Scopewise
<1>2. BuffersOK'
  BY <1>1 DEF BuffersOK
<1>3. Numbered'
  BY <1>1 DEF Numbered
<1>4. ASSUME NEW x \in Txns
      PROVE  Delivered(x)'
  <2>1. /\ jobQueue \in Seq(Effects) /\ flush[x] \in Seq(Effects) /\ flush'[x] \in Seq(Effects)
        /\ Delivered(x)
    BY <1>1 DEF BuffersOK
  <2>2. /\ From(x, jobQueue \o flush[x]) = From(x, jobQueue) \cup From(x, flush[x])
        /\ InOrder(x, jobQueue \o flush[x]) <=>
              /\ InOrder(x, jobQueue) /\ InOrder(x, flush[x])
              /\ \A d \in From(x, jobQueue), e \in From(x, flush[x]) : d.n < e.n
    BY <2>1, Concat
  <2>3. /\ From(x, jobQueue \o flush'[x]) = From(x, jobQueue) \cup From(x, flush'[x])
        /\ InOrder(x, jobQueue \o flush'[x]) <=>
              /\ InOrder(x, jobQueue) /\ InOrder(x, flush'[x])
              /\ \A d \in From(x, jobQueue), e \in From(x, flush'[x]) : d.n < e.n
    BY <2>1, Concat
  <2>4. /\ From(x, bus)' = From(x, bus) /\ (InOrder(x, bus)' <=> InOrder(x, bus))
        /\ From(x, jobQueue)' = From(x, jobQueue) /\ From(x, bus \o jobQueue)' = From(x, bus \o jobQueue)
        /\ Emitted(x, "event")' = Emitted(x, "event") /\ Emitted(x, "job")' = Emitted(x, "job")
        /\ From(x, jobQueue \o flush[x])' = From(x, jobQueue \o flush'[x])
        /\ InOrder(x, jobQueue \o flush[x])' <=> InOrder(x, jobQueue \o flush'[x])
        /\ InOrder(x, events[x])' <=> InOrder(x, events[x])
        /\ InOrder(x, jobs[x])' <=> InOrder(x, jobs[x])
    BY DEF From, InOrder, Emitted
  <2>5. flush'[x] # << >> => result'[x] = "ok"
    BY <2>1 DEF Delivered
  <2>6. \A d \in ToSet(flush'[x]) : d.txn = x
    BY <2>1 DEF Delivered
  <2>7. CASE result[x] = "ok"
    <3>1. /\ From(x, bus) = Emitted(x, "event") /\ InOrder(x, bus)
          /\ From(x, jobQueue \o flush[x]) = Emitted(x, "job") \ lost
          /\ InOrder(x, jobQueue \o flush[x])
      BY <2>1, <2>7 DEF Delivered
    <3>2. \A e \in L : e.txn = x => e \in From(x, flush[x]) /\ e \in Effects
      BY DEF From
    <3>3. ASSUME NEW e \in L, e \in From(x, jobQueue)
          PROVE  FALSE
      <4>1. e \in From(x, flush[x]) /\ e.n \in Nat
        BY <3>2, <3>3 DEF From, Effects
      <4>2. e.n < e.n
        BY <2>2, <3>1, <3>3, <4>1
      <4> QED
        BY <4>1, <4>2
    <3>4. From(x, jobQueue \o flush'[x]) = Emitted(x, "job") \ lost'
      BY <2>2, <2>3, <3>1, <3>3
    <3>5. InOrder(x, jobQueue \o flush'[x])
      BY <2>2, <2>3, <3>1
    <3> QED
      BY <2>4, <2>5, <2>6, <2>7, <3>1, <3>4, <3>5 DEF Delivered
  <2>8. CASE result[x] # "ok"
    <3>1. flush[x] = << >>
      BY <2>1, <2>8 DEF Delivered
    <3>2. LostOf(x)' = LostOf(x)
      BY <3>1 DEF LostOf
    <3> QED
      BY <2>1, <2>4, <2>5, <2>6, <2>8, <3>2 DEF Delivered
  <2> QED
    BY <2>7, <2>8
<1> QED
  BY <1>2, <1>3, <1>4, ScopewiseNext

(* The queue refuses the next job: it is lost, and only it.                 *)
LEMMA EffectsRefused ==
  ASSUME EffectsInv, NEW x \in Txns, flush[x] # << >>,
         flush' = [flush EXCEPT ![x] = Tail(@)],
         lost' = lost \cup {Head(flush[x])},
         UNCHANGED <<events, jobs, bus, jobQueue, result, emitted>>
  PROVE  EffectsInv'
<1>1. BuffersOK /\ Delivered(x) /\ flush \in [Txns -> Seq(Effects)] /\ flush[x] \in Seq(Effects)
  BY Scopewise DEF BuffersOK
<1>2. PICK e : e = Head(flush[x])
  OBVIOUS
<1>3. PICK rest : rest = Tail(flush[x])
  OBVIOUS
<1>4. /\ e \in Effects /\ rest \in Seq(Effects) /\ flush[x] = <<e>> \o rest
      /\ e.txn = x /\ result[x] = "ok" /\ \A d \in ToSet(rest) : d.txn = x
  <2>1. OnTheWay(x, e, rest)
    BY <1>1, <1>2, <1>3, NextOnTheWay
  <2> QED
    BY <2>1 DEF OnTheWay
<1>5. /\ flush'[x] = rest /\ \A y \in Txns : y # x => flush'[y] = flush[y]
      /\ flush' \in [Txns -> Seq(Effects)]
  BY <1>1, <1>3, <1>4
<1>6. /\ ToSet(flush[x]) = {e} \cup ToSet(rest)
      /\ From(x, flush[x]) = {e} \cup From(x, rest)
      /\ InOrder(x, flush[x]) =>
            InOrder(x, rest) /\ \A d \in From(x, rest) : e.n < d.n
  <2>1. /\ ToSet(<<e>>) = {e} /\ <<e>> \in Seq(Effects) /\ From(x, <<e>>) = {e}
    BY <1>4 DEF ToSet, From
  <2>2. /\ ToSet(<<e>> \o rest) = ToSet(<<e>>) \cup ToSet(rest)
        /\ From(x, <<e>> \o rest) = From(x, <<e>>) \cup From(x, rest)
        /\ InOrder(x, <<e>> \o rest) <=>
              /\ InOrder(x, <<e>>) /\ InOrder(x, rest)
              /\ \A c \in From(x, <<e>>), d \in From(x, rest) : c.n < d.n
    BY <1>4, <2>1, Concat
  <2> QED
    BY <1>4, <2>1, <2>2
<1>7. InOrder(x, flush[x])
  <2>1. jobQueue \in Seq(Effects) /\ InOrder(x, jobQueue \o flush[x])
    BY <1>1, <1>4 DEF BuffersOK, Delivered
  <2> QED
    BY <1>1, <2>1, Concat
<1>8. e \notin From(x, rest)
  <2>1. e.n \in Nat
    BY <1>4 DEF Effects
  <2> QED
    BY <1>6, <1>7, <2>1
<1>9. ASSUME NEW y \in Txns
      PROVE  /\ From(y, flush'[y]) = From(y, flush[y]) \ {e}
             /\ ToSet(flush'[y]) \subseteq ToSet(flush[y])
             /\ InOrder(y, flush[y]) => InOrder(y, flush'[y])
             /\ \A d \in {e} : d.txn = y => d \in ToSet(flush[y]) /\ flush[y] # << >>
             /\ flush[y] = << >> => flush'[y] = << >>
  <2>1. CASE y = x
    BY <1>5, <1>6, <1>8, <2>1
  <2>2. CASE y # x
    <3>1. e \notin From(y, flush[y])
      BY <1>4, <2>2 DEF From
    <3> QED
      BY <1>4, <1>5, <2>2, <3>1
  <2> QED
    BY <2>1, <2>2
<1>10. {e} \subseteq Effects /\ lost' = lost \cup {e}
  BY <1>2, <1>4
<1> QED
  BY <1>5, <1>9, <1>10, EffectsLose

(* The server ends: what is on the way is lost, and nothing else.           *)
LEMMA EffectsExit ==
  ASSUME EffectsInv, ServerExit
  PROVE  EffectsInv'
<1>1. BuffersOK /\ flush \in [Txns -> Seq(Effects)] /\ \A x \in Txns : Delivered(x)
  BY Scopewise DEF BuffersOK
<1>2. PICK L : L = UNION {ToSet(flush[x]) : x \in Txns}
  OBVIOUS
<1>3. /\ lost' = lost \cup L /\ flush' = [x \in Txns |-> << >>]
      /\ UNCHANGED <<events, jobs, bus, jobQueue, result, emitted>>
  BY <1>2 DEF ServerExit
<1>4. \A x \in Txns : ToSet(flush[x]) \subseteq L
  BY <1>2
<1>5. \A e \in L : e \in Effects /\ \E x \in Txns : e \in ToSet(flush[x]) /\ e.txn = x
  <2> SUFFICES ASSUME NEW e \in L
               PROVE  e \in Effects /\ \E x \in Txns : e \in ToSet(flush[x]) /\ e.txn = x
    OBVIOUS
  <2>1. PICK x \in Txns : e \in ToSet(flush[x])
    BY <1>2
  <2>2. e.txn = x
    BY <1>1, <2>1 DEF Delivered
  <2>3. flush[x] \in Seq(Effects)
    BY <1>1
  <2>4. e \in Effects
    BY <2>1, <2>3 DEF ToSet
  <2> QED
    BY <2>1, <2>2, <2>4
<1>6. ToSet(<< >>) = {} /\ \A x : From(x, << >>) = {} /\ InOrder(x, << >>)
  BY DEF ToSet, From, InOrder
<1>7. ASSUME NEW y \in Txns
      PROVE  /\ From(y, flush'[y]) = From(y, flush[y]) \ L
             /\ ToSet(flush'[y]) \subseteq ToSet(flush[y])
             /\ InOrder(y, flush[y]) => InOrder(y, flush'[y])
             /\ \A d \in L : d.txn = y => d \in ToSet(flush[y]) /\ flush[y] # << >>
             /\ flush[y] = << >> => flush'[y] = << >>
  <2>1. flush'[y] = << >>
    BY <1>3
  <2>2. From(y, flush[y]) \subseteq L
    BY <1>4 DEF From
  <2>3. \A d \in L : d.txn = y => d \in ToSet(flush[y]) /\ flush[y] # << >>
    BY <1>5, <1>6
  <2> QED
    BY <1>6, <2>1, <2>2, <2>3
<1>8. L \subseteq Effects /\ flush' \in [Txns -> Seq(Effects)]
  BY <1>3, <1>5
<1> QED
  BY <1>3, <1>7, <1>8, EffectsLose

(* Every step keeps the buffers, the bus and the queue in agreement with    *)
(* what the scopes emitted and how they were left.                          *)
LEMMA EffectsNext == Shape /\ EffectsInv /\ [TxnNext]_txnVars => EffectsInv'
<1> SUFFICES ASSUME Shape, EffectsInv, [TxnNext]_txnVars
             PROVE  EffectsInv'
  OBVIOUS
<1>1. ASSUME NEW r \in Requests, stack[r] # << >>
      PROVE  /\ Current(r) \in Txns /\ result[Current(r)] = "none"
             /\ \A i \in 1..Len(stack[r]) : stack[r][i] \in Txns /\ result[stack[r][i]] = "none"
  <2>1. stack[r] \in Seq(Txns)
    BY DEF Shape, StateOK
  <2>2. Len(stack[r]) \in Nat \ {0} /\ Last(stack[r]) = stack[r][Len(stack[r])] /\ Last(stack[r]) \in Txns
    BY <1>1, <2>1, Innermost
  <2> QED
    BY <2>1, <2>2 DEF Current, Shape, Undecided
<1>2. ASSUME NEW r \in Requests, stack[r] # << >>,
             DropBuffers(Current(r)), Return(Current(r), "err"), UNCHANGED <<flush, bus, jobQueue, lost, emitted>>
      PROVE  EffectsInv'
  <2>1. PICK x : x = Current(r)
    OBVIOUS
  <2>2. x \in Txns /\ result[x] = "none"
    BY <1>1, <1>2, <2>1
  <2>3. /\ events' = [events EXCEPT ![x] = << >>] /\ jobs' = [jobs EXCEPT ![x] = << >>]
        /\ result' = [result EXCEPT ![x] = "err"]
    BY <1>2, <2>1 DEF DropBuffers, Return
  <2>4. /\ result' = [y \in Txns |-> IF y \in {x} THEN "err" ELSE result[y]]
        /\ events' = [y \in Txns |-> IF y \in {x} THEN << >> ELSE events[y]]
        /\ jobs' = [y \in Txns |-> IF y \in {x} THEN << >> ELSE jobs[y]]
    <3>1. DOMAIN events = Txns /\ DOMAIN jobs = Txns /\ DOMAIN result = Txns
      BY DEF EffectsInv, BuffersOK, Shape, StateOK
    <3> QED
      BY <2>3, <3>1
  <2>5. {x} \in SUBSET Txns /\ \A y \in {x} : result[y] = "none"
    BY <2>2
  <2> QED
    BY <1>2, <2>4, <2>5, EffectsDiscard
<1>3. ASSUME NEW r \in Requests, AskBegin(r) \/ Acquired(r) \/ Detach(r)
      PROVE  EffectsInv'
  BY <1>3, EffectsStay DEF AskBegin, Acquired, Begin, BeginFails, Detach
<1>4. ASSUME NEW r \in Requests, StartCommit(r) \/ Finish(r)
      PROVE  EffectsInv'
  BY <1>4, EffectsStay DEF StartCommit, Finish
<1>5. ASSUME NEW r \in Requests, ReturnUncommitted(r) \/ Committed(r)
      PROVE  EffectsInv'
  <2>1. stack[r] # << >> /\ Flush(r, Current(r)) /\ ReturnOk(r, Current(r))
    BY <1>5 DEF ReturnUncommitted, Committed, InTransaction, Shape, Committing
  <2> QED
    BY <2>1, EffectsFlush
<1>6. ASSUME NEW r \in Requests, ReturnErr(r) \/ CommitFails(r)
      PROVE  EffectsInv'
  <2>1. /\ stack[r] # << >> /\ DropBuffers(Current(r)) /\ Return(Current(r), "err")
        /\ UNCHANGED <<flush, bus, jobQueue, lost, emitted>>
    BY <1>6 DEF ReturnErr, CommitFails, InTransaction, Shape, Committing
  <2> QED
    BY <1>2, <2>1
<1>7. ASSUME NEW r \in Requests, Abort(r)
      PROVE  EffectsInv'
  <2>1. PICK L : L = {stack[r][i] : i \in 1..Len(stack[r])}
    OBVIOUS
  <2>2. L \in SUBSET Txns /\ \A x \in L : result[x] = "none"
    <3>1. stack[r] = << >> => L = {}
      BY <2>1
    <3> QED
      BY <1>1, <2>1, <3>1
  <2>3. /\ result' = [x \in Txns |-> IF x \in L THEN "aborted" ELSE result[x]]
        /\ events' = [x \in Txns |-> IF x \in L THEN << >> ELSE events[x]]
        /\ jobs' = [x \in Txns |-> IF x \in L THEN << >> ELSE jobs[x]]
        /\ UNCHANGED <<flush, bus, jobQueue, lost, emitted>>
    BY <1>7, <2>1 DEF Abort
  <2> QED
    BY <2>2, <2>3, EffectsDiscard
<1>8. ASSUME NEW r \in Requests, NEW kind \in {"event", "job"}, Stage(r, kind)
      PROVE  EffectsInv'
  BY <1>8, EffectsStage
<1>9. ASSUME NEW x \in Txns, DropDetached(x)
      PROVE  EffectsInv'
  BY <1>9, EffectsStay DEF DropDetached
<1>10. ASSUME NEW x \in Txns, FlushJob(x)
       PROVE  EffectsInv'
  <2>1. /\ flush[x] # << >> /\ flush' = [flush EXCEPT ![x] = Tail(@)]
        /\ UNCHANGED <<events, jobs, bus, result, emitted>>
        /\ \/ jobQueue' = Append(jobQueue, Head(flush[x])) /\ lost' = lost
           \/ lost' = lost \cup {Head(flush[x])} /\ jobQueue' = jobQueue
    BY <1>10 DEF FlushJob
  <2> QED
    BY <2>1, EffectsSend, EffectsRefused
<1>11. ASSUME UNCHANGED txnVars
       PROVE  EffectsInv'
  BY <1>11, EffectsStay DEF txnVars, buffers
<1>12. ASSUME ServerExit
       PROVE  EffectsInv'
  BY <1>12, EffectsExit
<1> QED
  BY <1>3, <1>4, <1>5, <1>6, <1>7, <1>8, <1>9, <1>10, <1>11, <1>12
     DEF TxnNext, RequestStep, BodyEnds, Commit

-----------------------------------------------------------------------------
(* Theorems                                                                 *)

(* The inductive invariant holds in every state of every behaviour.         *)
THEOREM Invariant == TxnSpec => []IInv
<1>1. TxnInit => IInv
  BY ShapeInit, EffectsInit DEF IInv
<1>2. IInv /\ [TxnNext]_txnVars => IInv'
  BY ShapeNext, EffectsNext DEF IInv
<1> QED
  BY <1>1, <1>2, PTL DEF TxnSpec

(* However scopes nest, end, fail, are cancelled or leave clones behind, a  *)
(* connection of the pool is idle or carries one open transaction: no way   *)
(* out of run_in_transaction leaks a connection or returns one twice.       *)
THEOREM PoolSound == TxnSpec => []PoolIsSound
<1>1. IInv => PoolIsSound
  BY DEF IInv, Shape, EffectsInv, StateOK, BuffersOK, PoolIsSound, TxnTypeOK
<1> QED
  BY <1>1, Invariant, PTL

(* What a scope staged is sent once and in order if it returned Ok to a     *)
(* request with a bus and a queue, and not at all if it did not.            *)
THEOREM FlushSound == TxnSpec => []FlushedOnce
<1>1. IInv => FlushedOnce
  BY DEF IInv, EffectsInv
<1> QED
  BY <1>1, Invariant, PTL

(* No step decides a decided transaction again.                             *)
LEMMA DecidedStays ==
  IInv /\ [TxnNext]_txnVars => \A x \in Txns : db[x] \in {"committed", "rolledback"} => db'[x] = db[x]
<1> SUFFICES ASSUME IInv, [TxnNext]_txnVars, NEW x \in Txns, db[x] \in {"committed", "rolledback"}
             PROVE  db'[x] = db[x]
  OBVIOUS
<1>1. /\ db \in [Txns -> {"none", "open", "committed", "rolledback"}]
      /\ \A r \in Requests : \A i \in 1..Len(stack[r]) : stack[r][i] # x
      /\ detached[x] \in 0..MaxDetached /\ ~ (detached[x] > 0)
  BY DEF IInv, Shape, StateOK, Undecided, Clones
<1>2. ASSUME NEW r \in Requests, stack[r] # << >>
      PROVE  Current(r) # x
  <2>1. stack[r] \in Seq(Txns)
    BY DEF IInv, Shape, StateOK
  <2>2. Len(stack[r]) \in Nat \ {0} /\ Last(stack[r]) = stack[r][Len(stack[r])]
    BY <1>2, <2>1, Innermost
  <2> QED
    BY <1>1, <2>2 DEF Current
<1>3. ASSUME NEW r \in Requests, Acquired(r)
      PROVE  db'[x] = db[x]
  BY <1>1, <1>3 DEF Acquired, Begin, BeginFails
<1>4. ASSUME NEW r \in Requests, AskBegin(r) \/ Detach(r) \/ StartCommit(r) \/ Finish(r) \/ ReturnUncommitted(r)
      PROVE  db'[x] = db[x]
  BY <1>4 DEF AskBegin, Detach, StartCommit, Finish, ReturnUncommitted
<1>5. ASSUME NEW r \in Requests, ReturnErr(r) \/ Commit(r)
      PROVE  db'[x] = db[x]
  <2>1. stack[r] # << >>
    BY <1>5 DEF ReturnErr, Commit, Committed, CommitFails, InTransaction, IInv, Shape, Committing
  <2>2. db' = db \/ \E outcome : db' = [db EXCEPT ![Current(r)] = outcome]
    BY <1>5 DEF ReturnErr, Commit, Committed, CommitFails, CloseTxn
  <2> QED
    BY <1>1, <1>2, <2>1, <2>2
<1>6. ASSUME NEW r \in Requests, Abort(r)
      PROVE  db'[x] = db[x]
  BY <1>1, <1>6 DEF Abort
<1>7. ASSUME NEW r \in Requests, NEW kind \in {"event", "job"}, Stage(r, kind)
      PROVE  db'[x] = db[x]
  BY <1>7 DEF Stage
<1>8. ASSUME NEW y \in Txns, DropDetached(y)
      PROVE  db'[x] = db[x]
  BY <1>1, <1>8 DEF DropDetached, CloseTxn
<1>9. ASSUME (\E y \in Txns : FlushJob(y)) \/ ServerExit
      PROVE  db'[x] = db[x]
  BY <1>9 DEF FlushJob, ServerExit
<1>10. ASSUME UNCHANGED txnVars
       PROVE  db'[x] = db[x]
  BY <1>10 DEF txnVars
<1> QED
  BY <1>3, <1>4, <1>5, <1>6, <1>7, <1>8, <1>9, <1>10 DEF TxnNext, RequestStep, BodyEnds

(* A transaction that committed or rolled back is never decided again: a    *)
(* clone dropped late, a cancelled request or a failed commit cannot undo it. *)
THEOREM Final == TxnSpec => DecisionIsFinal
<1>1. TxnSpec => [][\A x \in Txns : db[x] \in {"committed", "rolledback"} => db'[x] = db[x]]_txnVars
  BY DecidedStays, Invariant, PTL DEF TxnSpec
<1> QED
  BY <1>1 DEF DecisionIsFinal

(* What a scope that returned Ok to a request with a bus and a queue has    *)
(* done was committed, as long as no clone of the connection was handed on. *)
OkIsCommitted == \A x \in Txns : result[x] = "ok" => db[x] = "committed"

Undetached == \A x \in Txns : detached[x] = 0

LEMMA OkStaysCommitted == IInv /\ Undetached /\ OkIsCommitted /\ [TxnNext]_txnVars => OkIsCommitted'
<1> SUFFICES ASSUME IInv, Undetached, OkIsCommitted, [TxnNext]_txnVars,
                    NEW x \in Txns, result'[x] = "ok"
             PROVE  db'[x] = "committed"
  BY DEF OkIsCommitted
<1>1. CASE result[x] = "ok"
  BY <1>1, DecidedStays DEF OkIsCommitted
<1>2. CASE result[x] # "ok"
  <2>1. /\ result \in [Txns -> {"none", "ok", "dropped", "err", "aborted"}]
        /\ db \in [Txns -> {"none", "open", "committed", "rolledback"}]
        /\ \A y \in Txns : ~ (detached[y] > 0)
    BY DEF IInv, Shape, StateOK, Undetached
  <2>2. ASSUME NEW r \in Requests, stack[r] # << >>
        PROVE  Current(r) \in Txns
    <3>1. stack[r] \in Seq(Txns)
      BY DEF IInv, Shape, StateOK
    <3> QED
      BY <2>2, <3>1, Innermost DEF Current
  <2>3. ASSUME NEW r \in Requests, Committed(r)
        PROVE  db'[x] = "committed"
    <3>1. stack[r] # << >> /\ Current(r) \in Txns
      BY <2>2, <2>3 DEF Committed, IInv, Shape, Committing
    <3> QED
      BY <1>2, <2>1, <2>3, <3>1 DEF Committed, CloseTxn, ReturnOk, Return
  <2>4. ASSUME NEW r \in Requests, CommitFails(r) \/ ReturnErr(r)
        PROVE  FALSE
    BY <1>2, <2>1, <2>4 DEF CommitFails, ReturnErr, Return
  <2>5. ASSUME NEW r \in Requests, ReturnUncommitted(r)
        PROVE  FALSE
    BY <2>1, <2>2, <2>5 DEF ReturnUncommitted, InTransaction
  <2>6. ASSUME NEW r \in Requests, Abort(r)
        PROVE  FALSE
    BY <1>2, <2>6 DEF Abort
  <2>7. ASSUME NEW r \in Requests, AskBegin(r) \/ Acquired(r) \/ Detach(r) \/ StartCommit(r) \/ Finish(r)
        PROVE  FALSE
    BY <1>2, <2>7 DEF AskBegin, Acquired, Begin, BeginFails, Detach, StartCommit, Finish
  <2>8. ASSUME NEW r \in Requests, NEW kind \in {"event", "job"}, Stage(r, kind)
        PROVE  FALSE
    BY <1>2, <2>8 DEF Stage
  <2>9. ASSUME NEW y \in Txns, DropDetached(y) \/ FlushJob(y)
        PROVE  FALSE
    BY <1>2, <2>9 DEF DropDetached, FlushJob
  <2>10. ASSUME ServerExit \/ UNCHANGED txnVars
         PROVE  FALSE
    BY <1>2, <2>10 DEF ServerExit, txnVars
  <2> QED
    BY <2>3, <2>4, <2>5, <2>6, <2>7, <2>8, <2>9, <2>10 DEF TxnNext, RequestStep, BodyEnds, Commit
<1> QED
  BY <1>1, <1>2

(* What is on the bus or in the queue for a scope is of one that returned Ok. *)
LEMMA VisibleIsOk == IInv => \A e \in Visible : e.txn # Outside => e.txn \in Txns /\ result[e.txn] = "ok"
<1> SUFFICES ASSUME IInv, NEW e \in Visible, e.txn # Outside
             PROVE  e.txn \in Txns /\ result[e.txn] = "ok"
  OBVIOUS
<1>1. bus \in Seq(Effects) /\ jobQueue \in Seq(Effects)
  BY DEF IInv, EffectsInv, BuffersOK
<1>2. e \in Effects
  BY <1>1 DEF Visible, ToSet
<1>3. e.txn \in Txns
  BY <1>2 DEF Effects
<1>4. e \in From(e.txn, bus) \/ e \in From(e.txn, jobQueue)
  BY DEF Visible, From
<1>5. Delivered(e.txn)
  BY <1>3, Scopewise DEF IInv
<1>6. From(e.txn, bus \o jobQueue) # {}
  BY <1>1, <1>4, Concat
<1>7. result[e.txn] \in {"none", "ok", "dropped", "err", "aborted"}
  BY <1>3 DEF IInv, Shape, StateOK
<1> QED
  BY <1>3, <1>4, <1>5, <1>6, <1>7 DEF Delivered

(* What transaction.md:112 promises holds of every behaviour in which no    *)
(* body hands its connection to another task: what is on the bus or in the  *)
(* queue was emitted outside a scope or in one that is committed. The run   *)
(* MCTransactionDetached shows that the restriction is needed.              *)
THEOREM CommitFirst == TxnSpec /\ []Undetached => []OnlyAfterCommit
<1>1. TxnInit => OkIsCommitted
  BY DEF TxnInit, TxnStart, OkIsCommitted
<1>2. IInv /\ OkIsCommitted => OnlyAfterCommit
  BY VisibleIsOk DEF OkIsCommitted, OnlyAfterCommit
<1> QED
  BY <1>1, <1>2, OkStaysCommitted, Invariant, PTL DEF TxnSpec

-----------------------------------------------------------------------------
(* Lookups (Repository): every table, finder and wish, and any writes of      *)
(* other clients.                                                             *)

(* The rows of a table have an id each, which is theirs alone.                *)
Rows(S) ==
  /\ IsFiniteSet(S)
  /\ \A r \in S : r.id \in Int
  /\ \A r, t \in S : r.id = t.id => r = t
IsDb(base) == base = [owners |-> base.owners, things |-> base.things] /\ Rows(base.owners) /\ Rows(base.things)

IsQuery(q) ==
  /\ q = [any |-> q.any, filters |-> q.filters, order |-> q.order, limit |-> q.limit, offset |-> q.offset]
  /\ q.limit \in Nat \cup {NoLimit} /\ q.offset \in Nat
(* What asks for a single record asks by one condition (query_dsl.rs).        *)
IsFinder(f) == IsQuery(f.query) /\ (f.single => ~f.query.any)

(* Null is no number, and neither is a limit that is not set.                 *)
Distinguished == Null \notin Int /\ NoLimit \notin Int

(* The elements of a finite set in a sequence, each once.                     *)
LEMMA SeqsEach ==
  ASSUME NEW S, IsFiniteSet(S), NEW s \in SetToSeqs(S)
  PROVE  /\ s \in Seq(S) /\ Len(s) = Cardinality(S) /\ DOMAIN s = 1..Cardinality(S)
         /\ ToSet(s) = S
         /\ \A i, j \in DOMAIN s : s[i] = s[j] => i = j
<1> DEFINE n == Cardinality(S)
<1>1. n \in Nat BY FS_CardinalityType
<1>2. s \in [1..n -> S] /\ \A i, j \in 1..n : i # j => s[i] # s[j]
  BY DEF SetToSeqs
<1>3. s \in Seq(S) /\ Len(s) = n /\ DOMAIN s = 1..n
  BY <1>1, <1>2
<1>4. s \in Injection(1..n, S)
  BY <1>2 DEF Injection, IsInjective
<1>5. Cardinality(1..n) = n /\ IsFiniteSet(1..n)
  BY <1>1, FS_Interval
<1>6. s \in Surjection(1..n, S)
  BY <1>4, <1>5, FS_Injection
<1>7. ToSet(s) = S
  BY <1>6, <1>2 DEF Surjection, ToSet
<1> QED BY <1>2, <1>3, <1>7

LEMMA LeastOfTwo ==
  ASSUME NEW a \in Int, NEW b \in Int
  PROVE  Min({a, b}) = IF a <= b THEN a ELSE b
<1> DEFINE m == IF a <= b THEN a ELSE b
<1>1. m \in {a, b} /\ \A y \in {a, b} : m <= y
  OBVIOUS
<1>2. \A x \in {a, b} : (\A y \in {a, b} : x <= y) => x = m
  OBVIOUS
<1>3. Min({a, b}) \in {a, b} /\ \A y \in {a, b} : Min({a, b}) <= y
  BY <1>1 DEF Min
<1> QED BY <1>2, <1>3

(* A window of a sequence.                                                    *)
LEMMA SliceOf ==
  ASSUME NEW S, NEW s \in Seq(S), NEW limit \in Nat \cup {NoLimit}, NEW offset \in Nat, Distinguished
  PROVE  /\ Slice(s, limit, offset) \in Seq(S)
         /\ \A i \in DOMAIN Slice(s, limit, offset) :
              offset + i \in DOMAIN s /\ Slice(s, limit, offset)[i] = s[offset + i]
         /\ Len(Slice(s, limit, offset)) =
              IF Len(s) <= offset THEN 0
              ELSE IF limit # NoLimit /\ offset + limit <= Len(s) THEN limit ELSE Len(s) - offset
<1> DEFINE to == IF limit = NoLimit THEN Len(s) ELSE IF Len(s) <= offset + limit THEN Len(s) ELSE offset + limit
<1>1. Slice(s, limit, offset) = SubSeq(s, offset + 1, to)
  <2>1. CASE limit = NoLimit BY <2>1 DEF Slice
  <2>2. CASE limit # NoLimit
    <3>1. limit \in Nat BY <2>2
    <3>2. Min({Len(s), offset + limit}) = to BY <2>2, <3>1, LeastOfTwo
    <3> QED BY <2>2, <3>2 DEF Slice
  <2> QED BY <2>1, <2>2
<1>2. to \in Nat /\ to <= Len(s)
  BY DEF Distinguished
<1>3. Len(s) \in Nat /\ DOMAIN s = 1..Len(s)
  OBVIOUS
<1>4. to = IF limit # NoLimit /\ offset + limit <= Len(s) THEN offset + limit ELSE Len(s)
  BY DEF Distinguished
<1> HIDE DEF to
<1>5. /\ SubSeq(s, offset + 1, to) \in Seq(S)
      /\ Len(SubSeq(s, offset + 1, to)) = IF offset + 1 <= to THEN to - offset ELSE 0
      /\ \A i \in 1..(to - offset) : SubSeq(s, offset + 1, to)[i] = s[offset + i]
  BY <1>2, <1>3
<1>6. \A i \in DOMAIN SubSeq(s, offset + 1, to) : i \in 1..(to - offset) /\ offset + i \in DOMAIN s
  BY <1>2, <1>3, <1>5
<1>7. Len(SubSeq(s, offset + 1, to)) =
        IF Len(s) <= offset THEN 0
        ELSE IF limit # NoLimit /\ offset + limit <= Len(s) THEN limit ELSE Len(s) - offset
  <2>1. CASE limit = NoLimit BY <2>1, <1>3, <1>4, <1>5
  <2>2. CASE limit # NoLimit
    <3>1. limit \in Nat BY <2>2
    <3> QED BY <2>2, <3>1, <1>2, <1>3, <1>4, <1>5
  <2> QED BY <2>1, <2>2
<1> QED BY <1>1, <1>5, <1>6, <1>7

(* No window.                                                                 *)
LEMMA SliceWhole ==
  ASSUME NEW S, NEW s \in Seq(S), Distinguished
  PROVE  Slice(s, NoLimit, 0) = s
BY DEF Slice

-----------------------------------------------------------------------------
(* Joins                                                                      *)

LEMMA MatchingRows ==
  ASSUME NEW q, NEW S, Rows(S)
  PROVE  Rows(Matching(q, S)) /\ Matching(q, S) \subseteq S
<1>1. Matching(q, S) \subseteq S BY DEF Matching
<1>2. IsFiniteSet(Matching(q, S)) BY <1>1, FS_Subset DEF Rows
<1> QED BY <1>1, <1>2 DEF Rows

(* The rows of a join.                                                        *)
JoinedRows(q) == UNION {RowsOf(row) : row \in Matching(q, Owners)}

LEMMA JoinedRowsFinite ==
  ASSUME NEW q, IsDb(lookup.db)
  PROVE  IsFiniteSet(JoinedRows(q))
<1>1. IsFiniteSet(Owners) /\ IsFiniteSet(Things) BY DEF IsDb, Rows, Owners, Things
<1>2. IsFiniteSet(SUBSET Things) BY <1>1, FS_SUBSET
<1>3. IsFiniteSet(Owners \X SUBSET Things) BY <1>1, <1>2, FS_Product
<1>4. JoinedRows(q) \subseteq Owners \X SUBSET Things
  BY DEF JoinedRows, RowsOf, ThingsOf, Matching
<1> QED BY <1>3, <1>4, FS_Subset

LEMMA JoinedRowsAre ==
  ASSUME NEW q
  PROVE  /\ \A p \in JoinedRows(q) : p[1] \in Matching(q, Owners) /\ p[2] \subseteq ThingsOf(p[1].id)
         /\ \A r \in Matching(q, Owners) : \A t \in ThingsOf(r.id) : <<r, {t}>> \in JoinedRows(q)
         /\ \A r \in Matching(q, Owners) : \E p \in JoinedRows(q) : p[1] = r
<1>1. \A r : \A p \in RowsOf(r) : p[1] = r /\ p[2] \subseteq ThingsOf(r.id)
  BY DEF RowsOf
<1>2. \A r : \A t \in ThingsOf(r.id) : <<r, {t}>> \in RowsOf(r)
  BY DEF RowsOf
<1>3. \A r : \E p \in RowsOf(r) : p[1] = r
  <2> TAKE r
  <2>1. CASE ThingsOf(r.id) = {}
    BY <2>1 DEF RowsOf
  <2>2. CASE ThingsOf(r.id) # {}
    <3>1. PICK t \in ThingsOf(r.id) : TRUE BY <2>2
    <3>2. <<r, {t}>> \in RowsOf(r) BY <3>1, <1>2
    <3> QED BY <3>2
  <2> QED BY <2>1, <2>2
<1>4. \A p : p \in JoinedRows(q) <=> \E r \in Matching(q, Owners) : p \in RowsOf(r)
  BY DEF JoinedRows
<1>5. \A p \in JoinedRows(q) : p[1] \in Matching(q, Owners) /\ p[2] \subseteq ThingsOf(p[1].id)
  BY <1>1, <1>4
<1>6. \A r \in Matching(q, Owners) : \A t \in ThingsOf(r.id) : <<r, {t}>> \in JoinedRows(q)
  BY <1>2, <1>4
<1>7. \A r \in Matching(q, Owners) : \E p \in JoinedRows(q) : p[1] = r
  BY <1>3, <1>4
<1> QED BY <1>5, <1>6, <1>7

(* A joined row is an owner the query selects and a thing of his; without a   *)
(* window every one of them is there.                                         *)
LEMMA JoinedAre ==
  ASSUME Distinguished, NEW q, IsQuery(q), IsDb(lookup.db), NEW joined \in Joined(q)
  PROVE  /\ joined \in Seq(JoinedRows(q))
         /\ q.limit = NoLimit /\ q.offset = 0 => ToSet(joined) = JoinedRows(q)
<1>1. PICK s \in SetToSeqs(JoinedRows(q)) : joined = Slice(s, q.limit, q.offset)
  BY DEF Joined, JoinedRows
<1>2. s \in Seq(JoinedRows(q)) /\ ToSet(s) = JoinedRows(q)
  BY JoinedRowsFinite, SeqsEach
<1>3. joined \in Seq(JoinedRows(q))
  BY <1>1, <1>2, SliceOf DEF IsQuery
<1>4. q.limit = NoLimit /\ q.offset = 0 => joined = s
  BY <1>1, <1>2, SliceWhole
<1> QED BY <1>2, <1>3, <1>4

LEMMA RelatedAre ==
  ASSUME Distinguished, NEW q, IsQuery(q), IsDb(lookup.db), NEW joined \in Joined(q), NEW id
  PROVE  /\ Related(joined, id) \subseteq ThingsOf(id)
         /\ q.limit = NoLimit /\ q.offset = 0 =>
              \A r \in Matching(q, Owners) : r.id = id => Related(joined, id) = ThingsOf(id)
<1>1. \A p \in ToSet(joined) : p \in JoinedRows(q)
  BY JoinedAre DEF ToSet
<1>2. Related(joined, id) \subseteq ThingsOf(id)
  BY <1>1, JoinedRowsAre DEF Related
<1>3. ASSUME q.limit = NoLimit, q.offset = 0, NEW r \in Matching(q, Owners), r.id = id, NEW t \in ThingsOf(id)
      PROVE  t \in Related(joined, id)
  <2>1. <<r, {t}>> \in JoinedRows(q) BY <1>3, JoinedRowsAre
  <2>2. <<r, {t}>> \in ToSet(joined) BY <2>1, <1>3, JoinedAre
  <2> QED BY <2>2, <1>3 DEF Related
<1> QED BY <1>2, <1>3

(* What is fetched are rows the query selects, without a window all of them.  *)
LEMMA FetchedAre ==
  ASSUME Distinguished, NEW q, IsQuery(q), NEW S, Rows(S), NEW s \in Fetched(q, S) \cup One(q, S)
  PROVE  /\ s \in Seq(Matching(q, S))
         /\ q.limit = NoLimit /\ q.offset = 0 /\ s \in Fetched(q, S) => ToSet(s) = Matching(q, S)
<1>1. IsFiniteSet(Matching(q, S)) BY MatchingRows DEF Rows
<1>2. ASSUME NEW o \in Orderings(q.order, Matching(q, S))
      PROVE  o \in Seq(Matching(q, S)) /\ ToSet(o) = Matching(q, S)
  BY <1>1, SeqsEach DEF Orderings
<1>3. s \in Seq(Matching(q, S))
  <2>1. PICK o \in Orderings(q.order, Matching(q, S)), limit \in Nat \cup {NoLimit} : s = Slice(o, limit, q.offset)
    BY DEF Fetched, One, IsQuery
  <2> QED BY <2>1, <1>2, SliceOf DEF IsQuery
<1>4. ASSUME q.limit = NoLimit, q.offset = 0, s \in Fetched(q, S)
      PROVE  ToSet(s) = Matching(q, S)
  <2>1. PICK o \in Orderings(q.order, Matching(q, S)) : s = Slice(o, NoLimit, 0)
    BY <1>4 DEF Fetched
  <2> QED BY <2>1, <1>2, SliceWhole
<1> QED BY <1>3, <1>4

(* A query by id selects rows of that id.                                     *)
LEMMA ByIdSelects ==
  ASSUME NEW q, ~q.any, NEW f \in q.filters, f.op = "eq", f.column = "id", NEW S, NEW r \in Matching(q, S)
  PROVE  r.id = f.to
<1>1. Holds(r, f) BY DEF Matching
<1> QED BY <1>1 DEF Holds
-----------------------------------------------------------------------------
(* Loading                                                                    *)

LoadShape(x) ==
  x = [db |-> x.db, find |-> x.find, wish |-> x.wish, todo |-> x.todo, records |-> x.records,
       things |-> x.things, boss |-> x.boss, nested |-> x.nested, writes |-> x.writes]

(* The statements that remain after the first, in their order.                *)
Plans ==
  {<< >>, <<"things">>, <<"boss">>, <<"nested">>, <<"things", "boss">>, <<"things", "nested">>,
   <<"boss", "nested">>, <<"things", "boss", "nested">>}

RecordIds == ToSet(IdsOf(lookup.records))
Loaded(what) == what \notin ToSet(lookup.todo)
WantsThings == "things" \in lookup.wish \/ "nested" \in lookup.wish

Typed ==
  /\ LoadShape(lookup)
  /\ IsDb(lookup.db)
  /\ IsFinder(lookup.find)
  /\ lookup.writes \in Nat
  /\ lookup.todo \in Plans \cup {<<"core">>}
  /\ lookup.todo = <<"core">> => lookup.records = << >>
  /\ "nested" \in ToSet(lookup.todo) => "nested" \in lookup.wish

(* A relation has an entry for each record.                                   *)
Over(f, S) == f = [x \in S |-> f[x]]
Filled == Over(lookup.things, RecordIds) /\ Over(lookup.boss, RecordIds) /\ Over(lookup.nested, RecordIds)

(* A single record that was asked for by its id has it.                       *)
AsAsked ==
  lookup.find.single =>
    \A f \in lookup.find.query.filters : f.op = "eq" /\ f.column = "id" => \A id \in RecordIds : id = f.to

(* What is loaded while nobody writes.                                        *)
Undisturbed == lookup.writes = 0 /\ ~Windowed /\ (~lookup.find.single \/ ById)
Exact ==
  Undisturbed =>
    \A r \in ToSet(lookup.records) :
      /\ r \in Matching(lookup.find.query, Owners)
      /\ WantsThings /\ Loaded("things") => lookup.things[r.id] = ThingsOf(r.id)
      /\ "boss" \in lookup.wish /\ ~lookup.find.single /\ Loaded("boss") => lookup.boss[r.id] = BossOf(r)
      /\ "nested" \in lookup.wish /\ Loaded("nested") => lookup.nested[r.id] = ThingsOf(r.id)

LookupInv == Typed /\ Filled /\ AsAsked /\ ChildrenAreOwn /\ Exact

(* The statements of a plan come in their order, each once.                   *)
LEMMA PlanSteps ==
  ASSUME NEW todo \in Plans, todo # << >>
  PROVE  /\ Tail(todo) \in Plans /\ Head(todo) \in {"things", "boss", "nested"}
         /\ ToSet(todo) = ToSet(Tail(todo)) \cup {Head(todo)}
         /\ Head(todo) # "things" => "things" \notin ToSet(todo)
<1>1. \A a : Head(<<a>>) = a /\ Tail(<<a>>) = << >> /\ ToSet(<<a>>) = {a}
  BY DEF ToSet
<1>2. \A a, b : Head(<<a, b>>) = a /\ Tail(<<a, b>>) = <<b>> /\ ToSet(<<a, b>>) = {a, b}
  BY DEF ToSet
<1>3. \A a, b, c : Head(<<a, b, c>>) = a /\ Tail(<<a, b, c>>) = <<b, c>> /\ ToSet(<<a, b, c>>) = {a, b, c}
  BY DEF ToSet
<1>4. ToSet(<< >>) = {}
  BY DEF ToSet
<1>5. \A a \in {"things", "boss", "nested"} : <<a>> \in Plans
  BY DEF Plans
<1>6. << >> \in Plans /\ <<"boss", "nested">> \in Plans
  BY DEF Plans
<1>7. CASE todo \in {<<"things">>, <<"boss">>, <<"nested">>}
  <2>1. PICK a \in {"things", "boss", "nested"} : todo = <<a>> BY <1>7
  <2> QED BY <2>1, <1>1, <1>4, <1>6
<1>8. CASE todo \in {<<"things", "boss">>, <<"things", "nested">>, <<"boss", "nested">>}
  <2>1. PICK a \in {"things", "boss"}, b \in {"boss", "nested"} : todo = <<a, b>> BY <1>8
  <2> QED BY <2>1, <1>1, <1>2, <1>5
<1>9. CASE todo = <<"things", "boss", "nested">>
  BY <1>9, <1>2, <1>3, <1>6
<1> QED BY <1>7, <1>8, <1>9 DEF Plans

LEMMA RestIsPlan ==
  /\ Rest \in Plans
  /\ "things" \in ToSet(Rest) <=> WantsThings
  /\ "boss" \in ToSet(Rest) <=> "boss" \in lookup.wish /\ ~lookup.find.single
  /\ "nested" \in ToSet(Rest) <=> "nested" \in lookup.wish
<1>1. ASSUME NEW a, NEW b, NEW c
      PROVE  /\ <<a>> \o << >> = <<a>> /\ << >> \o <<a>> = <<a>> /\ << >> \o << >> = << >>
             /\ <<a>> \o <<b>> = <<a, b>> /\ <<a, b>> \o <<c>> = <<a, b, c>> /\ <<a, b>> \o << >> = <<a, b>>
  <2>1. <<a>> \o << >> = <<a>> OBVIOUS
  <2>2. << >> \o <<a>> = <<a>> OBVIOUS
  <2>3. << >> \o << >> = << >> OBVIOUS
  <2>4. <<a>> \o <<b>> = <<a, b>>
    <3>1. <<a>> \in Seq({a, b}) /\ b \in {a, b} OBVIOUS
    <3>2. <<a>> \o <<b>> = Append(<<a>>, b) BY <3>1, AppendIsConcat
    <3>3. Append(<<a>>, b) = <<a, b>>
      <4> DEFINE x == Append(<<a>>, b)
                 y == <<a, b>>
      <4>1. x \in Seq({a, b}) /\ Len(x) = 2 /\ x[1] = a /\ x[2] = b BY <3>1, AppendProperties
      <4>2. y \in Seq({a, b}) /\ Len(y) = 2 /\ y[1] = a /\ y[2] = b OBVIOUS
      <4> HIDE DEF x, y
      <4>3. \A i \in 1..Len(x) : x[i] = y[i] BY <4>1, <4>2
      <4> QED BY <4>1, <4>2, <4>3, SeqEqual DEF x, y
    <3> QED BY <3>2, <3>3
  <2>5. <<a, b>> \o <<c>> = <<a, b, c>>
    <3>1. <<a, b>> \in Seq({a, b, c}) /\ c \in {a, b, c} OBVIOUS
    <3>2. <<a, b>> \o <<c>> = Append(<<a, b>>, c) BY <3>1, AppendIsConcat
    <3>3. Append(<<a, b>>, c) = <<a, b, c>>
      <4> DEFINE x == Append(<<a, b>>, c)
                 y == <<a, b, c>>
      <4>1. x \in Seq({a, b, c}) /\ Len(x) = 3 /\ x[1] = a /\ x[2] = b /\ x[3] = c BY <3>1, AppendProperties
      <4>2. y \in Seq({a, b, c}) /\ Len(y) = 3 /\ y[1] = a /\ y[2] = b /\ y[3] = c OBVIOUS
      <4> HIDE DEF x, y
      <4>3. \A i \in 1..Len(x) : x[i] = y[i] BY <4>1, <4>2
      <4> QED BY <4>1, <4>2, <4>3, SeqEqual DEF x, y
    <3> QED BY <3>2, <3>3
  <2>6. <<a, b>> \o << >> = <<a, b>> OBVIOUS
  <2> QED BY <2>1, <2>2, <2>3, <2>4, <2>5, <2>6
<1>2. \A a, b, c : ToSet(<< >>) = {} /\ ToSet(<<a>>) = {a} /\ ToSet(<<a, b>>) = {a, b} /\ ToSet(<<a, b, c>>) = {a, b, c}
  BY DEF ToSet
<1> DEFINE t == WantsThings
           b == "boss" \in lookup.wish /\ ~lookup.find.single
           n == "nested" \in lookup.wish
<1>3. Rest = (IF t THEN <<"things">> ELSE << >>) \o (IF b THEN <<"boss">> ELSE << >>) \o (IF n THEN <<"nested">> ELSE << >>)
  BY DEF Rest, WantsThings
<1> HIDE DEF t, b, n
<1>4. Rest = IF t THEN IF b THEN IF n THEN <<"things", "boss", "nested">> ELSE <<"things", "boss">>
                            ELSE IF n THEN <<"things", "nested">> ELSE <<"things">>
             ELSE IF b THEN IF n THEN <<"boss", "nested">> ELSE <<"boss">>
                       ELSE IF n THEN <<"nested">> ELSE << >>
  BY <1>1, <1>3
<1>5. Rest \in Plans BY <1>4 DEF Plans
<1>6. /\ "things" \in ToSet(Rest) <=> t
      /\ "boss" \in ToSet(Rest) <=> b
      /\ "nested" \in ToSet(Rest) <=> n
  BY <1>2, <1>4
<1> QED BY <1>5, <1>6 DEF t, b, n
LEMMA IdsAre ==
  ASSUME NEW s
  PROVE  ToSet(IdsOf(s)) = {r.id : r \in ToSet(s)}
BY DEF ToSet, IdsOf

(* The records are read; no relation is yet.                                  *)
LEMMA CoreKeeps ==
  ASSUME LookupInv, Distinguished, Core
  PROVE  LookupInv'
<1> DEFINE q == lookup.find.query
           single == lookup.find.single
<1>1. PICK s \in Fetched(q, Owners) \cup One(q, Owners) :
        lookup' = [lookup EXCEPT !.records = s, !.todo = IF s = << >> THEN << >> ELSE Rest,
                                 !.things = Unloaded(s), !.boss = Unloaded(s), !.nested = Unloaded(s)]
  BY DEF Core
<1>2. IsDb(lookup.db) /\ Rows(Owners) /\ IsQuery(q) /\ (single => ~q.any)
  BY DEF LookupInv, Typed, IsFinder, IsDb, Owners
<1>3. s \in Seq(Matching(q, Owners))
  BY <1>2, FetchedAre
<1>4. \A r \in ToSet(s) : r \in Matching(q, Owners)
  BY <1>3 DEF ToSet
<1> DEFINE ids == ToSet(IdsOf(s))
           todo == IF s = << >> THEN << >> ELSE Rest
           blank == [id \in ids |-> {}]
<1>5. ids = {r.id : r \in ToSet(s)} BY IdsAre
<1>6. /\ LoadShape(lookup') /\ lookup'.db = lookup.db /\ lookup'.find = lookup.find /\ lookup'.wish = lookup.wish
      /\ lookup'.writes = lookup.writes /\ lookup'.records = s /\ lookup'.todo = todo
      /\ lookup'.things = blank /\ lookup'.boss = blank /\ lookup'.nested = blank
  BY <1>1 DEF LookupInv, Typed, LoadShape, Unloaded
<1>7. todo \in Plans /\ ("nested" \in ToSet(todo) => "nested" \in lookup.wish)
  <2>1. CASE s = << >>
    <3>1. ToSet(<< >>) = {} BY DEF ToSet
    <3> QED BY <2>1, <3>1 DEF Plans
  <2>2. CASE s # << >> BY <2>2, RestIsPlan
  <2> QED BY <2>1, <2>2
<1>8. <<"core">> \notin Plans
  BY DEF Plans
<1>9. RecordIds' = ids /\ (\A id \in ids : blank[id] = {}) /\ Over(blank, ids)
  BY <1>6 DEF RecordIds, Over
<1>10. Typed'
  BY <1>6, <1>7, <1>8 DEF LookupInv, Typed
<1> HIDE DEF ids, blank
<1>11. Filled'
  BY <1>6, <1>9 DEF Filled
<1>12. AsAsked'
  <2>1. ASSUME single, NEW f \in q.filters, f.op = "eq", f.column = "id", NEW id \in ids
        PROVE  id = f.to
    <3>1. PICK r \in ToSet(s) : id = r.id BY <1>5
    <3> QED BY <2>1, <3>1, <1>2, <1>4, ByIdSelects
  <2> QED BY <2>1, <1>6, <1>9 DEF AsAsked
<1>13. ChildrenAreOwn'
  <2>1. DOMAIN blank = ids /\ \A id \in ids : blank[id] = {} BY <1>9 DEF blank
  <2> QED BY <1>6, <2>1 DEF ChildrenAreOwn
<1>14. Exact'
  <2>1. Owners' = Owners /\ WantsThings' = WantsThings BY <1>6 DEF Owners, WantsThings
  <2>2. ASSUME NEW r \in ToSet(s)
        PROVE  /\ WantsThings => "things" \in ToSet(todo)
               /\ "boss" \in lookup.wish /\ ~single => "boss" \in ToSet(todo)
               /\ "nested" \in lookup.wish => "nested" \in ToSet(todo)
    <3>1. s # << >> BY <2>2 DEF ToSet
    <3> QED BY <3>1, RestIsPlan
  <2> HIDE DEF todo
  <2> QED BY <1>4, <1>6, <2>1, <2>2 DEF Exact, Loaded
<1> QED BY <1>10, <1>11, <1>12, <1>13, <1>14 DEF LookupInv
LEMMA StepOf ==
  ASSUME LookupInv, NEW what, what # "core", Step(what)
  PROVE  /\ lookup.todo \in Plans /\ lookup.todo # << >> /\ Head(lookup.todo) = what
         /\ Tail(lookup.todo) \in Plans
         /\ ToSet(lookup.todo) = ToSet(Tail(lookup.todo)) \cup {what}
         /\ what # "things" => Loaded("things")
<1>1. lookup.todo # << >> /\ Head(lookup.todo) = what BY DEF Step
<1>2. Head(<<"core">>) = "core" OBVIOUS
<1>3. lookup.todo \in Plans BY <1>1, <1>2 DEF LookupInv, Typed
<1> QED BY <1>1, <1>3, PlanSteps DEF Loaded

(* What a step that loads a relation leaves alone.                            *)
Loads(things, boss, nested) ==
  /\ LoadShape(lookup')
  /\ lookup'.db = lookup.db /\ lookup'.find = lookup.find /\ lookup'.wish = lookup.wish
  /\ lookup'.writes = lookup.writes /\ lookup'.records = lookup.records
  /\ lookup'.todo = Tail(lookup.todo)
  /\ lookup'.things = things /\ lookup'.boss = boss /\ lookup'.nested = nested

LEMMA LoadsKeep ==
  ASSUME LookupInv, NEW what, what # "core", Step(what), NEW things, NEW boss, NEW nested, Loads(things, boss, nested)
  PROVE  Typed' /\ AsAsked' /\ RecordIds' = RecordIds /\ Undisturbed' = Undisturbed
<1>1. Typed'
  <2>1. Tail(lookup.todo) \in Plans /\ ToSet(lookup.todo) = ToSet(Tail(lookup.todo)) \cup {what}
    BY StepOf
  <2>2. <<"core">> \notin Plans BY DEF Plans
  <2>3. "nested" \in ToSet(Tail(lookup.todo)) => "nested" \in lookup.wish
    BY <2>1 DEF LookupInv, Typed
  <2> QED BY <2>1, <2>2, <2>3 DEF Typed, LookupInv, Loads
<1>2. RecordIds' = RecordIds
  BY DEF Loads, RecordIds
<1>3. AsAsked'
  BY <1>2 DEF AsAsked, LookupInv, Loads
<1>4. Undisturbed' = Undisturbed
  BY DEF Undisturbed, Loads, Windowed, ById
<1> QED BY <1>1, <1>2, <1>3, <1>4

LEMMA ThingsKeep ==
  ASSUME LookupInv, Distinguished, LoadThings
  PROVE  LookupInv'
<1> DEFINE q == lookup.find.query
           single == lookup.find.single
<1>1. PICK joined \in Joined(q) :
        lookup' = [lookup EXCEPT
          !.things = IF single THEN [id \in DOMAIN lookup.things |-> IF joined = << >> THEN {} ELSE Related(joined, joined[1][1].id)]
                     ELSE [id \in DOMAIN lookup.things |-> Related(joined, id)],
          !.todo = Tail(@)]
  BY DEF LoadThings
<1> DEFINE got == IF single THEN [id \in DOMAIN lookup.things |-> IF joined = << >> THEN {} ELSE Related(joined, joined[1][1].id)]
                  ELSE [id \in DOMAIN lookup.things |-> Related(joined, id)]
<1>2. Loads(got, lookup.boss, lookup.nested)
  BY <1>1 DEF LookupInv, Typed, LoadShape, Loads
<1>3. Step("things") BY DEF LoadThings
<1>4. DOMAIN lookup.things = RecordIds BY DEF LookupInv, Filled, Over
<1>5. Over(got, RecordIds) BY <1>4 DEF Over
<1>6. \A id \in RecordIds :
        got[id] = IF single THEN IF joined = << >> THEN {} ELSE Related(joined, joined[1][1].id) ELSE Related(joined, id)
  BY <1>4
<1> HIDE DEF got
<1>7. IsDb(lookup.db) /\ IsQuery(q) /\ (single => ~q.any)
  BY DEF LookupInv, Typed, IsFinder
<1>8. joined \in Seq(JoinedRows(q)) /\ (q.limit = NoLimit /\ q.offset = 0 => ToSet(joined) = JoinedRows(q))
  BY <1>7, JoinedAre
<1>9. ASSUME ById, single, NEW id \in RecordIds, joined # << >>
      PROVE  joined[1][1].id = id
  <2>1. PICK f \in q.filters : f.op = "eq" /\ f.column = "id" BY <1>9 DEF ById
  <2>2. id = f.to BY <2>1, <1>9 DEF LookupInv, AsAsked
  <2>3. joined[1] \in JoinedRows(q) BY <1>8, <1>9
  <2>4. joined[1][1] \in Matching(q, Owners) BY <2>3, JoinedRowsAre
  <2>5. joined[1][1].id = f.to BY <2>1, <2>4, <1>7, <1>9, ByIdSelects
  <2> QED BY <2>2, <2>5
<1>10. ASSUME ~single \/ ById, NEW id \in RecordIds
       PROVE  got[id] = Related(joined, id) \/ (joined = << >> /\ got[id] = {})
  BY <1>6, <1>9, <1>10
<1>11. ASSUME ~single \/ ById, NEW id \in RecordIds
       PROVE  got[id] \subseteq ThingsOf(id)
  BY <1>7, <1>10, <1>11, RelatedAre
<1>12. ASSUME Undisturbed, NEW r \in ToSet(lookup.records)
       PROVE  got[r.id] = ThingsOf(r.id)
  <2>1. r \in Matching(q, Owners) BY <1>12 DEF LookupInv, Exact
  <2>2. r.id \in RecordIds BY IdsAre DEF RecordIds
  <2>3. q.limit = NoLimit /\ q.offset = 0 BY <1>12 DEF Undisturbed, Windowed
  <2>4. joined # << >>
    <3>1. PICK p \in JoinedRows(q) : p[1] = r BY <2>1, JoinedRowsAre
    <3>2. p \in ToSet(joined) BY <3>1, <2>3, <1>8
    <3> QED BY <3>2 DEF ToSet
  <2>5. got[r.id] = Related(joined, r.id) BY <1>10, <1>12, <2>2, <2>4 DEF Undisturbed
  <2> QED BY <2>1, <2>3, <2>5, <1>7, RelatedAre
<1>13. Typed' /\ AsAsked' /\ RecordIds' = RecordIds /\ Undisturbed' = Undisturbed
  BY <1>2, <1>3, LoadsKeep
<1>14. Filled'
  BY <1>2, <1>5, <1>13 DEF Filled, LookupInv, Loads
<1>15. ChildrenAreOwn'
  <2>1. DOMAIN got = RecordIds BY <1>5 DEF Over
  <2>2. ASSUME ~single \/ ById, NEW id \in RecordIds, NEW t \in got[id]
        PROVE  t.owner = id
    BY <2>2, <1>11 DEF ThingsOf
  <2>3. ById' = ById BY <1>2 DEF ById, Loads
  <2>4. ASSUME NEW id \in RecordIds, NEW t \in got[id], NEW u \in got[id]
        PROVE  t.owner = u.owner
    <3>1. got[id] = {} \/ \E k : got[id] = Related(joined, k) BY <1>6
    <3>2. PICK k : got[id] = Related(joined, k) BY <2>4, <3>1
    <3> QED BY <1>7, <2>4, <3>2, RelatedAre DEF ThingsOf
  <2> QED BY <1>2, <2>1, <2>2, <2>3, <2>4 DEF ChildrenAreOwn, Loads
<1>16. Exact'
  <2>1. /\ ToSet(lookup.todo) = ToSet(Tail(lookup.todo)) \cup {"things"}
        /\ Owners' = Owners /\ Things' = Things /\ WantsThings' = WantsThings
    BY <1>2, <1>3, StepOf DEF Loads, Owners, Things, WantsThings
  <2>2. "boss" \in ToSet(lookup.todo) <=> "boss" \in ToSet(Tail(lookup.todo)) BY <2>1
  <2>3. "nested" \in ToSet(lookup.todo) <=> "nested" \in ToSet(Tail(lookup.todo)) BY <2>1
  <2> QED BY <1>2, <1>12, <1>13, <2>1, <2>2, <2>3 DEF Exact, LookupInv, Loads, Loaded, ThingsOf, BossOf
<1> QED BY <1>13, <1>14, <1>15, <1>16 DEF LookupInv
LEMMA BossKeeps ==
  ASSUME LookupInv, Distinguished, LoadBoss
  PROVE  LookupInv'
<1> DEFINE q == lookup.find.query
           single == lookup.find.single
<1>1. PICK s \in Fetched(q, Owners) :
        lookup' = [lookup EXCEPT
          !.boss = [id \in DOMAIN lookup.boss |-> UNION {BossOf(s[i]) : i \in {i \in DOMAIN s : s[i].id = id}}],
          !.todo = Tail(@)]
  BY DEF LoadBoss
<1> DEFINE got == [id \in DOMAIN lookup.boss |-> UNION {BossOf(s[i]) : i \in {i \in DOMAIN s : s[i].id = id}}]
<1>2. Loads(lookup.things, got, lookup.nested)
  BY <1>1 DEF LookupInv, Typed, LoadShape, Loads
<1>3. Step("boss") BY DEF LoadBoss
<1>4. DOMAIN lookup.boss = RecordIds BY DEF LookupInv, Filled, Over
<1>5. Over(got, RecordIds) BY <1>4 DEF Over
<1>6. \A id \in RecordIds : got[id] = UNION {BossOf(s[i]) : i \in {i \in DOMAIN s : s[i].id = id}}
  BY <1>4
<1> HIDE DEF got
<1>7. Rows(Owners) /\ IsQuery(q)
  BY DEF LookupInv, Typed, IsFinder, IsDb, Owners
<1>8. s \in Seq(Matching(q, Owners)) /\ (q.limit = NoLimit /\ q.offset = 0 => ToSet(s) = Matching(q, Owners))
  BY <1>7, FetchedAre
<1>9. ASSUME Undisturbed, NEW r \in ToSet(lookup.records)
      PROVE  got[r.id] = BossOf(r)
  <2>1. r \in Matching(q, Owners) BY <1>9 DEF LookupInv, Exact
  <2>2. r.id \in RecordIds BY IdsAre DEF RecordIds
  <2>3. q.limit = NoLimit /\ q.offset = 0 BY <1>9 DEF Undisturbed, Windowed
  <2>4. PICK k \in DOMAIN s : s[k] = r BY <2>1, <2>3, <1>8 DEF ToSet
  <2>5. \A i \in DOMAIN s : s[i].id = r.id => s[i] = r
    BY <2>1, <1>7, <1>8, MatchingRows DEF Rows
  <2>6. got[r.id] = UNION {BossOf(s[i]) : i \in {i \in DOMAIN s : s[i].id = r.id}} BY <1>6, <2>2
  <2>7. {BossOf(s[i]) : i \in {i \in DOMAIN s : s[i].id = r.id}} = {BossOf(r)}
    BY <2>4, <2>5
  <2> QED BY <2>6, <2>7
<1>10. Typed' /\ AsAsked' /\ RecordIds' = RecordIds /\ Undisturbed' = Undisturbed
  BY <1>2, <1>3, LoadsKeep
<1>11. Filled'
  BY <1>2, <1>5, <1>10 DEF Filled, LookupInv, Loads
<1>12. ChildrenAreOwn'
  BY <1>2 DEF LookupInv, ChildrenAreOwn, Loads, ById
<1>13. Exact'
  <2>1. /\ ToSet(lookup.todo) = ToSet(Tail(lookup.todo)) \cup {"boss"}
        /\ Owners' = Owners /\ Things' = Things /\ WantsThings' = WantsThings
    BY <1>2, <1>3, StepOf DEF Loads, Owners, Things, WantsThings
  <2>2. "things" \in ToSet(lookup.todo) <=> "things" \in ToSet(Tail(lookup.todo)) BY <2>1
  <2>3. "nested" \in ToSet(lookup.todo) <=> "nested" \in ToSet(Tail(lookup.todo)) BY <2>1
  <2> QED BY <1>2, <1>9, <1>10, <2>1, <2>2, <2>3 DEF Exact, LookupInv, Loads, Loaded, ThingsOf, BossOf
<1> QED BY <1>10, <1>11, <1>12, <1>13 DEF LookupInv

LEMMA NestedKeeps ==
  ASSUME LookupInv, Distinguished, LoadNested
  PROVE  LookupInv'
<1> DEFINE got == [id \in DOMAIN lookup.nested |-> {t \in Things : \E old \in lookup.things[id] : old.id = t.id}]
<1>1. lookup' = [lookup EXCEPT !.nested = got, !.todo = Tail(@)]
  BY DEF LoadNested
<1>2. Loads(lookup.things, lookup.boss, got)
  BY <1>1 DEF LookupInv, Typed, LoadShape, Loads
<1>3. Step("nested") BY DEF LoadNested
<1>4. DOMAIN lookup.nested = RecordIds BY DEF LookupInv, Filled, Over
<1>5. Over(got, RecordIds) BY <1>4 DEF Over
<1>6. \A id \in RecordIds : got[id] = {t \in Things : \E old \in lookup.things[id] : old.id = t.id}
  BY <1>4
<1> HIDE DEF got
<1>7. Rows(Things)
  BY DEF LookupInv, Typed, IsDb, Things
<1>8. Loaded("things") /\ "nested" \in lookup.wish
  BY <1>3, StepOf DEF LookupInv, Typed
<1>9. ASSUME Undisturbed, NEW r \in ToSet(lookup.records)
      PROVE  got[r.id] = ThingsOf(r.id)
  <2>1. lookup.things[r.id] = ThingsOf(r.id) BY <1>8, <1>9 DEF LookupInv, Exact, WantsThings
  <2>2. r.id \in RecordIds BY IdsAre DEF RecordIds
  <2>3. got[r.id] = {t \in Things : \E old \in ThingsOf(r.id) : old.id = t.id} BY <2>1, <2>2, <1>6
  <2>4. \A t \in Things : \A old \in ThingsOf(r.id) : old.id = t.id => t = old
    BY <1>7 DEF Rows, ThingsOf
  <2>5. ThingsOf(r.id) \subseteq Things BY DEF ThingsOf
  <2> QED BY <2>3, <2>4, <2>5
<1>10. Typed' /\ AsAsked' /\ RecordIds' = RecordIds /\ Undisturbed' = Undisturbed
  BY <1>2, <1>3, LoadsKeep
<1>11. Filled'
  BY <1>2, <1>5, <1>10 DEF Filled, LookupInv, Loads
<1>12. ChildrenAreOwn'
  BY <1>2 DEF LookupInv, ChildrenAreOwn, Loads, ById
<1>13. Exact'
  <2>1. /\ ToSet(lookup.todo) = ToSet(Tail(lookup.todo)) \cup {"nested"}
        /\ Owners' = Owners /\ Things' = Things /\ WantsThings' = WantsThings
    BY <1>2, <1>3, StepOf DEF Loads, Owners, Things, WantsThings
  <2>2. "things" \in ToSet(lookup.todo) <=> "things" \in ToSet(Tail(lookup.todo)) BY <2>1
  <2>3. "boss" \in ToSet(lookup.todo) <=> "boss" \in ToSet(Tail(lookup.todo)) BY <2>1
  <2> QED BY <1>2, <1>9, <1>10, <2>1, <2>2, <2>3 DEF Exact, LookupInv, Loads, Loaded, ThingsOf, BossOf
<1> QED BY <1>10, <1>11, <1>12, <1>13 DEF LookupInv

(* Another client's write keeps the ids apart, and ends what was promised of  *)
(* a lookup that nobody disturbs.                                             *)
LEMMA ChangedRows ==
  ASSUME NEW S, Rows(S), NEW possible, \A n \in possible : n.id \in Int, NEW T \in Changed(S, possible)
  PROVE  Rows(T)
<1>1. CASE \E r \in S : T = S \ {r}
  BY <1>1, FS_Subset DEF Rows
<1>2. CASE \E n \in possible : T = {r \in S : r.id # n.id} \cup {n}
  <2>1. PICK n \in possible : T = {r \in S : r.id # n.id} \cup {n} BY <1>2
  <2>2. IsFiniteSet({r \in S : r.id # n.id}) BY FS_Subset DEF Rows
  <2>3. IsFiniteSet(T) BY <2>1, <2>2, FS_AddElement
  <2> QED BY <2>1, <2>3 DEF Rows
<1> QED BY <1>1, <1>2 DEF Changed

LEMMA WriteKeeps ==
  ASSUME LookupInv, NEW after, \A base \in after : IsDb(base), Write(after)
  PROVE  LookupInv'
<1>1. PICK base \in after : lookup' = [lookup EXCEPT !.db = base, !.writes = @ + 1]
  BY DEF Write
<1>2. /\ LoadShape(lookup') /\ lookup'.db = base /\ lookup'.find = lookup.find /\ lookup'.wish = lookup.wish
      /\ lookup'.writes = lookup.writes + 1 /\ lookup'.records = lookup.records /\ lookup'.todo = lookup.todo
      /\ lookup'.things = lookup.things /\ lookup'.boss = lookup.boss /\ lookup'.nested = lookup.nested
  BY <1>1 DEF LookupInv, Typed, LoadShape
<1>3. lookup'.writes # 0 /\ lookup'.writes \in Nat
  BY <1>2 DEF LookupInv, Typed
<1>4. RecordIds' = RecordIds BY <1>2 DEF RecordIds
<1>5. Typed' BY <1>2, <1>3 DEF LookupInv, Typed
<1>6. Filled' /\ AsAsked' /\ ChildrenAreOwn'
  BY <1>2, <1>4 DEF LookupInv, Filled, AsAsked, ChildrenAreOwn, ById
<1>7. Exact' BY <1>3 DEF Exact, Undisturbed
<1> QED BY <1>5, <1>6, <1>7 DEF LookupInv

LEMMA LookupSteps ==
  ASSUME Distinguished, NEW owners, NEW things, \A n \in owners \cup things : n.id \in Int,
         LookupInv, [LookupNext(owners, things)]_lookup
  PROVE  LookupInv'
<1>1. CASE Write({[lookup.db EXCEPT !.owners = o] : o \in Changed(Owners, owners)})
  <2>1. \A o \in Changed(Owners, owners) : IsDb([lookup.db EXCEPT !.owners = o])
    BY ChangedRows DEF LookupInv, Typed, IsDb, Owners
  <2> QED BY <1>1, <2>1, WriteKeeps
<1>2. CASE Write({[lookup.db EXCEPT !.things = t] : t \in Changed(Things, things)})
  <2>1. \A t \in Changed(Things, things) : IsDb([lookup.db EXCEPT !.things = t])
    BY ChangedRows DEF LookupInv, Typed, IsDb, Things
  <2> QED BY <1>2, <2>1, WriteKeeps
<1>3. CASE UNCHANGED lookup
  BY <1>3 DEF LookupInv, Typed, Filled, AsAsked, ChildrenAreOwn, Exact, Undisturbed, Windowed, ById, RecordIds, Loaded,
              WantsThings, Owners, Things, ThingsOf, BossOf
<1> QED BY <1>1, <1>2, <1>3, CoreKeeps, ThingsKeep, BossKeeps, NestedKeeps DEF LookupNext
-----------------------------------------------------------------------------
(* Reads                                                                      *)

LEMMA OrderingsAre ==
  ASSUME NEW order, NEW T, IsFiniteSet(T), NEW o \in Orderings(order, T)
  PROVE  o \in Seq(T) /\ Len(o) = Cardinality(T) /\ Len(o) \in Nat
BY SeqsEach, FS_CardinalityType DEF Orderings

(* A window of one row is empty exactly when any other is.                    *)
LEMMA WindowsAgree ==
  ASSUME Distinguished, NEW S, NEW o \in Seq(S), NEW limit \in Nat \cup {NoLimit}, limit # 0, NEW offset \in Nat
  PROVE  /\ Slice(o, limit, offset) # << >> <=> offset < Len(o)
         /\ offset < Len(o) => Slice(o, limit, offset)[1] = o[offset + 1]
<1> DEFINE s == Slice(o, limit, offset)
<1>1. /\ s \in Seq(S) /\ \A i \in DOMAIN s : offset + i \in DOMAIN o /\ s[i] = o[offset + i]
      /\ Len(s) = IF Len(o) <= offset THEN 0
                  ELSE IF limit # NoLimit /\ offset + limit <= Len(o) THEN limit ELSE Len(o) - offset
  BY SliceOf
<1> HIDE DEF s
<1>2. Len(o) \in Nat OBVIOUS
<1>3. s # << >> <=> Len(s) # 0 BY <1>1
<1>4. offset < Len(o) => Len(s) \in Nat /\ Len(s) # 0
  <2>1. CASE limit = NoLimit BY <2>1, <1>1, <1>2
  <2>2. CASE limit # NoLimit
    <3>1. limit \in Nat BY <2>2
    <3> QED BY <2>2, <3>1, <1>1, <1>2
  <2> QED BY <2>1, <2>2
<1>5. ~(offset < Len(o)) => Len(s) = 0
  BY <1>1, <1>2
<1>6. offset < Len(o) => 1 \in DOMAIN s
  BY <1>1, <1>4
<1>7. offset < Len(o) => s[1] = o[offset + 1]
  BY <1>1, <1>6
<1> QED BY <1>3, <1>4, <1>5, <1>7 DEF s

LEMMA ExistsAgrees ==
  ASSUME Distinguished, NEW q, IsQuery(q), NEW S, Rows(S), q.limit # 0
  PROVE  Exists(q, S) <=> \E s \in Fetched(q, S) : s # << >>
<1>1. \A o \in Orderings(q.order, Matching(q, S)) : o \in Seq(Matching(q, S))
  BY MatchingRows, OrderingsAre DEF Rows
<1>2. 1 \in Nat /\ 1 # 0 OBVIOUS
<1>3. ASSUME NEW o \in Orderings(q.order, Matching(q, S))
      PROVE  Slice(o, 1, q.offset) # << >> <=> Slice(o, q.limit, q.offset) # << >>
  BY <1>1, <1>2, WindowsAgree DEF IsQuery
<1> QED BY <1>3 DEF Exists, One, Fetched

LEMMA OneIsFirst ==
  ASSUME Distinguished, NEW q, IsQuery(q), NEW S, Rows(S), NEW s \in One(q, S), s # << >>
  PROVE  \E t \in Fetched([q EXCEPT !.limit = NoLimit], S) : t[1] = s[1]
<1> DEFINE wide == [q EXCEPT !.limit = NoLimit]
<1>1. wide.any = q.any /\ wide.filters = q.filters /\ wide.order = q.order /\ wide.offset = q.offset /\ wide.limit = NoLimit
  BY DEF IsQuery
<1>2. Matching(wide, S) = Matching(q, S) BY <1>1 DEF Matching
<1> HIDE DEF wide
<1>3. PICK o \in Orderings(q.order, Matching(q, S)) : s = Slice(o, 1, q.offset)
  BY DEF One
<1>4. o \in Seq(Matching(q, S)) BY MatchingRows, OrderingsAre DEF Rows
<1>5. 1 \in Nat /\ 1 # 0 /\ NoLimit # 0 /\ q.offset \in Nat BY DEF Distinguished, IsQuery
<1>6. Slice(o, NoLimit, q.offset) \in Fetched(wide, S)
  BY <1>1, <1>2, <1>3 DEF Fetched
<1>7. q.offset < Len(o) /\ s[1] = o[q.offset + 1]
  BY <1>3, <1>4, <1>5, WindowsAgree
<1>8. Slice(o, NoLimit, q.offset)[1] = o[q.offset + 1]
  BY <1>4, <1>5, <1>7, WindowsAgree
<1> QED BY <1>6, <1>7, <1>8 DEF wide

LEMMA CountsAgree ==
  ASSUME Distinguished, NEW q, IsQuery(q), NEW S, Rows(S)
  PROVE  /\ CountOf(q, S) = Cardinality(S) - Cardinality(Kept(q, S))
         /\ \A s \in Fetched(q, S) : q.limit = NoLimit /\ q.offset = 0 => Len(s) = CountOf(q, S)
<1> DEFINE M == Matching(q, S)
<1>1. M \subseteq S /\ IsFiniteSet(M) /\ IsFiniteSet(S) BY MatchingRows DEF Rows
<1>2. Cardinality(S \ M) = Cardinality(S) - Cardinality(M)
  <2>1. S \cap M = M BY <1>1
  <2>2. Cardinality(S \ M) = Cardinality(S) - Cardinality(S \cap M) BY <1>1, FS_Difference
  <2> QED BY <2>1, <2>2
<1>3. Cardinality(S) \in Nat /\ Cardinality(M) \in Nat BY <1>1, FS_CardinalityType
<1>4. CountOf(q, S) = Cardinality(S) - Cardinality(Kept(q, S))
  BY <1>2, <1>3 DEF CountOf, Kept
<1>5. ASSUME NEW s \in Fetched(q, S), q.limit = NoLimit, q.offset = 0
      PROVE  Len(s) = CountOf(q, S)
  <2>1. PICK o \in Orderings(q.order, M) : s = Slice(o, NoLimit, 0) BY <1>5 DEF Fetched
  <2>2. o \in Seq(M) /\ Len(o) = Cardinality(M) BY <1>1, OrderingsAre
  <2> QED BY <2>1, <2>2, SliceWhole DEF CountOf
<1> QED BY <1>4, <1>5

-----------------------------------------------------------------------------
(* The one order by id, the highest first.                                    *)
Descending == <<[column |-> "id", desc |-> TRUE]>>

LEMMA PrecedesById ==
  ASSUME Distinguished, NEW a, NEW b, a.id \in Int, b.id \in Int
  PROVE  Precedes(Descending, a, b) <=> a.id > b.id
<1>1. DOMAIN Descending = {1} /\ Descending[1].column = "id" /\ Descending[1].desc
  BY DEF Descending
<1>2. Rank(a.id) = a.id /\ Rank(b.id) = b.id
  BY DEF Rank, Distinguished
<1>3. \A j \in 1 .. (1 - 1) : FALSE
  OBVIOUS
<1> HIDE DEF Descending
<1>4. a["id"] = a.id /\ b["id"] = b.id OBVIOUS
<1> QED BY <1>1, <1>2, <1>3, <1>4 DEF Precedes

(* The place of a row: as many rows have a higher id.                         *)
Above(T, id) == {t \in T : t.id > id}
Place(T, r) == Cardinality(Above(T, r.id)) + 1

LEMMA PlacesDiffer ==
  ASSUME NEW T, Rows(T), NEW a \in T, NEW b \in T
  PROVE  /\ Place(T, a) \in 1..Cardinality(T)
         /\ a.id > b.id => Place(T, a) < Place(T, b)
         /\ Place(T, a) = Place(T, b) => a = b
<1>0. Cardinality(T) \in Nat /\ IsFiniteSet(T) BY FS_CardinalityType DEF Rows
<1>1. ASSUME NEW r \in T
      PROVE  /\ IsFiniteSet(Above(T, r.id)) /\ Cardinality(Above(T, r.id)) \in Nat
             /\ Cardinality(Above(T, r.id)) < Cardinality(T)
  <2>1. Above(T, r.id) \subseteq T /\ r \notin Above(T, r.id) BY DEF Above, Rows
  <2>2. IsFiniteSet(Above(T, r.id)) /\ Cardinality(Above(T, r.id)) <= Cardinality(T)
    BY <2>1, FS_Subset DEF Rows
  <2>3. Cardinality(Above(T, r.id)) # Cardinality(T)
    BY <2>1, FS_Subset DEF Rows
  <2>4. Cardinality(Above(T, r.id)) \in Nat BY <2>2, FS_CardinalityType
  <2> QED BY <2>2, <2>3, <2>4, <1>0
<1>2. ASSUME NEW r \in T, NEW t \in T, r.id > t.id
      PROVE  Place(T, r) < Place(T, t)
  <2>1. Above(T, r.id) \subseteq Above(T, t.id) /\ r \in Above(T, t.id) /\ r \notin Above(T, r.id)
    BY <1>2 DEF Above, Rows
  <2>2. /\ Cardinality(Above(T, r.id)) <= Cardinality(Above(T, t.id))
        /\ Cardinality(Above(T, r.id)) # Cardinality(Above(T, t.id))
    BY <2>1, <1>1, FS_Subset
  <2> QED BY <2>2, <1>1 DEF Place
<1>3. Place(T, a) \in 1..Cardinality(T)
  BY <1>0, <1>1 DEF Place
<1>4. Place(T, a) = Place(T, b) => a = b
  <2>1. CASE a.id = b.id BY <2>1 DEF Rows
  <2>2. CASE a.id > b.id
    <3>1. Place(T, a) < Place(T, b) BY <2>2, <1>2
    <3> QED BY <3>1, <1>1 DEF Place
  <2>3. CASE b.id > a.id
    <3>1. Place(T, b) < Place(T, a) BY <2>3, <1>2
    <3> QED BY <3>1, <1>1 DEF Place
  <2> QED BY <2>1, <2>2, <2>3 DEF Rows
<1> QED BY <1>2, <1>3, <1>4

(* In an order by id every row is at its place.                               *)
LEMMA OrderedInPlace ==
  ASSUME Distinguished, NEW T, Rows(T), NEW s \in Orderings(Descending, T), NEW i \in 1..Cardinality(T)
  PROVE  s[i] \in T /\ Place(T, s[i]) = i
<1> DEFINE n == Cardinality(T)
           before == 1..(i - 1)
           f == [j \in before |-> s[j]]
           higher == {s[j] : j \in before}
<1>1. /\ DOMAIN s = 1..n /\ ToSet(s) = T /\ \A j, k \in DOMAIN s : s[j] = s[k] => j = k
      /\ \A j, k \in DOMAIN s : Precedes(Descending, s[j], s[k]) => j < k
      /\ n \in Nat
  BY SeqsEach, FS_CardinalityType DEF Orderings, Rows
<1>2. \A j \in 1..n : s[j] \in T
  BY <1>1 DEF ToSet
<1>3. \A j, k \in 1..n : s[j].id > s[k].id => j < k
  BY <1>1, <1>2, PrecedesById DEF Rows
<1>4. before \subseteq 1..n BY <1>1
<1>5. \A j \in before : s[j].id > s[i].id
  <2> SUFFICES ASSUME NEW j \in before PROVE s[j].id > s[i].id
    OBVIOUS
  <2>1. j \in 1..n /\ i \in 1..n /\ j < i BY <1>1
  <2>2. s[j] \in T /\ s[i] \in T /\ s[j] # s[i] BY <2>1, <1>1, <1>2
  <2>3. s[j].id # s[i].id /\ s[j].id \in Int /\ s[i].id \in Int BY <2>2 DEF Rows
  <2>4. ~(s[i].id > s[j].id) BY <2>1, <1>3
  <2> QED BY <2>3, <2>4
<1>6. Above(T, s[i].id) = higher
  <2>1. \A j \in before : s[j] \in Above(T, s[i].id) BY <1>2, <1>4, <1>5 DEF Above
  <2>2. ASSUME NEW t \in Above(T, s[i].id)
        PROVE  t \in higher
    <3>1. t \in T /\ t.id > s[i].id BY DEF Above
    <3>2. PICK j \in 1..n : t = s[j] BY <3>1, <1>1 DEF ToSet
    <3>3. j < i BY <3>1, <3>2, <1>1, <1>3
    <3> QED BY <3>2, <3>3, <1>1
  <2> QED BY <2>1, <2>2
<1>7. f \in Bijection(before, higher)
  BY <1>1, <1>4 DEF Bijection, Injection, IsInjective, Surjection
<1>8. Cardinality(higher) = i - 1
  <2>1. i - 1 \in Nat BY <1>1
  <2>2. ExistsBijection(1..(i - 1), higher) BY <1>7 DEF ExistsBijection
  <2> HIDE DEF higher
  <2> QED BY <2>1, <2>2, FS_CountingElements
<1>9. Cardinality(Above(T, s[i].id)) = i - 1
  BY <1>6, <1>8
<1> QED BY <1>1, <1>2, <1>9 DEF Place

LEMMA SameFunction ==
  ASSUME NEW D, NEW R, NEW f \in [D -> R], NEW g \in [D -> R], \A x \in D : f[x] = g[x]
  PROVE  f = g
OBVIOUS

LEMMA OneOrdering ==
  ASSUME Distinguished, NEW T, Rows(T)
  PROVE  \E all \in SetToSeqs(T) : Orderings(Descending, T) = {all}
<1> DEFINE n == Cardinality(T)
           place == [r \in T |-> Place(T, r)]
           all == [i \in 1..n |-> CHOOSE r \in T : Place(T, r) = i]
<1>1. n \in Nat /\ IsFiniteSet(T) BY FS_CardinalityType DEF Rows
<1>2. place \in Injection(T, 1..n)
  BY PlacesDiffer DEF Injection, IsInjective
<1>3. IsFiniteSet(1..n) /\ Cardinality(1..n) = n BY <1>1, FS_Interval
<1>4. place \in Surjection(T, 1..n)
  BY <1>1, <1>2, <1>3, FS_Injection
<1>5. \A i \in 1..n : \E r \in T : Place(T, r) = i
  BY <1>4 DEF Surjection
<1>6. all \in [1..n -> T] /\ \A i \in 1..n : Place(T, all[i]) = i
  BY <1>5
<1> HIDE DEF all
<1>7. \A i, j \in 1..n : i # j => all[i] # all[j]
  BY <1>6
<1>8. all \in SetToSeqs(T)
  BY <1>6, <1>7 DEF SetToSeqs
<1>9. ASSUME NEW i \in DOMAIN all, NEW j \in DOMAIN all, Precedes(Descending, all[i], all[j])
      PROVE  i < j
  <2>1. i \in 1..n /\ j \in 1..n /\ all[i] \in T /\ all[j] \in T BY <1>6
  <2>2. all[i].id > all[j].id BY <2>1, <1>9, PrecedesById DEF Rows
  <2>3. Place(T, all[i]) < Place(T, all[j]) BY <2>1, <2>2, PlacesDiffer
  <2> QED BY <2>1, <2>3, <1>6
<1>10. all \in Orderings(Descending, T)
  BY <1>8, <1>9 DEF Orderings
<1>11. ASSUME NEW s \in Orderings(Descending, T)
       PROVE  s = all
  <2>1. s \in [1..n -> T] BY DEF Orderings, SetToSeqs
  <2>2. \A i \in 1..n : s[i] = all[i]
    <3> SUFFICES ASSUME NEW i \in 1..n PROVE s[i] = all[i]
      OBVIOUS
    <3>1. s[i] \in T /\ Place(T, s[i]) = i BY OrderedInPlace
    <3>2. all[i] \in T /\ Place(T, all[i]) = i BY <1>6
    <3> QED BY <3>1, <3>2, PlacesDiffer
  <2>3. all \in [1..n -> T] BY <1>6
  <2>4. \A D : s \in [D -> T] /\ all \in [D -> T] /\ (\A i \in D : s[i] = all[i]) => s = all
    BY SameFunction
  <2> QED BY <2>1, <2>2, <2>3, <2>4
<1> QED BY <1>8, <1>10, <1>11

(* What satisfies the recursion of FlattenSeq is what it computes.            *)
LEMMA FlattenIs ==
  ASSUME NEW ss, Len(ss) \in Nat \ {0}, NEW g,
         g = [i \in 1..Len(ss) |-> IF i = 1 THEN ss[i] ELSE g[i - 1] \o ss[i]]
  PROVE  FlattenSeq(ss) = g[Len(ss)]
<1> DEFINE n == Len(ss)
           Computes(h) == h = [i \in 1..n |-> IF i = 1 THEN ss[i] ELSE h[i - 1] \o ss[i]]
           flat == CHOOSE h : Computes(h)
<1>1. FlattenSeq(ss) = flat[n]
  BY DEF FlattenSeq
<1>2. Computes(g) OBVIOUS
<1>3. Computes(flat) BY <1>2
<1> HIDE DEF flat
<1> DEFINE Wrong == {i \in 1..n : flat[i] # g[i]}
<1>4. CASE Wrong # {}
  <2>1. Wrong \in SUBSET Nat OBVIOUS
  <2> HIDE DEF Wrong
  <2>2. PICK i \in Wrong : \A j \in Wrong : ~ (<<j, i>> \in OpToRel(<, Nat))
    BY <1>4, <2>1, WFMin, NatLessThanWellFounded
  <2>3. \A j \in Wrong : ~(j < i) BY <2>1, <2>2 DEF OpToRel
  <2>4. i \in 1..n /\ flat[i] # g[i] BY DEF Wrong
  <2>5. i # 1
    <3>1. ASSUME i = 1 PROVE flat[i] = ss[i] /\ g[i] = ss[i] BY <3>1, <1>2, <1>3, <2>4
    <3> QED BY <3>1, <2>4
  <2>6. i - 1 \in 1..n /\ i - 1 < i BY <2>4, <2>5
  <2>7. i - 1 \notin Wrong BY <2>3, <2>6
  <2>8. flat[i - 1] = g[i - 1] BY <2>6, <2>7 DEF Wrong
  <2>9. flat[i] = flat[i - 1] \o ss[i] BY <1>3, <2>4, <2>5
  <2>10. g[i] = g[i - 1] \o ss[i] BY <1>2, <2>4, <2>5
  <2> QED BY <2>4, <2>8, <2>9, <2>10
<1>5. CASE Wrong = {}
  <2>1. n \in 1..n OBVIOUS
  <2>2. flat[n] = g[n] BY <1>5, <2>1
  <2> QED BY <1>1, <2>2
<1> QED BY <1>4, <1>5
(* The pages of a sequence, the last one perhaps not full.                    *)
LEMMA LastPage ==
  ASSUME NEW total \in Nat, NEW size \in Nat \ {0}
  PROVE  /\ TotalPages(total, size) \in Nat
         /\ total <= TotalPages(total, size) * size
         /\ total # 0 => TotalPages(total, size) # 0 /\ (TotalPages(total, size) - 1) * size < total
         /\ total = 0 => TotalPages(total, size) = 0
<1> DEFINE last == TotalPages(total, size)
           left == (total + size - 1) % size
<1>1. last = (total + size - 1) \div size /\ last \in Nat
  BY DEF TotalPages
<1>2. total + size - 1 = size * last + left /\ left \in 0..(size - 1)
  BY <1>1
<1>3. size * last = last * size /\ (last - 1) * size = last * size - size
  BY <1>1
<1>4. last * size \in Nat
  BY <1>1
<1> HIDE DEF last, left
<1>5. total <= last * size
  BY <1>2, <1>3, <1>4
<1>6. (last - 1) * size < total
  BY <1>2, <1>3, <1>4
<1>7. ASSUME total = 0 PROVE last = 0
  <2>1. total + size - 1 < size BY <1>7
  <2> QED BY <1>1, <1>7, <2>1
<1>8. ASSUME total # 0 PROVE last # 0
  <2>1. last = 0 => last * size = 0 OBVIOUS
  <2> QED BY <1>5, <1>8, <2>1
<1> QED BY <1>1, <1>5, <1>6, <1>7, <1>8 DEF last

(* Pages of a sequence in a row are the sequence.                             *)
LEMMA PagesInARow ==
  ASSUME NEW S, NEW all \in Seq(S), NEW size \in Nat \ {0}, Distinguished, NEW pages,
         pages = [n \in 1..TotalPages(Len(all), size) |-> Slice(all, size, (n - 1) * size)]
  PROVE  FlattenSeq(pages) = all
<1> DEFINE total == Len(all)
           last == TotalPages(total, size)
           upto(n) == IF n = last THEN total ELSE n * size
           g == [n \in 1..last |-> SubSeq(all, 1, upto(n))]
<1>1. total \in Nat /\ DOMAIN all = 1..total OBVIOUS
<1>2. /\ last \in Nat /\ total <= last * size
      /\ total # 0 => last # 0 /\ (last - 1) * size < total
      /\ total = 0 => last = 0
  BY <1>1, LastPage
<1> HIDE DEF last
<1>3. Len(pages) = last /\ pages = [n \in 1..last |-> Slice(all, size, (n - 1) * size)]
  BY <1>2 DEF last
<1>4. CASE total = 0
  <2>1. all = << >> BY <1>4
  <2>2. pages = << >> BY <1>2, <1>3, <1>4
  <2> QED BY <2>1, <2>2, <1>2, <1>3, <1>4 DEF FlattenSeq
<1>5. CASE total # 0
  <2>1. last # 0 /\ (last - 1) * size < total BY <1>2, <1>5
  <2>2. ASSUME NEW n \in 1..last
        PROVE  /\ (n - 1) * size \in Nat /\ (n - 1) * size < total
               /\ n # last => (n - 1) * size + size = n * size /\ n * size < total /\ n * size \in Nat
               /\ n = last => total <= (n - 1) * size + size
    <3>1. ASSUME NEW m \in 0..(last - 1)
          PROVE  m * size \in Nat /\ m * size < total
      <4>1. last - 1 - m \in Nat /\ m \in Nat /\ last - 1 \in Nat BY <1>2, <2>1
      <4>2. (last - 1 - m) * size \in Nat /\ m * size \in Nat BY <4>1
      <4>3. (last - 1 - m) * size = (last - 1) * size - m * size BY <4>1
      <4>4. (last - 1) * size \in Nat BY <4>1
      <4> DEFINE a == m * size
                 b == (last - 1) * size
      <4>5. a \in Nat /\ b \in Nat /\ b - a \in Nat /\ b < total BY <4>2, <4>3, <4>4, <2>1
      <4> HIDE DEF a, b
      <4>6. a < total BY <4>5, <1>1
      <4> QED BY <4>5, <4>6 DEF a
    <3>2. n - 1 \in 0..(last - 1) /\ (n # last => n \in 0..(last - 1)) BY <1>2
    <3>3. (n - 1) * size + size = n * size BY <1>2
    <3> QED BY <3>1, <3>2, <3>3, <1>2
  <2>3. ASSUME NEW n \in 1..last
        PROVE  /\ upto(n) \in Nat /\ upto(n) <= total /\ (n - 1) * size < upto(n)
               /\ Slice(all, size, (n - 1) * size) = SubSeq(all, (n - 1) * size + 1, upto(n))
    <3> DEFINE from == (n - 1) * size
    <3>1. /\ from \in Nat /\ from < total
          /\ n # last => from + size = upto(n) /\ upto(n) < total /\ upto(n) \in Nat
          /\ n = last => total <= from + size /\ upto(n) = total
      BY <2>2
    <3> HIDE DEF from, upto
    <3>2. size # NoLimit BY DEF Distinguished
    <3>3. Min({total, from + size}) = IF total <= from + size THEN total ELSE from + size
      BY <3>1, <1>1, LeastOfTwo
    <3>4. Slice(all, size, from) = SubSeq(all, from + 1, IF total <= from + size THEN total ELSE from + size)
      BY <3>2, <3>3 DEF Slice
    <3>5. (IF total <= from + size THEN total ELSE from + size) = upto(n)
      BY <3>1, <1>1
    <3>6. upto(n) \in Nat /\ upto(n) <= total /\ from < upto(n)
      BY <3>1, <1>1
    <3> QED BY <3>4, <3>5, <3>6 DEF from
  <2> HIDE DEF upto
  <2>4. ASSUME NEW n \in 1..last
        PROVE  g[n] = IF n = 1 THEN pages[n] ELSE g[n - 1] \o pages[n]
    <3>1. CASE n = 1
      <4>1. (n - 1) * size + 1 = 1 BY <3>1
      <4>2. pages[n] = SubSeq(all, (n - 1) * size + 1, upto(n)) BY <2>3, <1>3
      <4>3. pages[n] = SubSeq(all, 1, upto(n)) BY <4>1, <4>2
      <4>4. g[n] = SubSeq(all, 1, upto(n)) OBVIOUS
      <4> QED BY <3>1, <4>3, <4>4
    <3>2. CASE n # 1
      <4>1. n - 1 \in 1..last /\ n - 1 # last BY <3>2, <1>2
      <4>2. upto(n - 1) = (n - 1) * size BY <4>1 DEF upto
      <4>3. /\ upto(n - 1) \in Nat /\ upto(n - 1) < upto(n) /\ upto(n) \in Nat /\ upto(n) <= total
            /\ pages[n] = SubSeq(all, upto(n - 1) + 1, upto(n))
        BY <4>1, <4>2, <2>3, <1>3
      <4>4. SubSeq(all, 1, upto(n - 1)) \o SubSeq(all, upto(n - 1) + 1, upto(n)) = SubSeq(all, 1, upto(n))
        <5> DEFINE k == upto(n - 1)
                   m == upto(n)
        <5>1. k \in Nat /\ m \in Nat /\ k < m /\ m <= total BY <4>3
        <5> HIDE DEF k, m
        <5>2. 1 \in 1..(Len(all) + 1) /\ k \in (1 - 1)..Len(all) /\ m \in k..Len(all)
          BY <5>1, <1>1
        <5>3. SubSeq(all, 1, k) \o SubSeq(all, k + 1, m) = SubSeq(all, 1, m)
          BY <5>2, ConcatAdjacentSubSeq
        <5> QED BY <5>3 DEF k, m
      <4> QED BY <3>2, <4>1, <4>3, <4>4
    <3> QED BY <3>1, <3>2
  <2>5. g = [n \in 1..last |-> IF n = 1 THEN pages[n] ELSE g[n - 1] \o pages[n]]
    BY <2>4
  <2>6. g[last] = SubSeq(all, 1, total)
    BY <1>2, <2>1 DEF upto
  <2>7. SubSeq(all, 1, total) = all
    OBVIOUS
  <2> HIDE DEF g
  <2>8. Len(pages) \in Nat \ {0} BY <1>2, <1>3, <2>1
  <2>9. FlattenSeq(pages) = g[Len(pages)]
    BY <1>3, <2>5, <2>8, FlattenIs
  <2> QED BY <2>6, <2>7, <2>9, <1>3
<1> QED BY <1>4, <1>5

(* The pages of a query sorted by id, in a row, are all of its rows.          *)
PagesFill(q, S, size) ==
  LET byId == [q EXCEPT !.order = <<[column |-> "id", desc |-> TRUE]>>]
      page(n) == CHOOSE s \in Fetched(Paged(byId, n, size), S) : TRUE
      pages == [n \in 1 .. TotalPages(CountOf(q, S), size) |-> page(n - 1)]
  IN FlattenSeq(pages) = CHOOSE s \in Fetched([byId EXCEPT !.limit = NoLimit, !.offset = 0], S) : TRUE

LEMMA PagesAgree ==
  ASSUME Distinguished, NEW q, IsQuery(q), NEW S, Rows(S), NEW size \in Nat \ {0}
  PROVE  PagesFill(q, S, size)
<1> DEFINE byId == [q EXCEPT !.order = <<[column |-> "id", desc |-> TRUE]>>]
           whole == [byId EXCEPT !.limit = NoLimit, !.offset = 0]
           M == Matching(q, S)
           page(n) == CHOOSE s \in Fetched(Paged(byId, n, size), S) : TRUE
           pages == [n \in 1 .. TotalPages(CountOf(q, S), size) |-> page(n - 1)]
           SameBut(p, limit, offset) ==
             p.any = q.any /\ p.filters = q.filters /\ p.order = Descending /\ p.limit = limit /\ p.offset = offset
<1>1. Rows(M) BY MatchingRows
<1>2. PICK all \in SetToSeqs(M) : Orderings(Descending, M) = {all} BY <1>1, OneOrdering
<1>3. all \in Seq(M) /\ Len(all) = CountOf(q, S) BY <1>1, SeqsEach DEF Rows, CountOf
<1>4. ASSUME NEW p, NEW limit, NEW offset, SameBut(p, limit, offset)
      PROVE  Fetched(p, S) = {Slice(all, limit, offset)}
  <2>1. Matching(p, S) = M BY <1>4 DEF Matching
  <2> HIDE DEF M
  <2> QED BY <2>1, <1>2, <1>4 DEF Fetched
<1>5. SameBut(whole, NoLimit, 0) /\ \A n : SameBut(Paged(byId, n, size), size, n * size)
  BY DEF IsQuery, Paged, Descending
<1> HIDE DEF SameBut, byId, whole
<1>6. \A n : page(n) = Slice(all, size, n * size)
  BY <1>4, <1>5
<1>7. (CHOOSE s \in Fetched(whole, S) : TRUE) = all
  <2>1. Fetched(whole, S) = {Slice(all, NoLimit, 0)} BY <1>4, <1>5
  <2> QED BY <2>1, <1>3, SliceWhole
<1>8. pages = [n \in 1..TotalPages(Len(all), size) |-> Slice(all, size, (n - 1) * size)]
  BY <1>3, <1>6
<1> HIDE DEF pages
<1>9. FlattenSeq(pages) = all
  BY <1>3, <1>8, PagesInARow
<1> QED BY <1>7, <1>9 DEF PagesFill, pages, byId, whole

LEMMA ReadsDoAgree ==
  ASSUME Distinguished, LookupInv
  PROVE  ReadsAgree
<1>1. IsQuery(lookup.find.query) /\ Rows(Owners)
  BY DEF LookupInv, Typed, IsFinder, IsDb, Owners
<1> DEFINE q == lookup.find.query
<1>2. \A size \in 1..2 : size \in Nat \ {0} OBVIOUS
<1>3. q.limit # 0 => (Exists(q, Owners) <=> \E s \in Fetched(q, Owners) : s # << >>)
  BY <1>1, ExistsAgrees
<1>4. \A s \in One(q, Owners) : s # << >> => \E t \in Fetched([q EXCEPT !.limit = NoLimit], Owners) : t[1] = s[1]
  BY <1>1, OneIsFirst
<1>5. /\ CountOf(q, Owners) = Cardinality(Owners) - Cardinality(Kept(q, Owners))
      /\ \A s \in Fetched(q, Owners) : q.limit = NoLimit /\ q.offset = 0 => Len(s) = CountOf(q, Owners)
  BY <1>1, CountsAgree
<1>6. \A size \in 1..2 : PagesFill(q, Owners, size)
  BY <1>1, <1>2, PagesAgree
<1> QED BY <1>3, <1>4, <1>5, <1>6 DEF ReadsAgree, PagesFill

LEMMA InvIsRight ==
  ASSUME Distinguished, LookupInv
  PROVE  ReadsAgree /\ RelationsAreRight
<1>1. EagerIsExact
  BY DEF EagerIsExact, LookupInv, Exact, Undisturbed, Settled, Loaded, ToSet, WantsThings
<1> QED BY <1>1, ReadsDoAgree DEF RelationsAreRight, LookupInv

LEMMA LookupStarts ==
  ASSUME Distinguished, NEW tables, \A base \in tables : IsDb(base), NEW finders, \A f \in finders : IsFinder(f),
         NEW wishes, LookupInit(tables, finders, wishes)
  PROVE  LookupInv
<1>1. PICK base \in tables, f \in finders, w \in wishes :
        lookup = [db |-> base, find |-> f, wish |-> w, todo |-> <<"core">>, records |-> << >>,
                  things |-> << >>, boss |-> << >>, nested |-> << >>, writes |-> 0]
  BY DEF LookupInit
<1>2. /\ lookup.db = base /\ lookup.find = f /\ lookup.todo = <<"core">> /\ lookup.records = << >>
      /\ lookup.things = << >> /\ lookup.boss = << >> /\ lookup.nested = << >> /\ lookup.writes = 0
      /\ LoadShape(lookup)
  BY <1>1 DEF LoadShape
<1>3. ToSet(lookup.records) = {} /\ RecordIds = {}
  BY <1>2 DEF RecordIds, ToSet, IdsOf
<1>4. Typed
  BY <1>2 DEF Typed, ToSet
<1>5. Filled /\ AsAsked /\ ChildrenAreOwn /\ Exact
  BY <1>2, <1>3 DEF Filled, Over, AsAsked, ChildrenAreOwn, Exact
<1> QED BY <1>4, <1>5 DEF LookupInv

(* The terminals of one query agree with each other in every state of every  *)
(* lookup: exists and first with fetch, count with delete and with fetch,     *)
(* the pages of a table with the table; a record carries its own children     *)
(* only, and all of them when nobody writes meanwhile. The tables, the        *)
(* queries, the relations asked for and the rows that other clients write are *)
(* any there are.                                                             *)
THEOREM LookupsSound ==
  ASSUME Distinguished, NEW CONSTANT tables, \A base \in tables : IsDb(base),
         NEW CONSTANT finders, \A f \in finders : IsFinder(f), NEW CONSTANT wishes,
         NEW CONSTANT owners, NEW CONSTANT things, \A n \in owners \cup things : n.id \in Int
  PROVE  LookupInit(tables, finders, wishes) /\ [][LookupNext(owners, things)]_lookup
           => [](ReadsAgree /\ RelationsAreRight)
<1>1. LookupInit(tables, finders, wishes) => LookupInv
  BY LookupStarts
<1>2. LookupInv /\ [LookupNext(owners, things)]_lookup => LookupInv'
  BY LookupSteps
<1>3. LookupInv => ReadsAgree /\ RelationsAreRight
  BY InvIsRight
<1> QED BY <1>1, <1>2, <1>3, PTL

-----------------------------------------------------------------------------
(* The schema registry: what ran is registered, each table under its name.    *)

RanOf(kind, e) == [kind |-> kind, of |-> e] \notin schemas.todo
SchemasInv ==
  /\ schemas = [declared |-> schemas.declared, registry |-> schemas.registry, todo |-> schemas.todo]
  /\ schemas.todo \subseteq {[kind |-> k, of |-> e] : k \in {"model", "relation"}, e \in schemas.declared}
  /\ \A e, f \in schemas.declared : e.table = f.table => e = f
  /\ \A t \in DOMAIN schemas.registry :
       schemas.registry[t] = [fields |-> schemas.registry[t].fields, relations |-> schemas.registry[t].relations]
  /\ \A e \in schemas.declared :
       /\ RanOf("model", e) => e.table \in DOMAIN schemas.registry /\ schemas.registry[e.table].fields = e.fields
       /\ RanOf("relation", e) =>
            e.table \in DOMAIN schemas.registry /\ e.relations \subseteq schemas.registry[e.table].relations

LEMMA SchemasSteps ==
  ASSUME SchemasInv, [RunCtor]_schemas
  PROVE  SchemasInv'
<1>1. CASE UNCHANGED schemas BY <1>1 DEF SchemasInv, RanOf
<1>2. CASE RunCtor
  <2>1. PICK c \in schemas.todo :
          schemas' = [schemas EXCEPT
            !.todo = @ \ {c},
            !.registry = IF c.kind = "model" THEN RegisterModel(@, c.of.table, c.of.fields)
                         ELSE AddRelations(@, c.of.table, c.of.relations)]
    BY <1>2 DEF RunCtor
  <2>2. c.of \in schemas.declared /\ c = [kind |-> c.kind, of |-> c.of] /\ c.kind \in {"model", "relation"}
    BY DEF SchemasInv
  <2> DEFINE registry == schemas.registry
             table == c.of.table
             was == EntryOf(registry, table)
             now == IF c.kind = "model" THEN [was EXCEPT !.fields = c.of.fields]
                    ELSE [was EXCEPT !.relations = @ \cup c.of.relations]
  <2>3. was = [fields |-> was.fields, relations |-> was.relations]
    <3>1. CASE table \in DOMAIN registry BY <3>1 DEF EntryOf, SchemasInv
    <3>2. CASE table \notin DOMAIN registry
      <4>1. was = [fields |-> {}, relations |-> {}] BY <3>2 DEF EntryOf
      <4> QED BY <4>1
    <3> QED BY <3>1, <3>2
  <2>4. /\ now = [fields |-> now.fields, relations |-> now.relations]
        /\ c.kind = "model" => now.fields = c.of.fields /\ now.relations = was.relations
        /\ c.kind = "relation" => now.fields = was.fields /\ now.relations = was.relations \cup c.of.relations
    BY <2>2, <2>3
  <2>5. /\ schemas' = [declared |-> schemas'.declared, registry |-> schemas'.registry, todo |-> schemas'.todo]
        /\ schemas'.declared = schemas.declared /\ schemas'.todo = schemas.todo \ {c}
        /\ schemas'.registry = Set(registry, table, now)
    BY <2>1, <2>2 DEF SchemasInv, RegisterModel, AddRelations
  <2> HIDE DEF now, was
  <2>6. /\ DOMAIN schemas'.registry = DOMAIN registry \cup {table}
        /\ schemas'.registry[table] = now
        /\ \A t \in DOMAIN registry : t # table => schemas'.registry[t] = registry[t]
        /\ table \in DOMAIN registry => was = registry[table]
    BY <2>5 DEF Set, was, EntryOf
  <2>7. ASSUME NEW e \in schemas.declared
        PROVE  /\ RanOf("model", e)' =>
                    e.table \in DOMAIN schemas'.registry /\ schemas'.registry[e.table].fields = e.fields
               /\ RanOf("relation", e)' =>
                    e.table \in DOMAIN schemas'.registry /\ e.relations \subseteq schemas'.registry[e.table].relations
    <3>1. ASSUME NEW k \in {"model", "relation"}
          PROVE  RanOf(k, e)' => RanOf(k, e) \/ (c.kind = k /\ c.of = e)
      BY <2>2, <2>5 DEF RanOf
    <3>2. CASE e.table = table
      <4>1. e = c.of BY <3>2, <2>2 DEF SchemasInv
      <4>2. \A k \in {"model", "relation"} : RanOf(k, e)' => RanOf(k, e) \/ c.kind = k BY <3>1
      <4> QED BY <4>1, <4>2, <2>2, <2>4, <2>6 DEF SchemasInv
    <3>3. CASE e.table # table
      <4>1. \A k \in {"model", "relation"} : RanOf(k, e)' => RanOf(k, e) BY <3>1, <3>3
      <4> QED BY <4>1, <3>3, <2>6 DEF SchemasInv
    <3> QED BY <3>2, <3>3
  <2>8. \A t \in DOMAIN schemas'.registry :
          schemas'.registry[t] = [fields |-> schemas'.registry[t].fields, relations |-> schemas'.registry[t].relations]
    BY <2>4, <2>6 DEF SchemasInv
  <2> QED BY <2>5, <2>7, <2>8 DEF SchemasInv
<1> QED BY <1>1, <1>2

(* Whatever order the ctor functions run in, every table ends with the        *)
(* fields of its model and all of its relations, for any set of entities      *)
(* with a table each.                                                         *)
THEOREM RegistrySound ==
  ASSUME NEW CONSTANT entities, \A e, f \in entities : e.table = f.table => e = f
  PROVE  SchemasInit(entities) /\ [][RunCtor]_schemas => []RegistryIsWhole
<1>1. SchemasInit(entities) => SchemasInv
  <2> SUFFICES ASSUME SchemasInit(entities) PROVE SchemasInv
    OBVIOUS
  <2>1. /\ schemas = [declared |-> schemas.declared, registry |-> schemas.registry, todo |-> schemas.todo]
        /\ schemas.declared = entities
        /\ schemas.registry = [t \in {} |-> {}]
        /\ schemas.todo = {[kind |-> k, of |-> e] : k \in {"model", "relation"}, e \in entities}
    BY DEF SchemasInit
  <2>2. \A e \in entities : \A k \in {"model", "relation"} : ~RanOf(k, e)
    BY <2>1 DEF RanOf
  <2> QED BY <2>1, <2>2 DEF SchemasInv
<1>2. SchemasInv /\ [RunCtor]_schemas => SchemasInv'
  BY SchemasSteps
<1>3. SchemasInv => RegistryIsWhole
  BY DEF SchemasInv, RegistryIsWhole, RanOf
<1> QED BY <1>1, <1>2, <1>3, PTL

(* Builders and registry together, whatever the tables, the queries and the   *)
(* entities are, and whatever is written and registered in between.           *)
THEOREM RepositorySound ==
  ASSUME Distinguished, NEW CONSTANT tables, \A base \in tables : IsDb(base),
         NEW CONSTANT finders, \A f \in finders : IsFinder(f), NEW CONSTANT wishes,
         NEW CONSTANT owners, NEW CONSTANT things, \A n \in owners \cup things : n.id \in Int,
         NEW CONSTANT entities, \A e, f \in entities : e.table = f.table => e = f
  PROVE  RecordsSpec(tables, finders, wishes, owners, things, entities) => []RecordsAreRight
<1>1. LookupInit(tables, finders, wishes) /\ [][LookupNext(owners, things)]_lookup
        => [](ReadsAgree /\ RelationsAreRight)
  BY LookupsSound
<1>2. SchemasInit(entities) /\ [][RunCtor]_schemas => []RegistryIsWhole
  BY RegistrySound
<1> QED BY <1>1, <1>2, PTL DEF RecordsSpec, RecordsAreRight
=============================================================================
