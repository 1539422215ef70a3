----------------------------- MODULE MCRequests -----------------------------
(* The server that runs the requests, and the transactions they open: one   *)
(* of the two moves in a behaviour and the other keeps still, so that one   *)
(* run explores both.                                                       *)
EXTENDS HttpServer, Transaction
CONSTANTS c1, c2, r1, r2

VARIABLE part
parts == <<part, serverVars, txnVars>>

Init ==
  /\ part \in {"server", "txn"}
  /\ ServerInit
  /\ TxnStart(IF part = "txn" THEN "body" ELSE "done")

(* The server stops in the end.                                             *)
Next ==
  /\ UNCHANGED part
  /\ \/ part = "server" /\ ServerNext /\ UNCHANGED txnVars
     \/ part = "txn" /\ TxnNext /\ UNCHANGED serverVars
     \/ part = "server" /\ UNCHANGED parts

(* A server nobody connects to and requests that are over have nothing to do. *)
Spec == Init /\ [][Next]_parts /\ ServerFairness /\ TxnFairness
=============================================================================
