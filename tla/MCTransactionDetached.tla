----------------------- MODULE MCTransactionDetached -----------------------
(* A small instance of Transaction in which a body hands its connection to  *)
(* a task of its own.                                                       *)
EXTENDS Transaction
CONSTANTS r1, r2
=============================================================================
