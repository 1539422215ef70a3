--------------------------- MODULE MCEarlyAnswers ---------------------------
(* One client that posts as soon as it knows its session.                  *)
EXTENDS McpSession
=============================================================================
