---------------------------- MODULE MCMcpSession ----------------------------
(* Small instances of McpSession: in one part three clients contend for the *)
(* table and nobody posts, in the other two of them do.                     *)
EXTENDS McpSession

VARIABLE part
MCInit == Init /\ part \in {"table", "streams"}
MCNext ==
  /\ Next
  /\ UNCHANGED part
  /\ IF part = "table" THEN post' = post ELSE pc'[3] = "idle"

MCSpec == MCInit /\ [][MCNext]_<<vars, part>> /\ Fairness
=============================================================================
