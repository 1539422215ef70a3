--------------------------- MODULE MCPromptRoles ---------------------------
(* One call without the role that the only prompt asks for.                *)
EXTENDS McpEngine
CONSTANTS call1, tool

MCMessages == [method : {"prompts/get"}, target : Prompts, notif : {FALSE}]
=============================================================================
