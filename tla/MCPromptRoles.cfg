\* One call, not privileged, and one prompt behind a role.
CONSTANTS
  call1 = call1
  tool = tool
  Calls = {call1}
  Tools = {tool}
  Resources = {}
  Prompts = {"greeting"}
  Gated = {"greeting"}
  Unknown = "-"
  Schemas = {}
  Messages <- MCMessages
  Privileged = {}
  Operators = {}
  MaxSlots = 1
  Capacity = 1
SPECIFICATION EngineSpec
CHECK_DEADLOCK FALSE
INVARIANT RolesEnforced
