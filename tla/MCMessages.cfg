\* Messages of a few pieces, two MCP sessions, a grid of up to seven pages.
CONSTANTS
  Sessions = {1, 2}
  Supported = {"2025-06-18", "2024-11-05"}
  MaxOwed = 2
  GridColumns = {"name", "note"}
  RowsPerPage = 1
SPECIFICATION Spec
CHECK_DEADLOCK FALSE
INVARIANTS
  MessagesAreSound
  ExchangeIsSound
  ArgumentsAreSound
  GridIsFaithful
