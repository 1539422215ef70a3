\* The links of the grid of a repository whose table is called otherwise.
CONSTANTS
  Sessions = {1, 2}
  Supported = {"2025-06-18", "2024-11-05"}
  MaxOwed = 2
  GridColumns = {"name", "note"}
  RowsPerPage = 1
SPECIFICATION Spec
CHECK_DEADLOCK FALSE
INVARIANT
  LinksAreRoutes
