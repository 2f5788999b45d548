\* One target with one tool, two calls, two turns, one revision of the catalog.
SPECIFICATION ToolsSpec
CONSTANTS
  shop = shop
  Target = {shop}
  query = query
  update = update
  Name = {query}
  original = original
  revised = revised
  Decl = {original, revised}
  Rev = {"r1", "r2"}
  MaxTools = 2
  MaxConflicts = 1
  c1 = c1
  c2 = c2
  Call = {c1, c2}
  Catalog <- OneTool
  Successors <- AnyOther
  MaxTurn = 2
  MaxChanges = 1
INVARIANTS PreparationOnlyBefore
CHECK_DEADLOCK FALSE
