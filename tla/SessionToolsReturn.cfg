\* One target, two calls, a catalog that is revised and goes back.
SPECIFICATION ToolsSpec
CONSTANTS
  shop = shop
  Target = {shop}
  query = query
  update = update
  Name = {query}
  original = original
  revised = revised
  Decl = {original}
  Rev = {"r1", "r2"}
  MaxTools = 2
  MaxConflicts = 1
  c1 = c1
  c2 = c2
  Call = {c1, c2}
  Catalog <- SameTool
  Successors <- AnyOther
  MaxTurn = 1
  MaxChanges = 2
PROPERTIES LateRejectionSparesNewer
CHECK_DEADLOCK FALSE
