\* Two calls, a cache of one tool, catalogs that are revised twice and never go back:
\* one target for two turns with two tools, or two targets for one turn.
SPECIFICATION CasesSpec
CONSTANTS
  shop = shop
  depot = depot
  Target = {shop, depot}
  query = query
  update = update
  Name = {query, update}
  original = original
  revised = revised
  Decl = {original, revised}
  Rev = {"r1", "r2", "r3", "s1", "s2", "s3"}
  MaxTools = 1
  MaxConflicts = 1
  c1 = c1
  c2 = c2
  Call = {c1, c2}
  Catalog <- Catalogs
  Successors <- GrowingCatalogs
  MaxTurn = 2
  MaxChanges = 2
SYMMETRY Symmetry
INVARIANTS DispatchedAsPublished
PROPERTIES ConflictsStay PreparationNeverWrites LateRejectionSparesNewer
CHECK_DEADLOCK FALSE
