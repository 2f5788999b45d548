--------------------------- MODULE MCSessionTools ---------------------------
(* Catalogs for the TLC instances of SessionTools *)
EXTENDS SessionTools, TLC

CONSTANTS shop, query, update, original, revised

\* Two revisions of a tool.
OneTool == ("r1" :> (query :> {original})) @@ ("r2" :> (query :> {revised}))
\* A declaration that no revision changes.
SameTool == [r \in Rev |-> query :> {original}]

\* A revision is what the catalog has, and may be had again; or a number that grows.
AnyOther == [r \in Rev |-> Rev \ {r}]
Growing == "r1" :> {"r2", "r3"} @@ "r2" :> {"r3"} @@ "r3" :> {}
=============================================================================
