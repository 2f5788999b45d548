------------------------ MODULE MCSessionToolsCases ------------------------
(***************************************************************************)
(* The instance of SessionTools that the run checks, in two cases: the     *)
(* shop alone for several turns, with two tools and a revision that        *)
(* contradicts itself, or both targets for one turn, with one tool each.   *)
(* The initial state says which; revisions never return.                   *)
(***************************************************************************)
EXTENDS MCSessionTools

CONSTANT depot

VARIABLE both

\* The revisions of the shop alone, and those of both.
Alone == {"r1", "r2", "r3"}
Shared == {"s1", "s2", "s3"}

Catalogs ==
  ("r1" :> (query :> {original} @@ update :> {revised})) @@
  ("r2" :> (query :> {original, revised} @@ update :> {revised})) @@
  ("r3" :> (query :> {revised} @@ update :> {revised})) @@
  [r \in Shared |-> query :> {original} @@ update :> {}]

GrowingCatalogs == Growing @@ "s1" :> {"s2", "s3"} @@ "s2" :> {"s3"} @@ "s3" :> {}

\* The hypothesis of LateRejectionSparesNewerHolds (ScopeAndToolsProofs).
ASSUME RevisionsNeverReturn == NeverReturns

CasesInit ==
  /\ ToolsInit /\ both \in BOOLEAN
  /\ \/ both /\ \A t \in Target : revision[t] = "s1"
     \/ ~ both /\ revision[shop] \in Alone /\ revision[depot] = "s3"

CasesNext ==
  /\ ToolsNext
  /\ IF both THEN turn' = turn
     ELSE revision'[depot] = revision[depot] /\ \A c \in Call : call'[c].target # depot
  /\ UNCHANGED both

CasesSpec == CasesInit /\ [][CasesNext]_<<both, toolsVars>>

Symmetry == Permutations(Call)
=============================================================================
