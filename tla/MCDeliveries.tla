--------------------------- MODULE MCDeliveries ---------------------------
(***************************************************************************)
(* TLC instance of the two delivery protocols of a session: artifacts      *)
(* (ArtifactDelivery) and context (ContextDelivery).  They share no state, *)
(* so that a behaviour of one leaves the other as it began: the initial    *)
(* state says which of them is at work.                                    *)
(***************************************************************************)
EXTENDS ArtifactDelivery, ContextDelivery, TLC

VARIABLE part  \* "artifacts" or "context"

NothingBefore == store = [record |-> NoMeta, repair |-> FALSE]

DInit ==
  /\ Init /\ ContextInit
  /\ part \in {"artifacts", "context"}
  /\ part = "context" => NothingBefore
  /\ part = "artifacts" => binding = CHOOSE b \in Binding : TRUE

DNext ==
  \/ part = "artifacts" /\ Next /\ UNCHANGED <<part, contextVars>>
  \/ part = "context" /\ ContextNext /\ UNCHANGED <<part, vars>>

DSpec == DInit /\ [][DNext]_<<part, vars, contextVars>>

Symmetry ==
  Permutations(Call) \cup Permutations(Content)

\* Both components keep their state in its type (lib/artifacts.js and
\* lib/context-delivery.js).
Types == TypeOK /\ ContextTypeOK
=============================================================================
