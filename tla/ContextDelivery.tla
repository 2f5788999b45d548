-------------------------- MODULE ContextDelivery --------------------------
(***************************************************************************)
(* Whether a preparation may leave out the context that the model has      *)
(* been given already (lib/context-delivery.js, and confirmContextDelivery *)
(* of lib/runtime.js).  Every assembly is a delivery of its own; the host  *)
(* confirms that the final request to the provider held it unaltered.      *)
(* Between the host's call and the confirmation stand requests to the hub, *)
(* during which anything else may happen, the session's end and reopening  *)
(* too.  Everything else is one step.                                      *)
(***************************************************************************)
EXTENDS Naturals, Sequences

CONSTANTS
  Confirmation,  \* confirmations that may be under way at once
  Request,       \* request ids of the host
  Binding,       \* values of contextDeliveryBinding
  NoBinding,     \* nothing is active, or the scope is being validated
  MaxDeliveries, \* bound: deliveries staged
  MaxOther,      \* bound: other changes of the entry
  MaxReopens     \* bound: how often the session is closed and opened again

ASSUME ContextBoundsAreNat == MaxDeliveries \in Nat /\ MaxOther \in Nat /\ MaxReopens \in Nat

Delivery == 1..MaxDeliveries      \* delivery_id: random, never drawn twice
Generation == 0..(MaxDeliveries + MaxOther)
None == 0

VARIABLES
  binding,     \* what contextDeliveryBinding gives
  entry,       \* entries.get(sessionId)
  confirming,  \* the confirmations under way
  lives,       \* the session's states so far (statesBySessionId)
  staged,      \* the deliveries staged so far, by their generation
  others,      \* bounds Invalidate
  truth,       \* history: the latest delivery, what for, and the requests that held it, complete
  omitted      \* history: the request that the last projection referred to, if it omitted

contextVars == <<binding, entry, confirming, lives, staged, others, truth, omitted>>

NoEntry == [generation |-> 0, id |-> None, binding |-> NoBinding, over |-> FALSE,
            dead |-> FALSE, confirmed |-> "none"]
NoInput == [id |-> None, generation |-> 0, request |-> "none", exact |-> FALSE]
NotConfirming == [input |-> NoInput, before |-> NoBinding, life |-> 0]

ContextTypeOK ==
  /\ binding \in Binding \cup {NoBinding}
  /\ entry \in [generation : Generation, id : Delivery \cup {None}, binding : Binding \cup {NoBinding},
                over : BOOLEAN, dead : BOOLEAN, confirmed : Request \cup {"none"}]
  /\ confirming \in [Confirmation ->
       [input : [id : Delivery \cup {None}, generation : Generation, request : Request \cup {"none"}, exact : BOOLEAN],
        before : Binding \cup {NoBinding}, life : 0..(MaxReopens + 1)]]
  /\ lives \in 1..(MaxReopens + 1) /\ staged \in Seq(Generation) /\ others \in 0..MaxOther
  /\ truth \in [id : Delivery \cup {None}, binding : Binding \cup {NoBinding}, held : SUBSET Request]
  /\ omitted \in [id : Delivery \cup {None}, request : Request \cup {"none"}]

NothingStaged == [id |-> None, binding |-> NoBinding, held |-> {}]
NothingOmitted == [id |-> None, request |-> "none"]

ContextInit ==
  /\ binding \in Binding
  /\ entry = NoEntry
  /\ confirming = [c \in Confirmation |-> NotConfirming]
  /\ lives = 1 /\ staged = <<>> /\ others = 0
  /\ truth = NothingStaged
  /\ omitted = NothingOmitted

-----------------------------------------------------------------------------
(* ContextDeliveryCoordinator *)

\* current gives the entry; without one it revokes what it finds changed.
Usable(b) == entry.id # None /\ ~ entry.dead /\ b # NoBinding /\ entry.binding = b /\ ~ entry.over

Revoked == IF entry.id = None THEN entry ELSE [entry EXCEPT !.dead = TRUE, !.confirmed = "none"]

\* a faulty Renewed: what was confirmed stays so
RenewedAsConfirmed(b) ==
  [generation |-> entry.generation + 1, id |-> Len(staged) + 1, binding |-> b, over |-> FALSE,
   dead |-> FALSE, confirmed |-> entry.confirmed]
\* the entry that stage makes of an assembly
Renewed(b) ==
  [generation |-> entry.generation + 1, id |-> Len(staged) + 1, binding |-> b, over |-> FALSE,
   dead |-> FALSE, confirmed |-> "none"]

\* the entry that invalidate leaves
Reset == [NoEntry EXCEPT !.generation = entry.generation + 1]

\* The input names the delivery that is staged.
Names(input) == input.id = entry.id /\ input.generation = entry.generation

\* what confirm makes of the entry that the input names
Confirmed(input) ==
  IF input.exact /\ entry.confirmed \in {"none", input.request}
  THEN [entry EXCEPT !.confirmed = input.request]
  ELSE Revoked

\* onAssemble with an active run: stage
Stage ==
  /\ binding # NoBinding /\ Len(staged) < MaxDeliveries
  /\ entry' = Renewed(binding)
  /\ staged' = Append(staged, entry.generation + 1)
  /\ truth' = [id |-> Len(staged) + 1, binding |-> binding, held |-> {}]
  /\ omitted' = NothingOmitted
  /\ UNCHANGED <<binding, confirming, lives, others>>

\* onAssemble without an active run, and invalidateContextDelivery
Invalidate ==
  /\ others < MaxOther /\ others' = others + 1
  /\ entry' = Reset
  /\ truth' = NothingStaged
  /\ omitted' = NothingOmitted
  /\ UNCHANGED <<binding, confirming, lives, staged>>

\* projection, in a preparation of tools
Project ==
  /\ IF Usable(binding)
     THEN /\ omitted' = IF entry.confirmed = "none" THEN NothingOmitted
                        ELSE [id |-> entry.id, request |-> entry.confirmed]
          /\ UNCHANGED entry
     ELSE omitted' = NothingOmitted /\ entry' = Revoked
  /\ UNCHANGED <<binding, confirming, lives, staged, others, truth>>

-----------------------------------------------------------------------------
(* confirmContextDelivery *)

BindingOf(c) == IF confirming[c].life = lives THEN binding ELSE NoBinding

\* The host reports a final request: of this delivery or of an earlier one,
\* with every fragment as it was, or not.
Report(c, id, request, exact) ==
  /\ confirming[c] = NotConfirming /\ binding # NoBinding
  /\ confirming' = [confirming EXCEPT ![c] =
       [input |-> [id |-> id, generation |-> staged[id], request |-> request, exact |-> exact],
        before |-> binding, life |-> lives]]
  /\ truth' = IF id = truth.id /\ exact THEN [truth EXCEPT !.held = @ \cup {request}] ELSE truth
  /\ UNCHANGED <<binding, entry, lives, staged, others, omitted>>

\* The scope and every authorization are good: if nothing has changed meanwhile,
\* confirm.
Verified(c) ==
  /\ confirming[c] # NotConfirming
  /\ entry' = CASE BindingOf(c) # confirming[c].before -> entry
                [] BindingOf(c) = confirming[c].before /\ ~ Usable(binding) -> Revoked
                [] BindingOf(c) = confirming[c].before /\ Usable(binding) /\ Names(confirming[c].input) ->
                     Confirmed(confirming[c].input)
                [] OTHER -> entry
  /\ confirming' = [confirming EXCEPT ![c] = NotConfirming]
  /\ UNCHANGED <<binding, lives, staged, others, truth, omitted>>

\* a faulty Unverified: knows the delivery by its generation
UnverifiedByGeneration(c) ==
  /\ confirming[c] # NotConfirming
  /\ entry' = IF confirming[c].input.generation = entry.generation THEN Reset ELSE entry
  /\ confirming' = [confirming EXCEPT ![c] = NotConfirming]
  /\ UNCHANGED <<binding, lives, staged, others, truth, omitted>>
\* One of them is not, or could not be asked: invalidateConfirmation.
Unverified(c) ==
  /\ confirming[c] # NotConfirming
  /\ others < MaxOther /\ others' = others + 1
  /\ entry' = IF Names(confirming[c].input) THEN Reset ELSE entry
  /\ confirming' = [confirming EXCEPT ![c] = NotConfirming]
  /\ UNCHANGED <<binding, lives, staged, truth, omitted>>

-----------------------------------------------------------------------------
(* The turn, the scope and the time *)

\* A run, a revision, the scope or the turn changes, is lost, or is there again.
BindingChanges ==
  /\ binding' \in (Binding \cup {NoBinding}) \ {binding}
  /\ omitted' = NothingOmitted
  /\ UNCHANGED <<entry, confirming, lives, staged, others, truth>>

Expires ==
  /\ entry.id # None /\ entry' = [entry EXCEPT !.over = TRUE]
  /\ omitted' = NothingOmitted
  /\ UNCHANGED <<binding, confirming, lives, staged, others, truth>>

\* disposeState: forget.  The session may be opened again.
Reopen ==
  /\ lives <= MaxReopens /\ lives' = lives + 1
  /\ entry' = NoEntry
  /\ truth' = NothingStaged
  /\ omitted' = NothingOmitted
  /\ UNCHANGED <<binding, confirming, staged, others>>

ContextNext ==
  \/ Stage \/ Invalidate \/ Project
  \/ \E c \in Confirmation :
       \/ \E id \in DOMAIN staged, request \in Request, exact \in BOOLEAN :
            Report(c, id, request, exact)
       \/ Verified(c) \/ Unverified(c)
  \/ BindingChanges \/ Expires \/ Reopen

ContextSpec == ContextInit /\ [][ContextNext]_contextVars

-----------------------------------------------------------------------------
(* Properties *)

\* The context is left out only of preparations after a request of the host that
\* held exactly the latest assembly's: no earlier assembly, no altered fragment
\* and no confirmation that other requests were waiting for counts
\* (docs/CONTEXT_DELIVERY.md, "Each assembly creates a new generation").
OmittedWasDelivered ==
  omitted.id # None =>
    omitted.id = truth.id /\ truth.binding = binding /\ omitted.request \in truth.held

\* A confirmation that comes late, and one whose authorization could not be
\* verified, leaves the delivery of a newer assembly as it is, unless its binding
\* is found changed or its time over ("must not clear a newer assembly's
\* independent confirmation").
LateLeavesNewer ==
  [][ \A c \in Confirmation :
        /\ confirming[c] # NotConfirming /\ confirming'[c] = NotConfirming
        /\ confirming[c].input.id # entry.id /\ Usable(binding)
        => entry' = entry ]_contextVars
=============================================================================
