--------------------------- MODULE TaskSelection ---------------------------
(***************************************************************************)
(* A task is selected for the session (setSessionTaskBinding of            *)
(* lib/runtime.js, set of lib/session-task.js) while turns are started.    *)
(* Selections wait in the queue in which the starts ask for the binding    *)
(* they send; SessionTask has what a selection does when its time comes.   *)
(***************************************************************************)
EXTENDS TurnRuntime

VARIABLES
  selection,  \* the call of setSessionTaskBinding
  bound,      \* sessionTasks.entry(id).record is there
  managed     \* turns whose run has a taskBinding

taskVars == <<selection, bound, managed>>

Selection == [kind |-> "selection", by |-> None]

TInit == Init /\ selection = "none" /\ bound = FALSE /\ managed = {}

\* The check that no run exists is made at once, the selection is queued.  Runs
\* that ended may have an id, so none may be there.
Select ==
  /\ selection = "none" /\ ~ disposed
  /\ bound \/ \A t \in Turn : runs[t] \notin OfRun \cup {"ended"}
  /\ selection' = "queued"
  /\ queue' = Append(queue, Selection)
  /\ UNCHANGED <<claims, scope, asm, start, runs, current, tools, info, completion, host, bound, managed>>

\* The record is there, or was saved; or the selection failed.
Selected ==
  /\ selection = "queued" /\ AtHead(Selection) /\ GateOpen
  /\ selection' = "none" /\ queue' = Tail(queue)
  /\ bound' \in {bound, TRUE}
  /\ UNCHANGED <<claims, scope, asm, start, runs, current, tools, info, completion, host, managed>>

\* A start takes the binding along that it finds.
Starts ==
  /\ Next
  /\ managed' = managed \cup {t \in Turn : bound /\ start[t] = "binding" /\ start'[t] = "negotiate"}
  /\ UNCHANGED <<selection, bound>>

TNext == Starts \/ Select \/ Selected

TSpec == TInit /\ [][TNext]_<<vars, taskVars>>

\* "A Session that already has an unmanaged business run cannot be bound midway"
\* (docs/TASK_CONTROL.md): a bound session has no run without the binding.
NoUnmanagedRunIsBound == bound => \A t \in Turn : runs[t] \in OfRun => t \in managed
============================================================================
