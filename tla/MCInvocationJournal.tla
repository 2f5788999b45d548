------------------------ MODULE MCInvocationJournal ------------------------
(* Small instances of InvocationJournal for TLC. *)
EXTENDS InvocationJournal, TLC

CONSTANT Done, Pending      \* outcomes besides Unknown

Symmetry ==
  Permutations(Process) \cup Permutations(Id) \cup Permutations(Binding)
    \cup Permutations({Done, Pending})
=============================================================================
