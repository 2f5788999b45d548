------------------------ MODULE MCConversationOutbox ------------------------
(* TLC instances of ConversationOutbox *)
EXTENDS ConversationOutbox, TLC

Calm == [steers |-> FALSE, cancels |-> FALSE, unopened |-> FALSE, storeFaults |-> FALSE, netFaults |-> FALSE,
         hosts |-> 1, events |-> 5, queue |-> 2, revision |-> 2, crashes |-> 0]

\* One host in which anything may fail, and two that share the conversation.
Faulty == [Calm EXCEPT !.cancels = TRUE, !.unopened = TRUE, !.storeFaults = TRUE, !.netFaults = TRUE,
                       !.events = 3]
Shared == [Calm EXCEPT !.storeFaults = TRUE, !.netFaults = TRUE, !.hosts = 2,
                       !.events = 2, !.queue = 1, !.crashes = 1]
FaultyOrShared == {Faulty, Shared}

\* A user who steers the turn, and a host that dies.
Steered == {[Calm EXCEPT !.steers = TRUE, !.crashes = 1]}

\* A turn that is cancelled while it starts.
Cancelled == {[Calm EXCEPT !.cancels = TRUE, !.events = 6, !.queue = 3]}

Symmetry == Permutations(Host) \cup Permutations(Turn)
=============================================================================
