-------------------------- MODULE SessionToolCache --------------------------
(***************************************************************************)
(* The declarations of business tools that a session keeps from turn to    *)
(* turn (lib/session-tool-cache.js), as values and what an operation makes *)
(* of them.  All targets share the limit; the least recently used          *)
(* declaration goes first.  What a target's revision has contradicted is   *)
(* remembered, not the contradicting declarations.                         *)
(***************************************************************************)
EXTENDS Naturals, Sequences, FiniteSets, SequencesExt

CONSTANTS
  Target,       \* the authorizations of the session
  Name,         \* tool names
  Decl,         \* declarations a name may have
  Rev,          \* capability revisions
  MaxTools,     \* maxTools (and what maxBytes leaves room for)
  MaxConflicts  \* conflicting names of a revision that still fit

ASSUME MaxToolsIsPositive == MaxTools \in Nat \ {0}
ASSUME MaxConflictsIsNat == MaxConflicts \in Nat

Tool == [name : Name, decl : Decl]
Entry == [target : Target, name : Name, decl : Decl]

\* #targets: kept holds the entries, least recently used first.
Cache == [kept : {s \in Seq(Entry) : Len(s) <= MaxTools},
          of : [Target -> [rev : Rev \cup {"none"}, conflicts : SUBSET Name, quarantined : BOOLEAN]]]

Unknown == [rev |-> "none", conflicts |-> {}, quarantined |-> FALSE]
EmptyCache == [kept |-> <<>>, of |-> [t \in Target |-> Unknown]]

Entries(cache) == {cache.kept[i] : i \in DOMAIN cache.kept}

\* get(target).tools
ToolsOf(cache, t) == {[name |-> e.name, decl |-> e.decl] : e \in {x \in Entries(cache) : x.target = t}}

\* #trim
Trimmed(kept) == IF Len(kept) > MaxTools THEN SubSeq(kept, Len(kept) - MaxTools + 1, Len(kept)) ELSE kept

\* The kept entries that are in a set, in their order.
Only(kept, entries) == FoldLeft(LAMBDA s, e : IF e \in entries THEN Append(s, e) ELSE s, <<>>, kept)

Named(t, names) == [target : {t}, name : names, decl : Decl]
WithoutNames(kept, t, names) == Only(kept, Entry \ Named(t, names))

\* A revision that contradicts itself loses the name, and once its names no
\* longer fit every name.
Contradicted(cache, t, name) ==
  LET names == cache.of[t].conflicts \cup {name} IN
  IF Cardinality(names) > MaxConflicts
  THEN [kept |-> WithoutNames(cache.kept, t, Name),
        of |-> [cache.of EXCEPT ![t].conflicts = {}, ![t].quarantined = TRUE]]
  ELSE [kept |-> WithoutNames(cache.kept, t, {name}),
        of |-> [cache.of EXCEPT ![t].conflicts = names]]

\* merge, one declaration of the response
With(cache, t, tool) ==
  LET same == {x \in ToolsOf(cache, t) : x.name = tool.name} IN
  CASE cache.of[t].quarantined \/ tool.name \in cache.of[t].conflicts \/ tool \in same -> cache
    [] ~ cache.of[t].quarantined /\ tool.name \notin cache.of[t].conflicts /\ same = {} ->
         [cache EXCEPT !.kept = Trimmed(Append(@, [target |-> t, name |-> tool.name, decl |-> tool.decl]))]
    [] OTHER -> Contradicted(cache, t, tool.name)

\* merge, before the declarations: another revision starts from nothing
Current(cache, t, rev) ==
  IF cache.of[t].rev = rev THEN cache
  ELSE [kept |-> WithoutNames(cache.kept, t, Name), of |-> [cache.of EXCEPT ![t] = [Unknown EXCEPT !.rev = rev]]]

\* merge of a response, in its order
Merge(cache, t, rev, tools) ==
  FoldLeft(LAMBDA c, tool : With(c, t, tool), Current(cache, t, rev), tools)

Touch(cache, t, name) ==
  [cache EXCEPT !.kept = WithoutNames(@, t, {name}) \o Only(@, Named(t, {name}))]

\* A search's tools are used, in the order of the response.
TouchAll(cache, t, tools) ==
  FoldLeft(LAMBDA c, tool : IF tool \in ToolsOf(c, t) THEN Touch(c, t, tool.name) ELSE c, cache, tools)

\* a faulty Invalidated: forgets the conflicts too
InvalidatedEntirely(cache, t) ==
  [kept |-> WithoutNames(cache.kept, t, Name), of |-> [cache.of EXCEPT ![t].conflicts = {}]]
\* invalidate: the declarations go, the conflicts stay
Invalidated(cache, t) == [cache EXCEPT !.kept = WithoutNames(@, t, Name)]
=============================================================================
