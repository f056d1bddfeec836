--------------------------- MODULE MCOrchestrator ---------------------------
(* Values for the constants of Orchestrator. *)
EXTENDS Orchestrator

CONSTANTS i1, i2

MCStates == {"todo", "doing", "done", "backlog"}

Limits(todo, other) == [s \in MCStates |-> IF s = "todo" THEN todo ELSE other]

\* Two slots, one of them for todo; stalls are detected.
Wide == [max |-> 2, limit |-> Limits(1, 2), active |-> {"todo", "doing"},
         terminal |-> {"done"}, stall |-> TRUE, labels |-> FALSE]
\* A reload that takes a slot and an active state away.
Narrow == [max |-> 1, limit |-> Limits(1, 1), active |-> {"doing"},
           terminal |-> {"done"}, stall |-> FALSE, labels |-> FALSE]
\* Required labels are configured.
Labelled == [Wide EXCEPT !.labels = TRUE, !.stall = FALSE]

\* One active state and one terminal state, to explore the channel instead.
FewStates == {"doing", "done"}
Plain == [max |-> 2, limit |-> [s \in FewStates |-> 2], active |-> {"doing"},
          terminal |-> {"done"}, stall |-> TRUE, labels |-> FALSE]
PlainOnly == {Plain}

WideOnly == {Wide}
WideAndNarrow == {Wide, Narrow}
LabelledOnly == {Labelled}

OneIssue == {i1}
TwoIssues == {i1, i2}
IssueSymmetry == Permutations(TwoIssues)

=============================================================================
