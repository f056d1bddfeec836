------------------------------- MODULE MCTick -------------------------------
(* Tick with four issues in pages of two, and a few trackers to begin with. *)
EXTENDS Tick

MCTexts == {"", "Todo", "todo", "In Progress", "in progress", "Done", "done", " ",
            "Auto ", "auto", "Ada", "ada", "blocks", "Blocks", "related"}
MCNormal == [t \in MCTexts |->
    CASE t \in {"Todo", "todo"} -> "todo"
      [] t \in {"In Progress", "in progress"} -> "in progress"
      [] t \in {"Done", "done"} -> "done"
      [] t \in {"", " "} -> ""
      [] t \in {"Auto ", "auto"} -> "auto"
      [] t \in {"Ada", "ada"} -> "ada"
      [] t \in {"Blocks", "blocks"} -> "blocks"
      [] OTHER -> t]

MCConfig == [active |-> {"Todo", "In Progress"}, terminal |-> {"Done"}, assignee |-> "ada",
             labels |-> {"auto"}, pageSize |-> 2, slots |-> 2,
             byState |-> [s \in {"in progress"} |-> 1]]

Plain == [titled |-> TRUE, state |-> "Todo", priority |-> Null, created |-> Null,
          assignee |-> "Ada", labels |-> {"Auto "}, relations |-> {}]
BlockedBy(i) == [Plain EXCEPT !.relations = {[type |-> "Blocks", issue |-> i],
                                             [type |-> "related", issue |-> 1]}]
Ranked(p, c) == [Plain EXCEPT !.priority = p, !.created = c]
At(s, n) == [n EXCEPT !.state = s]

MCTrackers == {
    \* Two of each state, with priorities against the order of the connection.
    <<Ranked(Null, 1), Ranked(3, 2), At("In Progress", Ranked(4, 2)), At("In Progress", Ranked(2, 3))>>,
    \* Equal priorities, a date that is missing, and a chain of blockers.
    <<Ranked(2, Null), Ranked(2, 1), BlockedBy(2), At("Done", BlockedBy(3))>>,
    \* A blocker nobody may see, and issues that are not for this worker.
    <<BlockedBy(Null), [Plain EXCEPT !.labels = {" "}], [Plain EXCEPT !.assignee = ""],
      At("In Progress", BlockedBy(1))>>,
    \* Most do not match when the fetch begins, one has no title.
    <<At("Done", Ranked(2, 1)), [Plain EXCEPT !.titled = FALSE], At("Done", Plain),
      At("Done", BlockedBy(1))>>}
=============================================================================
