----------------------------- MODULE MCSettings -----------------------------
(* Settings with workflow files that differ where the code decides something. *)
EXTENDS Settings

MCTexts == {"", " ", "linear", "jira", "$KEY", "$UNSET", "secret", "slug", "claude -p", "fast",
            "deep", "high", "HIGH", "silly", "7", "seven", "Todo", "todo", "Review", "review"}
MCNormal == [t \in MCTexts |->
    CASE t = " " -> "" [] t = "HIGH" -> "high" [] t = "Todo" -> "todo" [] t = "Review" -> "review"
      [] OTHER -> t]
MCNumeral == [t \in {"7"} |-> 7]
MCEnv == [t \in {"$KEY", "$UNSET"} |-> IF t = "$KEY" THEN "secret" ELSE ""]

Plain == <<Output({"issue", "attempt"})>>
Loop == <<Tag("for", "label", {"issue"}, {}), Output({"label", "issue"}), Opening("endfor")>>
Assigned == <<Opening("if"), Tag("assign", "n", {"issue"}, {}), Opening("endif"), Output({"n"})>>
LoopObject == <<Tag("for", "label", {"issue"}, {}), Output({"forloop"}), Opening("endfor"),
                Output({"forloop", "label"})>>
OutOfScope == Append(Loop, Output({"label"}))
Unknown == <<Opening("if"), Output({"count"}), Opening("endif")>>
UnknownInLoop == <<Tag("for", "label", {"labels"}, {}), Output({"label"}), Opening("endfor")>>
InComment == <<Opening("comment"), Output({"count"}), Opening("endcomment")>>
Keyword == <<Output({"limit"})>>
InRange == <<Tag("for", "k", {}, {"count"}), Output({"k"}), Opening("endfor")>>
Unclosed == <<Opening("if"), Output({"issue"})>>

Entry == [map |-> TRUE, model |-> Nil, effort |-> Nil, maxTurns |-> Nil, prompt |-> FALSE]
Nothing == [k \in {} |-> Nil]
Base == [yaml |-> "map", body |-> Plain, kind |-> Str("linear"), apiKey |-> Str("$KEY"),
         slug |-> Str("slug"), command |-> Nil, model |-> Str("fast"), effort |-> Nil,
         hookTimeout |-> Nil, maxTurns |-> Nil, maxBackoff |-> Nil, interval |-> Nil, slots |-> Nil,
         byState |-> Nothing, states |-> Nothing]
Fraction == [kind |-> "fraction", n |-> 0, s |-> ""]

MCFiles == {
    \* Overrides for one state, spelled in one way, in two, and not as a map.
    [Base EXCEPT !.states = [k \in {"Review"} |-> [Entry EXCEPT !.prompt = TRUE, !.effort = Str("HIGH")]],
                 !.byState = [k \in {"Todo", "todo"} |-> IF k = "Todo" THEN Num(0) ELSE Str("7")]],
    [Base EXCEPT !.states = [k \in {"Todo", "todo"} |->
                    IF k = "Todo" THEN [Entry EXCEPT !.model = Str("deep"), !.maxTurns = Num(1)]
                    ELSE [Entry EXCEPT !.prompt = TRUE, !.maxTurns = Num(-1)]],
                 !.maxBackoff = Num(40000), !.slots = Str("7")],
    [Base EXCEPT !.states = [k \in {"review"} |-> [Entry EXCEPT !.map = FALSE, !.prompt = TRUE]],
                 !.maxTurns = Str("7"), !.maxBackoff = Num(-5), !.interval = Fraction],
    \* Files that are refused.
    [Base EXCEPT !.yaml = "broken"], [Base EXCEPT !.apiKey = Str("$UNSET")],
    [Base EXCEPT !.kind = Str("jira")], [Base EXCEPT !.hookTimeout = Num(-1)],
    [Base EXCEPT !.maxTurns = Num(0)], [Base EXCEPT !.effort = Str("silly")],
    \* Templates.
    [Base EXCEPT !.body = <<>>, !.maxBackoff = Str("seven"), !.command = Str(" ")],
    [Base EXCEPT !.body = Loop, !.hookTimeout = Str(" ")], [Base EXCEPT !.body = Assigned],
    [Base EXCEPT !.body = OutOfScope], [Base EXCEPT !.body = LoopObject], [Base EXCEPT !.body = Unknown],
    [Base EXCEPT !.body = UnknownInLoop], [Base EXCEPT !.body = InComment],
    [Base EXCEPT !.body = Keyword], [Base EXCEPT !.body = InRange], [Base EXCEPT !.body = Unclosed]}

Readable(t) == [readable |-> TRUE, body |-> t]
MCContents == {Unreadable, Readable(<<>>), Readable(Loop), Readable(Unknown)}
=============================================================================
