------------------------------- MODULE Prompt -------------------------------
(***************************************************************************)
(* Prompt templates (internal/prompt): the check for unknown variables     *)
(* that Render makes before it hands a template to the Liquid engine, and  *)
(* what the engine then does with the names.                               *)
(*                                                                         *)
(* A template is the sequence of its tags; of a tag only its kind, the     *)
(* names it reads and the name it binds are kept, and no text.             *)
(***************************************************************************)
EXTENDS Naturals, Sequences, SequencesExt

\* Tags: {{ }} is "output"; a range (1..n) has its end in "ends".
Tag(kind, binds, reads, ends) == [kind |-> kind, binds |-> binds, reads |-> reads, ends |-> ends]
Output(reads) == Tag("output", "", reads, {})
Opening(kind) == Tag(kind, "", {}, {})

Bindings == {"issue", "attempt"}
Binders == {"for", "assign", "capture"}
LiquidKeywords ==
    {"limit", "offset", "range", "cols", "with", "as", "empty", "blank", "by",
     "true", "false", "nil", "null", "and", "or", "not", "contains", "reversed", "in"}
\* Tags whose bodies are no expressions, endings among them.
NonExpr ==
    {"endif", "endfor", "endcapture", "comment", "endcomment", "raw", "endraw",
     "else", "break", "continue", "increment", "decrement"}

\* Of a template, that only a tag with an expression reads names.
IsTemplate(t) ==
    /\ t \in Seq([kind : STRING, binds : STRING, reads : SUBSET STRING, ends : SUBSET STRING])
    /\ \A k \in DOMAIN t : t[k].kind \in NonExpr \cup {"capture"} => t[k].reads = {}

\* Locals count as known wherever they stand, in comments too.
Locals(template) == {template[k].binds : k \in {k \in DOMAIN template : template[k].kind \in Binders}}
LoopObjects == {"forloop", "tablerowloop"}
Known(template) == LoopObjects \cup Bindings \cup Locals(template)

BugVariableRoots(tag) ==
    IF tag.kind \in NonExpr \cup Binders THEN {} ELSE tag.reads \ LiquidKeywords
\* The end of a range follows a dot, and is taken for a property.
VariableRoots(tag) ==
    IF tag.kind \in NonExpr \cup {"capture"} THEN {} ELSE tag.reads \ LiquidKeywords
UnknownVariables(template) ==
    (UNION {VariableRoots(template[k]) : k \in DOMAIN template}) \ Known(template)

-----------------------------------------------------------------------------
(* The engine *)

\* "if" stands for unless and case too, "for" for tablerow.
Blocks == {"if", "for", "capture"}
Verbatim == {"comment", "raw"}

\* Blocks that are open after a tag; "?" once an ending does not fit.
Nesting(open, tag) ==
    LET top == IF open = <<>> THEN "" ELSE open[Len(open)] IN
    IF top \in Verbatim THEN IF tag.kind = "end" \o top THEN Front(open) ELSE open
    ELSE IF tag.kind \in Blocks \cup Verbatim THEN Append(open, tag.kind)
    ELSE IF tag.kind \in {"end" \o b : b \in Blocks \cup Verbatim}
         THEN IF tag.kind = "end" \o top THEN Front(open) ELSE Append(open, "?")
    ELSE open
Parses(template) == FoldLeft(Nesting, <<>>, template) = <<>>

\* What a tag does to the names in scope, the innermost loop last, when the
\* bodies of loops and conditions are evaluated or not.
Evaluated(st, tag, bodies) ==
    LET open == Nesting(st.open, tag)
        names == st.bound \cup UNION {st.loops[k] : k \in DOMAIN st.loops}
        skipped == \E k \in DOMAIN st.open :
                     st.open[k] \in Verbatim \/ (~bodies /\ st.open[k] \in {"if", "for"})
    IN  IF skipped THEN [st EXCEPT !.open = open]
        ELSE [open |-> open,
              bound |-> st.bound \cup IF tag.kind \in {"assign", "capture"} THEN {tag.binds} ELSE {},
              loops |-> CASE tag.kind = "for" -> Append(st.loops, {tag.binds} \cup LoopObjects)
                          [] tag.kind = "endfor" -> Front(st.loops)
                          [] OTHER -> st.loops,
              unbound |-> st.unbound \cup ((tag.reads \cup tag.ends) \ names)]

\* The names that are read without a value: engine.Render shows them as nothing.
ReadsUnbound(template, bodies) ==
    FoldLeft(LAMBDA st, tag : Evaluated(st, tag, bodies),
             [open |-> <<>>, bound |-> Bindings, loops |-> <<>>, unbound |-> {}], template).unbound

-----------------------------------------------------------------------------
DefaultPrompt == <<>>
\* Render fails for an unknown variable before the template is parsed.
Renders(template) == UnknownVariables(template) = {} /\ Parses(template)
=============================================================================
