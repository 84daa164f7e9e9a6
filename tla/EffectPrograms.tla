--------------------------- MODULE EffectPrograms ---------------------------
(***************************************************************************)
(* Inputs of the effect inference: packages of three functions, in which f *)
(* and g may call each other and k.                                        *)
(***************************************************************************)
EXTENDS Sequences

Text(own, calls) == [own |-> own, calls |-> calls, broken |-> FALSE]
Broken == [own |-> {}, calls |-> {}, broken |-> TRUE]

Rows == {{}, {"e"}}
Sound ==
    [f \in {"f", "g", "k"} |->
        CASE f = "f" -> {Text(own, calls): own \in Rows, calls \in {{}, {"g"}}}
          [] f = "g" -> {Text({}, calls): calls \in {{"f"}, {"f", "k"}}}
          [] f = "k" -> {Text(own, calls): own \in Rows, calls \in {{}, {"g"}}}]
AnyStart == {b \in [{"f", "g", "k"} -> UNION {Sound[f]: f \in {"f", "g", "k"}}]:
                b["g"].calls = {"f"} /\ \A f \in {"f", "g", "k"}: b[f] \in Sound[f]}

\* f and g call each other; one of them may break.
DeclaredTexts ==
    [f \in {"f", "g", "k"} |->
        CASE f = "f" -> {Text({}, {"g", "k"}), Text({"e"}, {"g"}), Broken}
          [] f = "g" -> {Text({}, {"f"}), Text({}, {"f", "k"})}
          [] f = "k" -> {Text({"e"}, {}), Text({}, {})}]
DeclaredStart ==
    {[f |-> f, g |-> g, k |-> k]:
        f \in DeclaredTexts["f"], g \in DeclaredTexts["g"], k \in DeclaredTexts["k"]}

\* f and g call each other, f calls k; both break and come back while k loses
\* its effect.
CycleTexts ==
    [f \in {"f", "g", "k"} |->
        CASE f = "f" -> {Text({}, {"g", "k"}), Broken}
          [] f = "g" -> {Text({}, {"f"}), Broken}
          [] f = "k" -> {Text({"e"}, {}), Text({}, {})}]
CycleStart == {[f |-> Text({}, {"g", "k"}), g |-> Text({}, {"f"}), k |-> Text({"e"}, {})]}

ExplicitG == [g |-> {}]
=============================================================================
