-------------------------- MODULE MCFsmDefinition --------------------------
(***************************************************************************)
(* Two states and one called `state`, the words `state a` before an arrow, *)
(* a name that begins like a header, a word that is no identifier,         *)
(* `__terminal__` written by hand, two events of one variant; and every    *)
(* form of line with its label and its ends present, absent and malformed. *)
(***************************************************************************)
EXTENDS FsmDefinition, TLC

CONSTANTS a, b, state, stateA, graphs, dash, e, f

MCWords == {a, b, state, stateA, graphs, dash, e, f, Star, Empty, Arrow, Terminal}
MCIdentifiers == {a, b, state, graphs, e, f, Terminal}

\* `state --> ..` and `state a --> ..`.
MCAfterState == (state :> Arrow) @@ (stateA :> a)

\* The two events differ as words and not as variants.
MCVariant == [w \in MCIdentifiers |-> IF w = f THEN e ELSE w]

\* A line of the given form; words it does not have are Empty.
Text(form, from, to, event, kind) ==
    [form |-> form, from |-> from, to |-> to, event |-> event, kind |-> kind]

MCLines ==
    {Text(g, Empty, Empty, Empty, "Normal") : g \in {"skip", "junk"}}
      \cup {Text("declare", v, w, Empty, "Normal") : v \in {a}, w \in {a, dash}}
      \cup {Text("bare", v, w, Empty, "Normal") : v \in {Star, Empty}, w \in {Star, Empty, a, b}}
      \cup {Text("bare", v, Star, Empty, "Normal") : v \in {a, b, state, stateA, graphs}}
      \cup {Text(g, v, w, e, "Normal") : g \in {"pipe", "colon"}, v \in {a, b, state},
                                        w \in {Star, a, b}}
      \cup {Text("colon", a, state, e, "Normal"), Text("pipe", a, b, e, "Hard"),
            Text("pipe", a, b, Empty, "Hard"), Text("colon", a, dash, e, "Normal"),
            Text("pipe", graphs, b, e, "Normal"), Text("colon", b, Star, f, "Normal"),
            Text("bare", Star, Terminal, Empty, "Normal"),
            Text("colon", a, Terminal, e, "Normal"), Text("colon", Terminal, Star, e, "Normal")}
      \cup {Text(g, v, w, x, "Normal") : g \in {"pipe", "colon"}, v \in {Star},
                                        w \in {Empty, b}, x \in {Empty, e}}
      \cup {Text(g, a, w, Empty, "Normal") : g \in {"pipe", "colon"}, w \in {b, Star}}
=============================================================================
