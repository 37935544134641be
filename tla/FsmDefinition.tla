---------------------------- MODULE FsmDefinition ----------------------------
(***************************************************************************)
(* How a textual definition becomes a transition graph.  The repository    *)
(* reads the same text in two places that share no code: the parsers of    *)
(* finitomata/src/parser/ and those of the #[finitomata] attribute in      *)
(* finitomata_macro/src/parser.rs, each for Mermaid and for PlantUML.  The *)
(* macro then validates what it has read and generates build_graph.  Here  *)
(* one text is fed, line by line, to the parser of the crate and to that   *)
(* of the macro.                                                           *)
(*                                                                         *)
(* A line is what the parsers tell apart: whether it is skipped, whether   *)
(* it has an arrow, where the label stands, and the words around these.    *)
(* Separators stand between blanks.                                        *)
(***************************************************************************)
EXTENDS Naturals, Sequences, FiniteSets

CONSTANTS
    Words,        \* what may stand between the separators of a line
    Identifiers,  \* the words is_valid_identifier accepts
    HeaderWords,  \* words that begin like a header: graph.., hide.., skin..
    AfterState,   \* the words that begin with `state `, and the next word of each
    Star,         \* the word `[*]`
    Empty,        \* the empty word
    Arrow,        \* the word `-->`
    Terminal,     \* the word `__terminal__`, to which `a --> [*] : e` leads
    Variant,      \* to_pascal_case: the enum variant of an identifier
    Lines,        \* the lines a text may consist of
    MaxLines,     \* bound on the length of a text
    None          \* Option::None

Kind == {"Normal", "Hard", "Soft"}

\* The forms of a line: one that is skipped (empty, comment, header); one
\* without an arrow; `state "label" as name`, the first word of the label in
\* `to` and the name in `from`; and `from --> |event| to`,
\* `from --> to : event`, `from --> to`.  The event is
\* what classify_event leaves of the label, the kind what it makes of its suffix.
Form == {"skip", "junk", "declare", "pipe", "colon", "bare"}
Line == [form : Form, from : Words, to : Words, event : Words, kind : Kind]

\* All that stands behind the arrow, taken as one word.
Rest(l) == IF l.form = "bare" THEN l.to ELSE <<l.form, l.to, l.event, l.kind>>

ASSUME DefinitionAssumption ==
    /\ Lines \subseteq Line
    /\ {Star, Empty, Arrow} \subseteq Words /\ Star # Empty
    /\ Identifiers \subseteq Words \ {Star, Empty, Arrow}
    /\ DOMAIN AfterState \subseteq Words \ {Star, Empty}
    /\ \A w \in DOMAIN AfterState : AfterState[w] \in Words
    /\ None \notin Words
    /\ \A l \in Lines : l.form # "bare" => Rest(l) \notin Words \cup {None}
    /\ DOMAIN Variant = Identifiers
    /\ MaxLines \in Nat

VARIABLES
    syntax,   \* the syntax the text is read in
    lines,    \* how many lines have been read
    runtime,  \* the locals of the crate's parser, then the ParsedFsm it returns
    macro,    \* the same of the macro's parser
    graph     \* what build_graph returns, None if the macro generates nothing

vars == <<syntax, lines, runtime, macro, graph>>

\* What a state may be called before the names are checked.
Names == Words \cup {Terminal} \cup {Rest(l) : l \in Lines}

Status == {"reading", "syntax", "no_initial", "empty", "invalid", "ok"}

\* ParsedTransition and ParsedFsm, the latter with the outcome of the parser.
ParsedTransition == [from : Names, to : Names, event : Words, kind : Kind]

ParsedFsm == [status : Status, initial : Names \cup {None}, finals : SUBSET Names,
              transitions : Seq(ParsedTransition), states : SUBSET Names]

Init ==
    /\ syntax \in {"mermaid", "plantuml"}
    /\ lines = 0
    /\ runtime = [status |-> "reading", initial |-> None, finals |-> {},
                  transitions |-> <<>>, states |-> {}]
    /\ macro = runtime
    /\ graph = None

-----------------------------------------------------------------------------
(* What a line does to a parser p. *)

Fail(p) == [p EXCEPT !.status = "syntax"]

Declare(p, s) == [p EXCEPT !.states = @ \cup {s}]

EnterUnlisted(p, s) ==  \* the initial state not entered among the states
    [p EXCEPT !.initial = IF @ = None THEN s ELSE @]

\* `[*] --> s`: the first one names the initial state.
Enter(p, s) ==
    [p EXCEPT !.initial = IF @ = None THEN s ELSE @, !.states = @ \cup {s}]

\* `s --> [*]`
Leave(p, s) == [p EXCEPT !.finals = @ \cup {s}, !.states = @ \cup {s}]

Connect(p, l, to) ==
    [p EXCEPT !.transitions =
        Append(@, [from |-> l.from, to |-> to, event |-> l.event, kind |-> l.kind])]

\* A line with a label, by its ends.
Labelled(p, l) ==
    CASE l.from = Star -> Enter(p, l.to)
      [] l.from # Star /\ l.to = Star -> Connect(Leave(p, l.from), l, Terminal)
      [] OTHER -> Connect(Declare(Declare(p, l.from), l.to), l, l.to)

\* The label is empty; `!` alone is not.
Blank(l) == l.event = Empty /\ l.kind = "Normal"

HasArrow(l) == l.form \in {"pipe", "colon", "bare"}

Skipped(l) == l.form = "skip" \/ (HasArrow(l) /\ l.from \in HeaderWords)

\* A PlantUML line that starts with `state `, also one with an arrow; and the
\* word behind it, the arrow itself in `state --> s`.
IsDeclaration(l) == l.form = "declare" \/ (HasArrow(l) /\ l.from \in DOMAIN AfterState)

Declared(l) == IF l.form = "declare" THEN l.to ELSE AfterState[l.from]

\* parse_flowchart_line, then parse_state_diagram_line if that has not
\* understood the line.  The former takes an unlabelled `[*] --> ..` to the
\* end of the line, so that it never leaves `[*] --> s : e` to the latter.
RuntimeMermaid(p, l) ==
    CASE l.form = "pipe" /\ ~Blank(l) /\ l.to # Empty -> Labelled(p, l)
      [] HasArrow(l) /\ ~(l.form = "pipe" /\ ~Blank(l) /\ l.to # Empty)
           /\ l.from = Star /\ Rest(l) # Empty -> Enter(p, Rest(l))
      [] HasArrow(l) /\ l.from # Star /\ Rest(l) = Star -> Leave(p, l.from)
      [] l.form = "colon" /\ l.from # Star /\ ~Blank(l) /\ l.to # Empty -> Labelled(p, l)
      [] OTHER -> Fail(p)

\* What is no transition for parse_plantuml_transition is tried as a
\* declaration.  A colon is looked for first; a label is optional at `[*]`.
RuntimePlantUml(p, l) ==
    CASE l.form = "colon" /\ l.to # Empty /\ (l.from = Star \/ ~Blank(l)) -> Labelled(p, l)
      [] l.form = "colon" /\ l.from # Star /\ l.to = Star /\ Blank(l) -> Leave(p, l.from)
      [] l.form \in {"pipe", "bare"} /\ l.from = Star /\ Rest(l) # Empty -> Enter(p, Rest(l))
      [] l.form \in {"pipe", "bare"} /\ l.from \notin {Star, Empty} /\ Rest(l) = Star
           -> Leave(p, l.from)
      [] OTHER -> IF IsDeclaration(l) THEN Declare(p, Declared(l)) ELSE Fail(p)

MacroMermaidDropsLabel(p, l) ==  \* a label on the way to `[*]` is ignored
    CASE HasArrow(l) /\ l.from # Star /\ l.to = Star -> Leave(p, l.from)
      [] l.form \in {"pipe", "colon"} /\ (l.from = Star \/ l.to # Star) -> Labelled(p, l)
      [] l.form = "bare" /\ l.from = Star /\ l.to # Empty -> Enter(p, l.to)
      [] OTHER -> Fail(p)

\* parse_mermaid of the macro: empty words pass, for the validation to refuse.
MacroMermaid(p, l) ==
    CASE l.form \in {"pipe", "colon"} -> Labelled(p, l)
      [] l.form = "bare" /\ l.from = Star /\ l.to # Empty -> Enter(p, l.to)
      [] l.form = "bare" /\ l.from # Star /\ l.to = Star -> Leave(p, l.from)
      [] OTHER -> Fail(p)

\* parse_plantuml of the macro: what starts with `state` is skipped.
MacroPlantUml(p, l) ==
    CASE IsDeclaration(l) -> p
      [] ~IsDeclaration(l) /\ l.form = "colon" -> Labelled(p, l)
      [] ~IsDeclaration(l) /\ l.form \in {"pipe", "bare"} /\ l.from = Star /\ Rest(l) # Empty
           -> Enter(p, Rest(l))
      [] ~IsDeclaration(l) /\ l.form \in {"pipe", "bare"} /\ l.from # Star /\ Rest(l) = Star
           -> Leave(p, l.from)
      [] OTHER -> Fail(p)

RuntimeLine(p, l) ==
    IF Skipped(l) THEN p
    ELSE IF syntax = "mermaid" THEN RuntimeMermaid(p, l) ELSE RuntimePlantUml(p, l)

MacroLine(p, l) ==
    IF Skipped(l) THEN p
    ELSE IF syntax = "mermaid" THEN MacroMermaid(p, l) ELSE MacroPlantUml(p, l)

-----------------------------------------------------------------------------
(* The end of the text: the verdicts, and what the macro generates. *)

\* reachable_from of the macro: the search of GraphReach, which does not
\* follow a transition to Terminal.
Closed(p, C) ==
    \A i \in DOMAIN p.transitions :
        LET t == p.transitions[i]
        IN  t.from \in C /\ t.to # Terminal => t.to \in C

Reachable(p) ==
    {s \in p.states : \A C \in SUBSET p.states : p.initial \in C /\ Closed(p, C) => s \in C}

ValidWithTwins(p) ==  \* two transitions of one state with one event pass
    /\ p.initial # Empty /\ p.finals # {}
    /\ p.states \subseteq Reachable(p) \cup {p.initial}
    /\ \A i \in DOMAIN p.transitions : p.transitions[i].event \in Identifiers
    /\ p.states \subseteq Identifiers

\* validate of the macro.
Valid(p) ==
    /\ p.initial # Empty /\ p.finals # {}
    /\ p.states \subseteq Reachable(p) \cup {p.initial}
    /\ \A i, j \in DOMAIN p.transitions :
          /\ p.transitions[i].from = p.transitions[j].from
          /\ p.transitions[i].event = p.transitions[j].event
          => i = j
    /\ \A i \in DOMAIN p.transitions : p.transitions[i].event \in Identifiers
    /\ p.states \subseteq Identifiers

\* The compiler refuses two enum variants of one name, and the empty match that
\* is generated for an FSM without events.
Compiles(p) ==
    /\ \A s, t \in p.states : Variant[s] = Variant[t] => s = t
    /\ \A i, j \in DOMAIN p.transitions :
          Variant[p.transitions[i].event] = Variant[p.transitions[j].event]
            => p.transitions[i].event = p.transitions[j].event
    /\ p.transitions # <<>>

\* build_graph.  A transition to Terminal leads back to its source.
Generated(p) ==
    [initial |-> Variant[p.initial],
     finals |-> {Variant[s] : s \in p.finals},
     transitions |-> [i \in DOMAIN p.transitions |->
        LET t == p.transitions[i]
        IN  [from |-> Variant[t.from],
             to |-> {Variant[IF t.to = Terminal THEN t.from ELSE t.to]},
             event |-> Variant[t.event],
             kind |-> t.kind]]]

RuntimeVerdict(p) ==
    IF p.initial = None THEN "no_initial"
    ELSE IF p.transitions = <<>> /\ Cardinality(p.states) <= 1 THEN "empty"
    ELSE "ok"

MacroVerdict(p) ==
    IF p.initial = None THEN "no_initial" ELSE IF Valid(p) THEN "ok" ELSE "invalid"

InText == "reading" \in {runtime.status, macro.status}

\* One more line, for each parser that has not given up.
ReadLine(l) ==
    /\ InText
    /\ lines < MaxLines
    /\ lines' = lines + 1
    /\ runtime' = IF runtime.status = "reading" THEN RuntimeLine(runtime, l) ELSE runtime
    /\ macro' = IF macro.status = "reading" THEN MacroLine(macro, l) ELSE macro
    /\ UNCHANGED <<syntax, graph>>

EndOfText ==
    /\ InText
    /\ runtime' = IF runtime.status = "reading"
                   THEN [runtime EXCEPT !.status = RuntimeVerdict(runtime)] ELSE runtime
    /\ macro' = IF macro.status = "reading"
                 THEN [macro EXCEPT !.status = MacroVerdict(macro)] ELSE macro
    /\ graph' = IF macro.status = "reading" /\ MacroVerdict(macro) = "ok" /\ Compiles(macro)
                 THEN Generated(macro) ELSE None
    /\ UNCHANGED <<syntax, lines>>

Next == EndOfText \/ \E l \in Lines : ReadLine(l)

Spec == Init /\ [][Next]_vars

-----------------------------------------------------------------------------

\* What either parser holds is closed: initial and final states and the ends
\* of every transition are among the states.
Consistent(p) ==
    /\ p \in ParsedFsm
    /\ p.initial \in p.states \cup {None}
    /\ p.finals \subseteq p.states
    /\ \A i \in DOMAIN p.transitions :
          /\ p.transitions[i].from \in p.states
          /\ p.transitions[i].to \in p.states \cup {Terminal}

\* Every variable has its type, and both definitions are closed.
TypeOK ==
    /\ syntax \in {"mermaid", "plantuml"}
    /\ lines \in 0..MaxLines
    /\ Consistent(runtime) /\ Consistent(macro)

\* A PlantUML transition of a state whose name begins with the word `state`:
\* the crate's parser reads the line, and the macro's skips it.
StateIsState == syntax = "plantuml" /\ runtime.states \cap DOMAIN AfterState # {}

\* What the crate's parser may call a state that the macro's calls s: in
\* Mermaid the label of a line `[*] --> s : e` becomes part of the name.
StartNames(syn, s) ==
    {s} \cup {Rest(l) : l \in {k \in Lines : syn = "mermaid" /\ k.from = Star /\ k.to = s}}

\* What the crate's parser takes from the declarations of PlantUML, and the
\* macro does not.
DeclaredNames(syn) ==
    {Declared(l) : l \in {k \in Lines : syn = "plantuml" /\ IsDeclaration(k)}}

\* The names by which the crate's parser may list states that the macro
\* lists as S, or does not list.
Explained(syn, S) ==
    {n \in Names : n \in DeclaredNames(syn) \/ \E s \in S : n \in StartNames(syn, s)}

\* How far the two parsers agree (parser/mermaid.rs and parser/plantuml.rs
\* against the macro's parser.rs).  A text that the macro accepts is never an
\* error to the crate's parser, unless as a definition without a transition;
\* both have read the same final states and the same transitions, in the same
\* order.  Two disagreements are left, and they reach no further: the crate's
\* Mermaid parser may call the initial state by the line that names it, and
\* its PlantUML parser has states that only declarations name.  It lacks no
\* other state, and has no other.  A PlantUML state whose name begins with the
\* word `state` is excepted.
SameReading ==
    macro.status = "ok" =>
        /\ runtime.status = "ok" \/ (runtime.status = "empty" /\ macro.transitions = <<>>)
        /\ ~StateIsState =>
             /\ runtime.initial \in StartNames(syntax, macro.initial)
             /\ runtime.finals = macro.finals
             /\ runtime.transitions = macro.transitions
             /\ macro.states \ {macro.initial} \subseteq runtime.states
             /\ runtime.states \subseteq Explained(syntax, macro.states)

\* all_states of the generated graph, and what its reachable_from may reach.
GraphStates ==
    {graph.initial} \cup graph.finals
      \cup UNION {{graph.transitions[i].from} \cup graph.transitions[i].to :
                     i \in DOMAIN graph.transitions}

\* The graph of an accepted definition (codegen.rs, build_graph) passes the
\* validation at run time, TransitionGraph::validate: the detour through
\* Terminal and the renaming lose no state.  It mentions every variant of the
\* generated enum, and its `allowed` has one candidate for a state and an event.
GraphSound ==
    graph # None =>
        /\ graph.finals # {}
        /\ GraphStates = {Variant[s] : s \in macro.states}
        /\ \A C \in SUBSET GraphStates :
              /\ graph.initial \in C
              /\ \A i \in DOMAIN graph.transitions :
                    graph.transitions[i].from \in C => graph.transitions[i].to \subseteq C
              => C = GraphStates
        /\ \A i, j \in DOMAIN graph.transitions :
              /\ graph.transitions[i].from = graph.transitions[j].from
              /\ graph.transitions[i].event = graph.transitions[j].event
              => i = j

=============================================================================
