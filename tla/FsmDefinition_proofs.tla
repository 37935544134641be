------------------------ MODULE FsmDefinition_proofs ------------------------
(***************************************************************************)
(* Proofs about FsmDefinition, for every set of words and every text.      *)
(*                                                                         *)
(* Consistent says that what a parser holds is closed; it is inductive by  *)
(* itself.  That the two parsers agree needs Alike, which speaks of a text *)
(* that is still being read: as long as the macro has read nothing that    *)
(* its validation will refuse, the other parser has not failed and holds   *)
(* the same final states and transitions.  That it lacks no state of the   *)
(* macro's is known only at the end of the text: every state but the       *)
(* initial one is then reachable, hence the target of a transition.        *)
(***************************************************************************)
EXTENDS FsmDefinition, TLAPS

-----------------------------------------------------------------------------
(* What the effects of a line do to the parts of a definition. *)

\* Every effect keeps p a definition and touches the parts it names.
LEMMA FailFacts ==
    ASSUME NEW p, Consistent(p)
    PROVE  /\ Consistent(Fail(p))
           /\ Fail(p).status = "syntax"
  BY DEF Consistent, ParsedFsm, Fail, Status

LEMMA DeclareFacts ==
    ASSUME NEW p, Consistent(p), NEW s \in Names
    PROVE  /\ Consistent(Declare(p, s))
           /\ Declare(p, s).status = p.status
           /\ Declare(p, s).initial = p.initial
           /\ Declare(p, s).finals = p.finals
           /\ Declare(p, s).transitions = p.transitions
           /\ Declare(p, s).states = p.states \cup {s}
  BY DEF Consistent, ParsedFsm, Declare

LEMMA EnterFacts ==
    ASSUME NEW p, Consistent(p), NEW s \in Names
    PROVE  /\ Consistent(Enter(p, s))
           /\ Enter(p, s).status = p.status
           /\ Enter(p, s).initial = IF p.initial = None THEN s ELSE p.initial
           /\ Enter(p, s).finals = p.finals
           /\ Enter(p, s).transitions = p.transitions
           /\ Enter(p, s).states = p.states \cup {s}
  BY DEF Consistent, ParsedFsm, Enter

LEMMA LeaveFacts ==
    ASSUME NEW p, Consistent(p), NEW s \in Names
    PROVE  /\ Consistent(Leave(p, s))
           /\ Leave(p, s).status = p.status
           /\ Leave(p, s).initial = p.initial
           /\ Leave(p, s).finals = p.finals \cup {s}
           /\ Leave(p, s).transitions = p.transitions
           /\ Leave(p, s).states = p.states \cup {s}
  BY DEF Consistent, ParsedFsm, Leave

LEMMA LineType ==
    ASSUME NEW l \in Lines
    PROVE  /\ l.form \in Form /\ l.kind \in Kind
           /\ l.from \in Words /\ l.to \in Words /\ l.event \in Words
           /\ l.from \in Names /\ l.to \in Names /\ Rest(l) \in Names
           /\ l.form = "bare" => Rest(l) = l.to
           /\ l.form # "bare" => Rest(l) \notin Words
  BY DefinitionAssumption DEF Line, Names, Rest

LEMMA DeclaredType ==
    ASSUME NEW l \in Lines, IsDeclaration(l)
    PROVE  Declared(l) \in Names
  BY LineType, DefinitionAssumption DEF IsDeclaration, Declared, Names

\* The transition a line stands for.
Arc(l, to) == [from |-> l.from, to |-> to, event |-> l.event, kind |-> l.kind]

LEMMA ConnectFacts ==
    ASSUME NEW p, Consistent(p), NEW l \in Lines, NEW to \in p.states \cup {Terminal},
           l.from \in p.states
    PROVE  /\ Consistent(Connect(p, l, to))
           /\ Connect(p, l, to).status = p.status
           /\ Connect(p, l, to).initial = p.initial
           /\ Connect(p, l, to).finals = p.finals
           /\ Connect(p, l, to).transitions = Append(p.transitions, Arc(l, to))
           /\ Connect(p, l, to).states = p.states
  <1> DEFINE q == Connect(p, l, to)
             t == Arc(l, to)
  <1>1. /\ p \in ParsedFsm /\ p.transitions \in Seq(ParsedTransition)
        /\ p.states \subseteq Names
    BY DEF Consistent, ParsedFsm
  <1>2. t \in ParsedTransition
    BY <1>1, LineType DEF Arc, ParsedTransition, Names
  <1>3. Append(p.transitions, t) \in Seq(ParsedTransition)
    BY <1>1, <1>2
  <1>4. q = [p EXCEPT !.transitions = Append(p.transitions, t)]
    BY DEF Connect, Arc
  <1>5. /\ q \in ParsedFsm
        /\ q.status = p.status /\ q.initial = p.initial /\ q.finals = p.finals
        /\ q.states = p.states /\ q.transitions = Append(p.transitions, t)
    BY <1>1, <1>3, <1>4 DEF ParsedFsm
  <1>6. t.from = l.from /\ t.to = to
    BY DEF Arc
  <1>7. ASSUME NEW i \in DOMAIN q.transitions
        PROVE  q.transitions[i].from \in p.states /\ q.transitions[i].to \in p.states \cup {Terminal}
    <2>1. \/ i \in DOMAIN p.transitions /\ q.transitions[i] = p.transitions[i]
          \/ q.transitions[i] = t
      BY <1>1, <1>2, <1>5, <1>7
    <2> QED
      BY <2>1, <1>6 DEF Consistent
  <1> QED
    BY <1>5, <1>7 DEF Consistent

\* The three cases of a line with a label.
LEMMA LabelledFacts ==
    ASSUME NEW p, Consistent(p), NEW l \in Lines
    PROVE  LET q == Labelled(p, l)
           IN  /\ Consistent(q)
               /\ q.status = p.status
               /\ l.from = Star => q = Enter(p, l.to)
               /\ l.from # Star =>
                    /\ q.initial = p.initial
                    /\ q.finals = IF l.to = Star THEN p.finals \cup {l.from} ELSE p.finals
                    /\ q.states = p.states \cup (IF l.to = Star THEN {l.from} ELSE {l.from, l.to})
                    /\ q.transitions = Append(p.transitions,
                                              Arc(l, IF l.to = Star THEN Terminal ELSE l.to))
  <1> DEFINE q == Labelled(p, l)
  <1>0. l.from \in Names /\ l.to \in Names
    BY LineType
  <1>1. CASE l.from = Star
    BY <1>0, <1>1, EnterFacts DEF Labelled
  <1>2. CASE l.from # Star /\ l.to = Star
    <2> DEFINE r == Leave(p, l.from)
    <2>1. q = Connect(r, l, Terminal)
      BY <1>2 DEF Labelled
    <2>2. /\ Consistent(r) /\ r.status = p.status /\ r.initial = p.initial
          /\ r.finals = p.finals \cup {l.from} /\ r.states = p.states \cup {l.from}
          /\ r.transitions = p.transitions
      BY <1>0, LeaveFacts
    <2> HIDE DEF r
    <2>3. /\ Consistent(q) /\ q.status = r.status /\ q.initial = r.initial
          /\ q.finals = r.finals /\ q.states = r.states
          /\ q.transitions = Append(r.transitions, Arc(l, Terminal))
      BY <2>1, <2>2, ConnectFacts
    <2> QED
      BY <1>2, <2>2, <2>3
  <1>3. CASE l.from # Star /\ l.to # Star
    <2> DEFINE d == Declare(p, l.from)
               r == Declare(d, l.to)
    <2>1. q = Connect(r, l, l.to)
      BY <1>3 DEF Labelled
    <2>2. /\ Consistent(d) /\ d.status = p.status /\ d.initial = p.initial
          /\ d.finals = p.finals /\ d.states = p.states \cup {l.from}
          /\ d.transitions = p.transitions
      BY <1>0, DeclareFacts
    <2> HIDE DEF d
    <2>3. /\ Consistent(r) /\ r.status = d.status /\ r.initial = d.initial
          /\ r.finals = d.finals /\ r.states = d.states \cup {l.to}
          /\ r.transitions = d.transitions
      BY <1>0, <2>2, DeclareFacts
    <2> HIDE DEF r
    <2>4. /\ Consistent(q) /\ q.status = r.status /\ q.initial = r.initial
          /\ q.finals = r.finals /\ q.states = r.states
          /\ q.transitions = Append(r.transitions, Arc(l, l.to))
      BY <2>1, <2>2, <2>3, ConnectFacts
    <2> QED
      BY <1>3, <2>2, <2>3, <2>4
  <1> QED
    BY <1>1, <1>2, <1>3

-----------------------------------------------------------------------------
(* The type invariant. *)

LEMMA RuntimeLineConsistent ==
    ASSUME NEW p, Consistent(p), NEW l \in Lines
    PROVE  Consistent(RuntimeLine(p, l)) /\ RuntimeLine(p, l).status \in {p.status, "syntax"}
  <1>1. /\ l.from \in Names /\ Rest(l) \in Names
        /\ IsDeclaration(l) => Declared(l) \in Names
    BY LineType, DeclaredType
  <1>2. /\ Consistent(Fail(p)) /\ Fail(p).status = "syntax"
        /\ IsDeclaration(l) => /\ Consistent(Declare(p, Declared(l)))
                               /\ Declare(p, Declared(l)).status = p.status
        /\ Consistent(Enter(p, Rest(l))) /\ Enter(p, Rest(l)).status = p.status
        /\ Consistent(Leave(p, l.from)) /\ Leave(p, l.from).status = p.status
        /\ Consistent(Labelled(p, l)) /\ Labelled(p, l).status = p.status
    BY <1>1, FailFacts, DeclareFacts, EnterFacts, LeaveFacts, LabelledFacts
  <1>3. RuntimeMermaid(p, l) \in {Fail(p), Enter(p, Rest(l)), Leave(p, l.from), Labelled(p, l)}
    BY Zenon DEF RuntimeMermaid
  <1>4. \/ IsDeclaration(l) /\ RuntimePlantUml(p, l) = Declare(p, Declared(l))
        \/ RuntimePlantUml(p, l) \in {Fail(p), Enter(p, Rest(l)), Leave(p, l.from),
                                      Labelled(p, l)}
    BY Zenon DEF RuntimePlantUml
  <1>5. RuntimeLine(p, l) \in {p, RuntimeMermaid(p, l), RuntimePlantUml(p, l)}
    BY DEF RuntimeLine
  <1> QED
    BY <1>2, <1>3, <1>4, <1>5

LEMMA MacroLineConsistent ==
    ASSUME NEW p, Consistent(p), NEW l \in Lines
    PROVE  Consistent(MacroLine(p, l)) /\ MacroLine(p, l).status \in {p.status, "syntax"}
  <1>1. l.from \in Names /\ l.to \in Names /\ Rest(l) \in Names
    BY LineType
  <1>2. /\ Consistent(Fail(p)) /\ Fail(p).status = "syntax"
        /\ Consistent(Enter(p, l.to)) /\ Enter(p, l.to).status = p.status
        /\ Consistent(Enter(p, Rest(l))) /\ Enter(p, Rest(l)).status = p.status
        /\ Consistent(Leave(p, l.from)) /\ Leave(p, l.from).status = p.status
        /\ Consistent(Labelled(p, l)) /\ Labelled(p, l).status = p.status
    BY <1>1, FailFacts, EnterFacts, LeaveFacts, LabelledFacts
  <1>3. MacroMermaid(p, l) \in {Fail(p), Enter(p, l.to), Leave(p, l.from), Labelled(p, l)}
    BY Zenon DEF MacroMermaid
  <1>4. MacroPlantUml(p, l) \in {p, Fail(p), Enter(p, Rest(l)), Leave(p, l.from), Labelled(p, l)}
    BY Zenon DEF MacroPlantUml
  <1>5. MacroLine(p, l) \in {p, MacroMermaid(p, l), MacroPlantUml(p, l)}
    BY DEF MacroLine
  <1> QED
    BY <1>2, <1>3, <1>4, <1>5

\* A verdict replaces the status and nothing else.
LEMMA VerdictFacts ==
    ASSUME NEW p, Consistent(p), NEW v \in Status
    PROVE  LET q == [p EXCEPT !.status = v]
           IN  /\ Consistent(q)
               /\ q.status = v
               /\ q.initial = p.initial /\ q.finals = p.finals
               /\ q.states = p.states /\ q.transitions = p.transitions
  BY DEF Consistent, ParsedFsm

LEMMA VerdictTypes ==
    ASSUME NEW p
    PROVE  /\ RuntimeVerdict(p) \in {"no_initial", "empty", "ok"}
           /\ MacroVerdict(p) \in {"no_initial", "invalid", "ok"}
  BY DEF RuntimeVerdict, MacroVerdict

\* Before the end of the text nothing is accepted and nothing generated.
Undecided == InText => graph = None /\ macro.status # "ok"

LEMMA InitTyped == Init => TypeOK /\ Undecided
  <1> SUFFICES ASSUME Init PROVE TypeOK /\ Undecided
    OBVIOUS
  <1>1. runtime \in ParsedFsm
    BY DEF Init, ParsedFsm, Status
  <1>2. runtime.initial = None /\ runtime.finals = {} /\ runtime.transitions = <<>>
    BY DEF Init
  <1>3. Consistent(runtime)
    BY <1>1, <1>2 DEF Consistent
  <1>4. macro.status = "reading" /\ Consistent(macro)
    BY <1>3 DEF Init
  <1> QED
    BY <1>3, <1>4, DefinitionAssumption DEF Init, TypeOK, Undecided

LEMMA StepTyped == TypeOK /\ Undecided /\ [Next]_vars => TypeOK' /\ Undecided'
  <1> SUFFICES ASSUME TypeOK, Undecided, [Next]_vars PROVE TypeOK' /\ Undecided'
    OBVIOUS
  <1>1. CASE \E l \in Lines : ReadLine(l)
    <2>0. PICK l \in Lines : ReadLine(l)
      BY <1>1
    <2>1. /\ runtime' = IF runtime.status = "reading" THEN RuntimeLine(runtime, l) ELSE runtime
          /\ macro' = IF macro.status = "reading" THEN MacroLine(macro, l) ELSE macro
      BY <2>0 DEF ReadLine
    <2>2. Consistent(runtime') /\ Consistent(macro')
      BY <2>1, RuntimeLineConsistent, MacroLineConsistent DEF TypeOK
    <2>3. macro'.status # "ok" /\ graph' = None
      BY <2>0, <2>1, MacroLineConsistent DEF ReadLine, Undecided, TypeOK
    <2>4. lines' \in 0..MaxLines /\ syntax' = syntax
      BY <2>0, DefinitionAssumption DEF ReadLine, TypeOK
    <2> QED
      BY <2>2, <2>3, <2>4 DEF TypeOK, Consistent, Undecided
  <1>2. CASE EndOfText
    <2>1. Consistent(runtime') /\ runtime'.status # "reading"
      <3>1. RuntimeVerdict(runtime) \in Status \ {"reading"}
        BY VerdictTypes DEF Status
      <3> QED
        BY <1>2, <3>1, VerdictFacts DEF EndOfText, TypeOK
    <2>2. Consistent(macro') /\ macro'.status # "reading"
      <3>1. MacroVerdict(macro) \in Status \ {"reading"}
        BY VerdictTypes DEF Status
      <3> QED
        BY <1>2, <3>1, VerdictFacts DEF EndOfText, TypeOK
    <2> QED
      BY <1>2, <2>1, <2>2 DEF EndOfText, TypeOK, Consistent, Undecided, InText
  <1>3. CASE UNCHANGED vars
    BY <1>3 DEF vars, TypeOK, Consistent, Undecided, InText
  <1> QED
    BY <1>1, <1>2, <1>3 DEF Next

\* The type invariant: whatever the text, no parser ever holds an initial or
\* final state or an end of a transition that it does not list as a state.
THEOREM DefinitionTypeCorrect == Spec => []TypeOK
  <1>1. Spec => [](TypeOK /\ Undecided)
    BY InitTyped, StepTyped, PTL DEF Spec
  <1> QED
    BY <1>1, PTL

-----------------------------------------------------------------------------
(* The two parsers in the middle of a text. *)

\* Nothing read so far that the validation refuses for its name alone.
Clean(p) ==
    /\ p.states \subseteq Identifiers
    /\ \A i \in DOMAIN p.transitions : p.transitions[i].event \in Identifiers

\* What a clean m, the macro's, says of r, the other parser's.
Alike(m, r) ==
    Clean(m) =>
        /\ r.status = "reading"
        /\ m.initial = None <=> r.initial = None
        /\ m.transitions # <<>> => r.transitions # <<>>
        /\ ~(syntax = "plantuml" /\ r.states \cap DOMAIN AfterState # {}) =>
             /\ m.initial # None => r.initial \in StartNames(syntax, m.initial)
             /\ m.finals = r.finals /\ m.transitions = r.transitions
             /\ r.states \subseteq Explained(syntax, m.states)

\* More states explain more names, and each explains itself.
LEMMA ExplainedFacts ==
    ASSUME NEW S, NEW T \in SUBSET Names
    PROVE  /\ Explained(syntax, S) \subseteq Explained(syntax, S \cup T)
           /\ T \subseteq Explained(syntax, S \cup T)
           /\ \A n \in Names, t \in T :
                 n \in StartNames(syntax, t) => n \in Explained(syntax, S \cup T)
           /\ DeclaredNames(syntax) \cap Names \subseteq Explained(syntax, S)
  <1>1. \A t \in T : t \in StartNames(syntax, t)
    BY DEF StartNames
  <1> QED
    BY <1>1 DEF Explained

\* Transitions are appended, so that what was not clean does not become it.
LEMMA AppendFacts ==
    ASSUME NEW p, Consistent(p), NEW l \in Lines, NEW to \in Names
    PROVE  LET new == Append(p.transitions, Arc(l, to))
           IN  /\ new # <<>>
               /\ (\A i \in DOMAIN new : new[i].event \in Identifiers)
                    <=> /\ \A i \in DOMAIN p.transitions : p.transitions[i].event \in Identifiers
                        /\ l.event \in Identifiers
  <1> DEFINE t == Arc(l, to)
             new == Append(p.transitions, t)
  <1>1. t \in ParsedTransition /\ t.event = l.event
    BY LineType DEF Arc, ParsedTransition
  <1>2. p.transitions \in Seq(ParsedTransition)
    BY DEF Consistent, ParsedFsm
  <1> HIDE DEF t
  <1>3. /\ new # <<>>
        /\ Len(p.transitions) \in Nat /\ DOMAIN p.transitions = 1..Len(p.transitions)
        /\ DOMAIN new = 1..Len(p.transitions) + 1
        /\ \A i \in DOMAIN p.transitions : new[i] = p.transitions[i]
        /\ new[Len(p.transitions) + 1] = t
    BY <1>1, <1>2
  <1>4. DOMAIN new = DOMAIN p.transitions \cup {Len(p.transitions) + 1}
    BY <1>3
  <1> QED
    BY <1>1, <1>3, <1>4 DEF t

\* A labelled line that both parsers read as such.
LEMMA AlikeLabelled ==
    ASSUME NEW m, Consistent(m), NEW r, Consistent(r), Alike(m, r), NEW l \in Lines,
           l.from # Star
    PROVE  /\ Alike(Labelled(m, l), Labelled(r, l))
           /\ Clean(Labelled(m, l)) => Clean(m) /\ l.to # Empty /\ l.event # Empty
  <1> DEFINE to == IF l.to = Star THEN Terminal ELSE l.to
             ends == IF l.to = Star THEN {l.from} ELSE {l.from, l.to}
             out == IF l.to = Star THEN {l.from} ELSE {}
             M == Labelled(m, l)
             R == Labelled(r, l)
  <1>1. to \in Names
    BY LineType DEF Names
  <1>2. /\ M.initial = m.initial /\ M.finals = m.finals \cup out /\ M.states = m.states \cup ends
        /\ M.transitions = Append(m.transitions, Arc(l, to))
    BY LabelledFacts
  <1>3. /\ R.status = r.status
        /\ R.initial = r.initial /\ R.finals = r.finals \cup out /\ R.states = r.states \cup ends
        /\ R.transitions = Append(r.transitions, Arc(l, to))
    BY LabelledFacts
  <1>4. Clean(M) => Clean(m) /\ l.event \in Identifiers /\ ends \subseteq Identifiers
    BY <1>1, <1>2, AppendFacts DEF Clean
  <1>5. Explained(syntax, m.states) \cup ends \subseteq Explained(syntax, M.states)
    <2>0. ends \subseteq Names
      BY LineType
    <2> HIDE DEF M, ends
    <2>1. /\ Explained(syntax, m.states) \subseteq Explained(syntax, m.states \cup ends)
          /\ ends \subseteq Explained(syntax, m.states \cup ends)
      BY <2>0, ExplainedFacts
    <2> QED
      BY <1>2, <2>1
  <1>6. R.transitions # <<>>
    BY <1>1, <1>3, AppendFacts
  <1>7. Empty \notin Identifiers
    BY DefinitionAssumption
  <1>8. ends \subseteq Identifiers => l.to # Empty
    BY <1>7, DefinitionAssumption
  <1> HIDE DEF M, R, to, ends, out
  <1>9. Alike(M, R)
    BY <1>2, <1>3, <1>4, <1>5, <1>6 DEF Alike
  <1> QED
    BY <1>4, <1>7, <1>8, <1>9 DEF M, R

\* `[*] --> s`, read as s by the one and as t by the other.
LEMMA AlikeEnter ==
    ASSUME NEW m, Consistent(m), NEW r, Consistent(r), Alike(m, r),
           NEW s \in Names, NEW t \in Names, t \in StartNames(syntax, s), s # None, t # None
    PROVE  Alike(Enter(m, s), Enter(r, t))
  <1> DEFINE M == Enter(m, s)
             R == Enter(r, t)
  <1>1. /\ M.initial = IF m.initial = None THEN s ELSE m.initial
        /\ M.finals = m.finals
        /\ M.transitions = m.transitions
        /\ M.states = m.states \cup {s}
    BY EnterFacts
  <1>2. /\ R.status = r.status
        /\ R.initial = IF r.initial = None THEN t ELSE r.initial
        /\ R.finals = r.finals
        /\ R.transitions = r.transitions
        /\ R.states = r.states \cup {t}
    BY EnterFacts
  <1>3. Explained(syntax, m.states) \cup {t} \subseteq Explained(syntax, M.states)
    <2>1. /\ Explained(syntax, m.states) \subseteq Explained(syntax, m.states \cup {s})
          /\ t \in Explained(syntax, m.states \cup {s})
      BY ExplainedFacts
    <2> QED
      BY <1>1, <2>1
  <1>4. Clean(M) => Clean(m)
    BY <1>1 DEF Clean
  <1> HIDE DEF M, R
  <1>5. Alike(M, R)
    BY <1>1, <1>2, <1>3, <1>4 DEF Alike
  <1> QED
    BY <1>5 DEF M, R

LEMMA AlikeLeave ==
    ASSUME NEW m, Consistent(m), NEW r, Consistent(r), Alike(m, r), NEW s \in Names
    PROVE  Alike(Leave(m, s), Leave(r, s)) /\ (Clean(Leave(m, s)) => s \in Identifiers)
  <1> DEFINE M == Leave(m, s)
             R == Leave(r, s)
  <1>1. /\ M.initial = m.initial
        /\ M.finals = m.finals \cup {s}
        /\ M.transitions = m.transitions
        /\ M.states = m.states \cup {s}
    BY LeaveFacts
  <1>2. /\ R.status = r.status
        /\ R.initial = r.initial
        /\ R.finals = r.finals \cup {s}
        /\ R.transitions = r.transitions
        /\ R.states = r.states \cup {s}
    BY LeaveFacts
  <1>3. Explained(syntax, m.states) \cup {s} \subseteq Explained(syntax, M.states)
    <2>1. /\ Explained(syntax, m.states) \subseteq Explained(syntax, m.states \cup {s})
          /\ {s} \subseteq Explained(syntax, m.states \cup {s})
      BY ExplainedFacts
    <2> QED
      BY <1>1, <2>1
  <1>4. Clean(M) => Clean(m) /\ s \in Identifiers
    BY <1>1 DEF Clean
  <1> HIDE DEF M, R
  <1>5. Alike(M, R)
    BY <1>1, <1>2, <1>3, <1>4 DEF Alike
  <1> QED
    BY <1>4, <1>5 DEF M, R

\* A PlantUML line that starts with `state `: the macro skips it.
LEMMA AlikeDeclared ==
    ASSUME NEW m, Consistent(m), NEW r, Consistent(r), Alike(m, r), NEW l \in Lines,
           IsDeclaration(l), syntax = "plantuml"
    PROVE  Alike(m, RuntimePlantUml(r, l))
  <1>1. l.from \in Names /\ Declared(l) \in Names
    BY LineType, DeclaredType
  <1>2. l.form \in {"pipe", "colon", "bare"} =>
          l.from \in DOMAIN AfterState /\ l.from # Star /\ l.from # Empty
    BY DefinitionAssumption DEF IsDeclaration, HasArrow
  <1>3. \/ RuntimePlantUml(r, l) = Declare(r, Declared(l))
        \/ RuntimePlantUml(r, l) = Labelled(r, l) /\ l.form = "colon"
        \/ RuntimePlantUml(r, l) = Leave(r, l.from) /\ l.form \in {"pipe", "colon", "bare"}
    BY <1>2, Zenon DEF RuntimePlantUml
  <1>4. Alike(m, Declare(r, Declared(l)))
    <2> DEFINE R == Declare(r, Declared(l))
    <2>1. /\ R.status = r.status /\ R.initial = r.initial /\ R.finals = r.finals
          /\ R.transitions = r.transitions /\ R.states = r.states \cup {Declared(l)}
      BY <1>1, DeclareFacts
    <2>2. Declared(l) \in Explained(syntax, m.states)
      <3>1. Declared(l) \in DeclaredNames(syntax)
        BY DEF DeclaredNames
      <3> QED
        BY <1>1, <3>1, ExplainedFacts
    <2> HIDE DEF R
    <2>3. Alike(m, R)
      BY <2>1, <2>2 DEF Alike
    <2> QED
      BY <2>3 DEF R
  <1>5. ASSUME l.form \in {"pipe", "colon", "bare"}
        PROVE  Alike(m, Leave(r, l.from))
    <2> DEFINE R == Leave(r, l.from)
    <2>1. /\ R.status = r.status /\ R.initial = r.initial /\ R.transitions = r.transitions
          /\ l.from \in R.states
      BY <1>1, LeaveFacts
    <2> HIDE DEF R
    <2>2. Alike(m, R)
      BY <1>2, <1>5, <2>1 DEF Alike
    <2> QED
      BY <2>2 DEF R
  <1>6. ASSUME l.form = "colon"
        PROVE  Alike(m, Labelled(r, l))
    <2> DEFINE R == Labelled(r, l)
               to == IF l.to = Star THEN Terminal ELSE l.to
    <2>1. to \in Names
      BY LineType DEF Names
    <2>2. /\ R.status = r.status /\ R.initial = r.initial
          /\ l.from \in R.states
          /\ R.transitions = Append(r.transitions, Arc(l, to))
      BY <1>2, <1>6, LabelledFacts
    <2>3. R.transitions # <<>>
      BY <2>1, <2>2, AppendFacts
    <2> HIDE DEF R
    <2>4. Alike(m, R)
      BY <1>2, <1>6, <2>2, <2>3 DEF Alike
    <2> QED
      BY <2>4 DEF R
  <1> QED
    BY <1>3, <1>4, <1>5, <1>6

\* The macro has read a label or an end that its validation refuses.
LEMMA DirtyLabelled ==
    ASSUME NEW m, Consistent(m), NEW r, NEW l \in Lines,
           l.to = Empty \/ (l.from # Star /\ Blank(l))
    PROVE  Alike(Labelled(m, l), r)
  <1>1. Empty \notin Identifiers /\ Star # Empty
    BY DefinitionAssumption
  <1>2. CASE l.from = Star
    <2>1. l.to = Empty /\ l.to \in Names /\ Labelled(m, l) = Enter(m, l.to)
      BY <1>2, LineType, LabelledFacts
    <2>2. Enter(m, l.to).states = m.states \cup {l.to}
      BY <2>1, EnterFacts
    <2> QED
      BY <1>1, <2>1, <2>2 DEF Alike, Clean
  <1>3. CASE l.from # Star
    <2> DEFINE to == IF l.to = Star THEN Terminal ELSE l.to
    <2>1. to \in Names
      BY LineType DEF Names
    <2>2. /\ Labelled(m, l).transitions = Append(m.transitions, Arc(l, to))
          /\ l.to # Star => l.to \in Labelled(m, l).states
          /\ l.from \in Labelled(m, l).states
      BY <1>3, LabelledFacts
    <2>3. Clean(Labelled(m, l)) => l.event \in Identifiers
      BY <2>1, <2>2, AppendFacts DEF Clean
    <2> QED
      BY <1>1, <1>3, <2>2, <2>3 DEF Alike, Clean, Blank
  <1> QED
    BY <1>2, <1>3

\* A Mermaid line that both parsers read.
LEMMA AlikeMermaid ==
    ASSUME NEW m, Consistent(m), NEW r, Consistent(r), Alike(m, r), NEW l \in Lines,
           MacroMermaid(m, l).status = "reading", syntax = "mermaid"
    PROVE  Alike(MacroMermaid(m, l), RuntimeMermaid(r, l))
  <1>1. /\ l.from \in Names /\ l.to \in Names /\ Rest(l) \in Names
        /\ l.form # "bare" => Rest(l) # Star /\ Rest(l) # Empty
        /\ l.to # None /\ Rest(l) # None
    BY LineType, DefinitionAssumption DEF Rest
  <1>2. Fail(m).status # "reading" /\ Star # Empty /\ Empty \notin Identifiers
    BY FailFacts, DefinitionAssumption
  <1>3. CASE l.form \in {"pipe", "colon"}
    <2>1. MacroMermaid(m, l) = Labelled(m, l)
      BY <1>3, Zenon DEF MacroMermaid
    <2>2. CASE l.to = Empty \/ (l.from # Star /\ Blank(l))
      BY <2>1, <2>2, DirtyLabelled
    <2>3. CASE l.from = Star /\ l.to # Empty
      <3>0. l.to \in StartNames(syntax, l.to) /\ Rest(l) \in StartNames(syntax, l.to)
        BY <2>3 DEF StartNames
      <3>1. Labelled(m, l) = Enter(m, l.to) /\ Labelled(r, l) = Enter(r, l.to)
        BY <2>3, LabelledFacts
      <3>2. RuntimeMermaid(r, l) \in {Labelled(r, l), Enter(r, Rest(l))}
        BY <1>1, <1>3, <2>3, Zenon DEF RuntimeMermaid, HasArrow
      <3> QED
        BY <1>1, <2>1, <3>0, <3>1, <3>2, AlikeEnter
    <2>4. CASE l.from # Star /\ l.to # Empty /\ ~Blank(l)
      <3>1. RuntimeMermaid(r, l) = Labelled(r, l)
        BY <1>1, <1>3, <2>4, Zenon DEF RuntimeMermaid, HasArrow
      <3> QED
        BY <2>1, <2>4, <3>1, AlikeLabelled
    <2> QED
      BY <2>2, <2>3, <2>4
  <1>4. CASE l.form = "bare" /\ l.from = Star /\ l.to # Empty
    <2>1. Rest(l) = l.to
      BY <1>4 DEF Rest
    <2>2. MacroMermaid(m, l) = Enter(m, l.to)
      BY <1>4, Zenon DEF MacroMermaid
    <2>3. RuntimeMermaid(r, l) = Enter(r, l.to)
      BY <1>4, <2>1, Zenon DEF RuntimeMermaid, HasArrow
    <2> QED
      BY <1>1, <2>2, <2>3, AlikeEnter DEF StartNames
  <1>5. CASE l.form = "bare" /\ l.from # Star /\ l.to = Star
    <2>1. Rest(l) = l.to
      BY <1>5 DEF Rest
    <2>2. MacroMermaid(m, l) = Leave(m, l.from)
      BY <1>5, Zenon DEF MacroMermaid
    <2>3. RuntimeMermaid(r, l) = Leave(r, l.from)
      BY <1>5, <2>1, Zenon DEF RuntimeMermaid, HasArrow
    <2> QED
      BY <1>1, <2>2, <2>3, AlikeLeave
  <1>6. CASE /\ ~(l.form \in {"pipe", "colon"})
             /\ ~(l.form = "bare" /\ l.from = Star /\ l.to # Empty)
             /\ ~(l.form = "bare" /\ l.from # Star /\ l.to = Star)
    <2>1. MacroMermaid(m, l) = Fail(m)
      BY <1>6, Zenon DEF MacroMermaid
    <2> QED
      BY <1>2, <2>1
  <1> QED
    BY <1>3, <1>4, <1>5, <1>6

\* A PlantUML line that both parsers read.
LEMMA AlikePlantUml ==
    ASSUME NEW m, Consistent(m), NEW r, Consistent(r), Alike(m, r), NEW l \in Lines,
           MacroPlantUml(m, l).status = "reading", syntax = "plantuml"
    PROVE  Alike(MacroPlantUml(m, l), RuntimePlantUml(r, l))
  <1>1. /\ l.from \in Names /\ l.to \in Names /\ Rest(l) \in Names
        /\ l.to # None /\ Rest(l) # None
    BY LineType, DefinitionAssumption DEF Rest
  <1>2. Fail(m).status # "reading" /\ Star # Empty /\ Empty \notin Identifiers
    BY FailFacts, DefinitionAssumption
  <1>3. CASE IsDeclaration(l)
    <2>1. MacroPlantUml(m, l) = m
      BY <1>3, Zenon DEF MacroPlantUml
    <2> QED
      BY <1>3, <2>1, AlikeDeclared
  <1>4. CASE ~IsDeclaration(l) /\ l.form = "colon"
    <2>1. MacroPlantUml(m, l) = Labelled(m, l)
      BY <1>4, Zenon DEF MacroPlantUml
    <2>2. CASE l.to = Empty \/ (l.from # Star /\ Blank(l))
      BY <2>1, <2>2, DirtyLabelled
    <2>3. CASE l.to # Empty /\ (l.from = Star \/ ~Blank(l))
      <3>1. RuntimePlantUml(r, l) = Labelled(r, l)
        BY <1>4, <2>3, Zenon DEF RuntimePlantUml
      <3>2. CASE l.from = Star
        <4>1. Labelled(m, l) = Enter(m, l.to) /\ Labelled(r, l) = Enter(r, l.to)
          BY <3>2, LabelledFacts
        <4> QED
          BY <1>1, <2>1, <3>1, <4>1, AlikeEnter DEF StartNames
      <3>3. CASE l.from # Star
        BY <2>1, <3>1, <3>3, AlikeLabelled
      <3> QED
        BY <3>2, <3>3
    <2> QED
      BY <2>2, <2>3
  <1>5. CASE /\ ~IsDeclaration(l) /\ l.form \in {"pipe", "bare"}
             /\ l.from = Star /\ Rest(l) # Empty
    <2>1. MacroPlantUml(m, l) = Enter(m, Rest(l))
      BY <1>5, Zenon DEF MacroPlantUml
    <2>2. RuntimePlantUml(r, l) = Enter(r, Rest(l))
      BY <1>5, Zenon DEF RuntimePlantUml
    <2> QED
      BY <1>1, <2>1, <2>2, AlikeEnter DEF StartNames
  <1>6. CASE /\ ~IsDeclaration(l) /\ l.form \in {"pipe", "bare"}
             /\ l.from # Star /\ Rest(l) = Star
    <2>1. MacroPlantUml(m, l) = Leave(m, l.from)
      BY <1>6, Zenon DEF MacroPlantUml
    <2>2. CASE l.from = Empty
      <3>1. ~Clean(Leave(m, l.from))
        BY <1>1, <1>2, <2>2, AlikeLeave
      <3> QED
        BY <2>1, <3>1 DEF Alike
    <2>3. CASE l.from # Empty
      <3>1. RuntimePlantUml(r, l) = Leave(r, l.from)
        BY <1>6, <2>3, Zenon DEF RuntimePlantUml
      <3> QED
        BY <1>1, <2>1, <3>1, AlikeLeave
    <2> QED
      BY <2>2, <2>3
  <1>7. CASE /\ ~IsDeclaration(l) /\ l.form # "colon"
             /\ ~(l.form \in {"pipe", "bare"} /\ l.from = Star /\ Rest(l) # Empty)
             /\ ~(l.form \in {"pipe", "bare"} /\ l.from # Star /\ Rest(l) = Star)
    <2>1. MacroPlantUml(m, l) = Fail(m)
      BY <1>7, Zenon DEF MacroPlantUml
    <2> QED
      BY <1>2, <2>1
  <1> QED
    BY <1>3, <1>4, <1>5, <1>6, <1>7

LEMMA AlikeLine ==
    ASSUME NEW m, Consistent(m), NEW r, Consistent(r), Alike(m, r), NEW l \in Lines,
           MacroLine(m, l).status = "reading", syntax \in {"mermaid", "plantuml"}
    PROVE  Alike(MacroLine(m, l), RuntimeLine(r, l))
  <1>1. CASE Skipped(l)
    BY <1>1 DEF MacroLine, RuntimeLine
  <1>2. CASE ~Skipped(l) /\ syntax = "mermaid"
    BY <1>2, AlikeMermaid DEF MacroLine, RuntimeLine
  <1>3. CASE ~Skipped(l) /\ syntax = "plantuml"
    BY <1>3, AlikePlantUml DEF MacroLine, RuntimeLine
  <1> QED
    BY <1>1, <1>2, <1>3

-----------------------------------------------------------------------------
(* The end of the text. *)

\* In a valid definition everything but the initial state is a target.
LEMMA AllMentioned ==
    ASSUME NEW p, Consistent(p), p.initial # None, Valid(p), NEW s \in p.states, s # p.initial
    PROVE  \E i \in DOMAIN p.transitions :
              p.transitions[i].to = s /\ p.transitions[i].to # Terminal
  <1> DEFINE C == {p.initial} \cup {t \in p.states : \E i \in DOMAIN p.transitions :
                                    p.transitions[i].to = t /\ p.transitions[i].to # Terminal}
  <1>1. C \in SUBSET p.states /\ p.initial \in C
    BY DEF Consistent
  <1>2. Closed(p, C)
    BY DEF Closed, Consistent
  <1>3. s \in Reachable(p)
    BY DEF Valid
  <1>4. s \in C
    BY <1>1, <1>2, <1>3 DEF Reachable
  <1> QED
    BY <1>4

\* No state of a valid definition but the initial one is missing among the
\* states of another with the same transitions.
LEMMA NoneMissing ==
    ASSUME NEW m, Consistent(m), NEW r, Consistent(r), m.initial # None, Valid(m),
           m.transitions = r.transitions
    PROVE  m.states \ {m.initial} \subseteq r.states
  <1>1. ASSUME NEW s \in m.states, s # m.initial
        PROVE  s \in r.states
    <2>1. PICK i \in DOMAIN m.transitions :
             m.transitions[i].to = s /\ m.transitions[i].to # Terminal
      BY <1>1, AllMentioned
    <2> QED
      BY <2>1 DEF Consistent
  <1> QED
    BY <1>1

\* The definitions keep alike while the text is read.
StillAlike == macro.status = "reading" => Alike(macro, runtime)

LEMMA InitAlike == Init => StillAlike /\ SameReading
  BY DEF Init, StillAlike, SameReading, Alike

LEMMA StepAlike ==
    TypeOK /\ Undecided /\ StillAlike /\ SameReading /\ [Next]_vars
      => StillAlike' /\ SameReading'
  <1> SUFFICES ASSUME TypeOK, Undecided, StillAlike, SameReading, [Next]_vars
               PROVE  StillAlike' /\ SameReading'
    OBVIOUS
  <1>1. CASE \E l \in Lines : ReadLine(l)
    <2>0. PICK l \in Lines : ReadLine(l)
      BY <1>1
    <2>1. /\ runtime' = IF runtime.status = "reading" THEN RuntimeLine(runtime, l) ELSE runtime
          /\ macro' = IF macro.status = "reading" THEN MacroLine(macro, l) ELSE macro
      BY <2>0 DEF ReadLine
    <2>2. macro'.status # "ok"
      BY <2>0, <2>1, MacroLineConsistent DEF ReadLine, Undecided, TypeOK
    <2>3. ASSUME macro'.status = "reading" PROVE Alike(macro', runtime')
      <3>1. macro.status = "reading" /\ macro' = MacroLine(macro, l)
        BY <2>1, <2>3, MacroLineConsistent DEF TypeOK
      <3>2. Alike(macro', RuntimeLine(runtime, l))
        BY <2>3, <3>1, AlikeLine DEF TypeOK, StillAlike
      <3>3. RuntimeLine(runtime, l).status \in {runtime.status, "syntax"}
        BY RuntimeLineConsistent DEF TypeOK
      <3>4. runtime.status # "reading" => ~Clean(macro')
        BY <3>2, <3>3 DEF Alike
      <3> QED
        BY <2>1, <3>2, <3>4 DEF Alike
    <2>4. syntax' = syntax
      BY <2>0 DEF ReadLine
    <2> QED
      BY <2>2, <2>3, <2>4
         DEF StillAlike, SameReading, Alike, Clean
  <1>2. CASE EndOfText
    <2>1. macro'.status # "reading"
      <3>1. MacroVerdict(macro) \in Status \ {"reading"}
        BY VerdictTypes DEF Status
      <3> QED
        BY <1>2, <3>1, VerdictFacts DEF EndOfText, TypeOK
    <2>2. SUFFICES ASSUME macro'.status = "ok" PROVE SameReading'
      BY <2>1 DEF StillAlike, SameReading
    <2>3. macro.status = "reading" /\ MacroVerdict(macro) = "ok"
      <3>1. MacroVerdict(macro) \in Status
        BY VerdictTypes DEF Status
      <3> QED
        BY <1>2, <2>2, <3>1, VerdictFacts DEF EndOfText, TypeOK, Undecided
    <2>4. /\ macro'.initial = macro.initial /\ macro'.finals = macro.finals
          /\ macro'.states = macro.states /\ macro'.transitions = macro.transitions
      <3>1. MacroVerdict(macro) \in Status
        BY VerdictTypes DEF Status
      <3> QED
        BY <1>2, <2>3, <3>1, VerdictFacts DEF EndOfText, TypeOK
    <2>5. macro.initial # None /\ Valid(macro) /\ Clean(macro)
      BY <2>3 DEF MacroVerdict, Valid, Clean
    <2>6. /\ runtime.status = "reading" /\ runtime.initial # None
          /\ macro.transitions # <<>> => runtime.transitions # <<>>
      BY <2>3, <2>5 DEF StillAlike, Alike
    <2>7. /\ runtime'.status = RuntimeVerdict(runtime)
          /\ runtime'.initial = runtime.initial /\ runtime'.finals = runtime.finals
          /\ runtime'.states = runtime.states /\ runtime'.transitions = runtime.transitions
      <3>1. RuntimeVerdict(runtime) \in Status
        BY VerdictTypes DEF Status
      <3> QED
        BY <1>2, <2>6, <3>1, VerdictFacts DEF EndOfText, TypeOK
    <2>8. \/ runtime'.status = "ok"
          \/ runtime'.status = "empty" /\ macro'.transitions = <<>>
      BY <2>4, <2>6, <2>7 DEF RuntimeVerdict
    <2>9. ASSUME ~StateIsState'
          PROVE  /\ runtime'.initial \in StartNames(syntax, macro'.initial)
                 /\ runtime'.finals = macro'.finals
                 /\ runtime'.transitions = macro'.transitions
                 /\ macro'.states \ {macro'.initial} \subseteq runtime'.states
                 /\ runtime'.states \subseteq Explained(syntax, macro'.states)
      <3>1. ~(syntax = "plantuml" /\ runtime.states \cap DOMAIN AfterState # {})
        BY <1>2, <2>7, <2>9 DEF StateIsState, EndOfText
      <3>2. /\ runtime.initial \in StartNames(syntax, macro.initial)
            /\ macro.finals = runtime.finals /\ macro.transitions = runtime.transitions
            /\ runtime.states \subseteq Explained(syntax, macro.states)
        BY <2>3, <2>5, <3>1 DEF StillAlike, Alike
      <3>3. macro.states \ {macro.initial} \subseteq runtime.states
        BY <2>5, <3>2, NoneMissing DEF TypeOK
      <3> QED
        BY <2>4, <2>7, <3>2, <3>3
    <2>10. syntax' = syntax
      BY <1>2 DEF EndOfText
    <2> QED
      BY <2>8, <2>9, <2>10 DEF SameReading, StateIsState
  <1>3. CASE UNCHANGED vars
    BY <1>3 DEF vars, StillAlike, SameReading, Alike, Clean, StateIsState
  <1> QED
    BY <1>1, <1>2, <1>3 DEF Next

\* For every text: what the macro accepts the crate's parser reads with the
\* same final states and transitions, and the same states but for those named
\* by a labelled start or a declaration.
THEOREM SameReadingCorrect == Spec => []SameReading
  <1>1. Spec => [](TypeOK /\ Undecided /\ StillAlike /\ SameReading)
    BY InitTyped, StepTyped, InitAlike, StepAlike, PTL DEF Spec
  <1> QED
    BY <1>1, PTL

-----------------------------------------------------------------------------
(* The generated graph. *)

\* The parts of what is generated for a valid definition.
LEMMA GeneratedFacts ==
    ASSUME NEW p, Consistent(p)
    PROVE  LET g == Generated(p)
           IN  /\ g.initial = Variant[p.initial]
               /\ g.finals = {Variant[s] : s \in p.finals}
               /\ DOMAIN g.transitions = DOMAIN p.transitions
               /\ \A i \in DOMAIN p.transitions :
                     LET t == p.transitions[i]
                     IN  /\ g.transitions[i].from = Variant[t.from]
                         /\ g.transitions[i].to = {Variant[IF t.to = Terminal THEN t.from ELSE t.to]}
                         /\ g.transitions[i].event = Variant[t.event]
  BY DEF Generated

\* The end of the text, the only step that generates a graph.
LEMMA GraphSoundAtEnd ==
    ASSUME TypeOK, EndOfText
    PROVE  GraphSound'
  <1> SUFFICES ASSUME graph' # None PROVE GraphSound'
    BY DEF GraphSound
  <1>1. /\ macro.status = "reading" /\ MacroVerdict(macro) = "ok" /\ Compiles(macro)
        /\ graph' = Generated(macro)
    BY DEF EndOfText
  <1> DEFINE p == macro
             N == DOMAIN p.transitions
             All == {Variant[s] : s \in p.states}
             to(i) == IF p.transitions[i].to = Terminal THEN p.transitions[i].from
                      ELSE p.transitions[i].to
  <1>2. Consistent(p) /\ p.initial # None /\ Valid(p)
    BY <1>1 DEF TypeOK, MacroVerdict
  <1>3. macro'.states = p.states
    <2>1. MacroVerdict(macro) \in Status
      BY VerdictTypes DEF Status
    <2> QED
      BY <1>1, <1>2, <2>1, VerdictFacts DEF EndOfText
  <1>4. /\ graph'.initial = Variant[p.initial]
        /\ graph'.finals = {Variant[s] : s \in p.finals}
        /\ DOMAIN graph'.transitions = N
        /\ \A i \in N : /\ graph'.transitions[i].from = Variant[p.transitions[i].from]
                        /\ graph'.transitions[i].to = {Variant[to(i)]}
                        /\ graph'.transitions[i].event = Variant[p.transitions[i].event]
    BY <1>1, <1>2, GeneratedFacts
  <1>5. /\ p.initial \in p.states /\ p.finals \subseteq p.states
        /\ \A i \in N : p.transitions[i].from \in p.states /\ to(i) \in p.states
    BY <1>2 DEF Consistent
  <1>6. \A s \in p.states : s # p.initial =>
          \E i \in N : p.transitions[i].to = s /\ p.transitions[i].to # Terminal
    BY <1>2, AllMentioned
  <1>7. p.finals # {}
    BY <1>2 DEF Valid
  <1>8. \A i, j \in N : /\ p.transitions[i].from = p.transitions[j].from
                       /\ p.transitions[i].event = p.transitions[j].event
                       => i = j
    BY <1>2 DEF Valid
  <1>9. /\ \A s, t \in p.states : Variant[s] = Variant[t] => s = t
        /\ \A i, j \in N : Variant[p.transitions[i].event] = Variant[p.transitions[j].event]
                          => p.transitions[i].event = p.transitions[j].event
    BY <1>1 DEF Compiles
  <1>10. GraphStates' = All
    <2>1. GraphStates' =
            {graph'.initial} \cup graph'.finals
              \cup UNION {{graph'.transitions[i].from} \cup graph'.transitions[i].to :
                             i \in DOMAIN graph'.transitions}
      BY DEF GraphStates
    <2>2. ASSUME NEW v \in GraphStates' PROVE v \in All
      BY <1>4, <1>5, <2>1, <2>2
    <2>3. ASSUME NEW s \in p.states PROVE Variant[s] \in GraphStates'
      BY <1>4, <1>6, <2>1, <2>3
    <2> QED
      BY <2>2, <2>3
  <1>11. ASSUME NEW C \in SUBSET GraphStates', graph'.initial \in C,
                \A i \in DOMAIN graph'.transitions :
                   graph'.transitions[i].from \in C => graph'.transitions[i].to \subseteq C
         PROVE  C = GraphStates'
    <2> DEFINE D == {s \in p.states : Variant[s] \in C}
    <2>1. p.initial \in D /\ D \in SUBSET p.states
      BY <1>4, <1>5, <1>11
    <2>2. Closed(p, D)
      BY <1>4, <1>5, <1>11 DEF Closed
    <2>3. p.states \subseteq D
      BY <1>2, <2>1, <2>2 DEF Valid, Reachable
    <2> QED
      BY <1>10, <2>3
  <1> HIDE DEF p, N, All, to
  <1>12. \A i, j \in DOMAIN graph'.transitions :
            /\ graph'.transitions[i].from = graph'.transitions[j].from
            /\ graph'.transitions[i].event = graph'.transitions[j].event
            => i = j
    BY <1>4, <1>5, <1>8, <1>9
  <1>13. graph'.finals # {}
    BY <1>4, <1>7
  <1>14. GraphStates' = {Variant[s] : s \in macro'.states}
    BY <1>3, <1>10 DEF All, p
  <1> QED
    BY <1>11, <1>12, <1>13, <1>14, Zenon DEF GraphSound

LEMMA StepGraphSound == TypeOK /\ Undecided /\ GraphSound /\ [Next]_vars => GraphSound'
  <1> SUFFICES ASSUME TypeOK, Undecided, GraphSound, [Next]_vars PROVE GraphSound'
    OBVIOUS
  <1>1. CASE \E l \in Lines : ReadLine(l)
    BY <1>1 DEF ReadLine, Undecided, GraphSound
  <1>2. CASE EndOfText
    BY <1>2, GraphSoundAtEnd
  <1>3. CASE UNCHANGED vars
    <2>1. graph' = graph /\ macro' = macro
      BY <1>3 DEF vars
    <2>2. GraphStates' = GraphStates
      BY <2>1 DEF GraphStates
    <2> QED
      BY <2>1, <2>2, Zenon DEF GraphSound
  <1> QED
    BY <1>1, <1>2, <1>3 DEF Next

\* Every graph that the macro generates passes TransitionGraph::validate,
\* mentions all the variants of its state enum and is deterministic.
THEOREM GraphSoundCorrect == Spec => []GraphSound
  <1>1. Init => GraphSound
    BY DEF Init, GraphSound
  <1>2. Spec => [](TypeOK /\ Undecided /\ GraphSound)
    BY <1>1, InitTyped, StepTyped, StepGraphSound, PTL DEF Spec
  <1> QED
    BY <1>2, PTL
=============================================================================
