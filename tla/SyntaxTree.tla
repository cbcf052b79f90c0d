----------------------------- MODULE SyntaxTree -----------------------------
(***************************************************************************)
(* The statements inside of statements, at every depth, and the functions  *)
(* that the visitors follow.                                               *)
(***************************************************************************)
EXTENDS VariableState, Sequences, SequencesExt

CONSTANT MaxNesting     \* how deep statements are nested in each other

ASSUME MaxNestingAssumption == MaxNesting \in Nat

Parts(s) ==
    CASE s.Kind = "IfStmt" -> <<s.Then, s.Else>>
      [] s.Kind \in {"SwitchStmt", "WhileStmt"} -> <<s.Body>>
      [] OTHER -> <<>>

\* The statements at each depth of nesting below a body.
StatementsAt(body) ==
    LET level[n \in Nat] ==
            IF n = 0 THEN ToSet(body)
            ELSE UNION {UNION {ToSet(part) : part \in ToSet(Parts(s))} : s \in level[n - 1]}
    IN level

\* Nothing is nested deeper than MaxNesting.
IsWithinNesting(body) == StatementsAt(body)[MaxNesting + 1] = {}

StatementsIn(body) == UNION {StatementsAt(body)[n] : n \in 0 .. MaxNesting}

OfKind(kinds, statements) == {s \in statements : s.Kind \in kinds}
Labels == {"CaseStmt", "DefaultStmt"}

\* What a compiler asks of a function: a break has a switch or a loop to leave, and
\* no two cases of a switch have the same value.
IsWellFormed(body) ==
    /\ OfKind({"BreakStmt"}, ToSet(body)) = {}
    /\ \A s \in OfKind({"SwitchStmt"}, StatementsIn(body)) : \A i, j \in DOMAIN s.Body :
            /\ s.Body[i].Kind = "CaseStmt" /\ s.Body[j].Kind = "CaseStmt"
            /\ s.Body[i].Value = s.Body[j].Value /\ s.Body[i].Value # Unknown
            => i = j

\* No loop in a switch has a break of its own, the labels of a switch are
\* literals in its own body, and its default is its last label. The code marks the
\* first and the last of these limits as still to be done.
IsFollowed(body) ==
    /\ \A s \in OfKind({"IfStmt", "WhileStmt"}, StatementsIn(body)) :
            \A part \in ToSet(Parts(s)) : OfKind(Labels, ToSet(part)) = {}
    /\ \A s \in OfKind({"SwitchStmt"}, StatementsIn(body)) :
            /\ \A loop \in OfKind({"WhileStmt"}, StatementsIn(s.Body)) :
                    OfKind({"BreakStmt"}, StatementsIn(loop.Body)) = {}
            /\ \A label \in OfKind({"CaseStmt"}, ToSet(s.Body)) : label.Value # Unknown
            /\ \A i, j \in DOMAIN s.Body :
                    s.Body[i].Kind = "DefaultStmt" /\ i < j => s.Body[j].Kind \notin Labels

\* Besides: everything is parsed, no statement is dead, nothing loops or returns,
\* a switch is left from its own body only, and a default is not its only label.
IsFollowedExactly(body) ==
    /\ IsFollowed(body)
    /\ OfKind({"WhileStmt", "ReturnStmt"}, StatementsIn(body)) = {}
    /\ \A s \in OfKind({"IfStmt"}, StatementsIn(body)) :
            /\ s.Condition # NotParsed
            /\ OfKind({"BreakStmt"}, ToSet(s.Then) \cup ToSet(s.Else)) = {}
    /\ \A s \in OfKind({"SwitchStmt"}, StatementsIn(body)) :
            /\ s.Subject # NotParsed
            /\ s.Body # <<>> => s.Body[1].Kind = "CaseStmt"
            /\ \A i \in DOMAIN s.Body \ {Len(s.Body)} :
                    s.Body[i].Kind = "BreakStmt" => s.Body[i + 1].Kind \in Labels
=============================================================================
