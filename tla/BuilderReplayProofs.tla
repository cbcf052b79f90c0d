------------------------ MODULE BuilderReplayProofs ------------------------
(***************************************************************************)
(* A block replays its function, for every program in which the visitors   *)
(* follow everything exactly: what its actions take, with any values of    *)
(* the variables, is what the function does with them, in order.           *)
(***************************************************************************)
EXTENDS BuilderProofs

----------------------------------------------------------------------------
(* Runs, from their first statement on.                                    *)

\* Traces are joined in any order.
Join(a, b, c) ==
    /\ a \o b \in Seq(Nat) /\ b \o c \in Seq(Nat)
    /\ (a \o b) \o c = a \o (b \o c)
LEMMA JoinedTraces ==
    ASSUME NEW a \in Seq(Nat), NEW b \in Seq(Nat), NEW c \in Seq(Nat)
    PROVE  Join(a, b, c)
<1> DEFINE S == Nat
<1>1. a \in Seq(S) /\ b \in Seq(S) /\ c \in Seq(S)
  OBVIOUS
<1> HIDE DEF S
<1>2. a \o b \in Seq(S) /\ b \o c \in Seq(S)
  BY <1>1, ConcatProperties
<1>3. (a \o b) \o c = a \o (b \o c)
  BY <1>1, ConcatAssociative, SMTT(40)
<1> QED BY <1>2, <1>3 DEF S, Join

LEMMA RunItself ==
    ASSUME NEW run \in AllRuns
    PROVE  /\ run.Trace \in Seq(Nat) /\ run = Run(run.Trace, run.Ends)
           /\ Run(<<>> \o run.Trace, run.Ends) = run
           /\ Run(run.Trace \o <<>>, run.Ends) = run
<1>1. run.Trace \in Seq(Nat) /\ run = Run(run.Trace, run.Ends)
  BY DEF AllRuns, Run
<1>2. <<>> \o run.Trace = run.Trace /\ run.Trace \o <<>> = run.Trace
  BY <1>1, ConcatEmptySeq
<1> QED BY <1>1, <1>2

\* A run extended twice is extended by an extended one.
LEMMA ExtendedTwice ==
    ASSUME NEW first \in AllRuns, NEW A \in SUBSET AllRuns, NEW B \in SUBSET AllRuns,
           NEW C, \A m \in A : Extended(m, B) \subseteq C,
           NEW shorter \in Extended(first, A), NEW run \in Extended(shorter, B)
    PROVE  run \in Extended(first, C)
<1>1. CASE first.Ends # "falls"
  <2>1. shorter = first
    BY <1>1 DEF Extended
  <2> QED BY <1>1, <2>1 DEF Extended
<1>2. CASE first.Ends = "falls"
  <2>1. PICK m \in A : shorter = Run(first.Trace \o m.Trace, m.Ends)
    BY <1>2 DEF Extended
  <2>2. m \in AllRuns /\ m.Trace \in Seq(Nat) /\ first.Trace \in Seq(Nat)
    BY <2>1, RunItself
  <2>3. shorter.Ends = m.Ends /\ shorter.Trace = first.Trace \o m.Trace
    BY <2>1 DEF Run
  <2>4. SUFFICES \E longer \in Extended(m, B) :
                    run = Run(first.Trace \o longer.Trace, longer.Ends)
    BY <1>2, <2>1 DEF Extended
  <2>5. CASE m.Ends # "falls"
    <3>1. m \in Extended(m, B) /\ run = shorter
      BY <2>3, <2>5 DEF Extended
    <3> QED BY <2>1, <3>1
  <2>6. CASE m.Ends = "falls"
    <3>1. PICK last \in B : run = Run(shorter.Trace \o last.Trace, last.Ends)
      BY <2>3, <2>6 DEF Extended
    <3>2. last.Trace \in Seq(Nat)
      BY <3>1, RunItself
    <3> DEFINE longer == Run(m.Trace \o last.Trace, last.Ends)
    <3>3. longer \in Extended(m, B)
      BY <2>6, <3>1 DEF Extended
    <3>4. longer.Trace = m.Trace \o last.Trace /\ longer.Ends = last.Ends
      BY DEF Run
    <3>5. Join(first.Trace, m.Trace, last.Trace)
      BY <2>2, <3>2, JoinedTraces
    <3>6. (first.Trace \o m.Trace) \o last.Trace = first.Trace \o (m.Trace \o last.Trace)
      BY <3>5 DEF Join
    <3> QED BY <2>3, <3>1, <3>3, <3>4, <3>6
  <2> QED BY <2>5, <2>6
<1> QED BY <1>1, <1>2

\* A run of a body is one of its first statement, with one of the others behind it.
LEMMA HeadOfBody ==
    ASSUME NEW body \in Seq(Statements), body # <<>>, NEW env, NEW n \in Nat,
           NEW run \in RunsNested(env)[n + 1][body]
    PROVE  \E first \in RunsOfStatement(body[1], env, RunsNested(env)[n]) :
                run \in Extended(first, RunsNested(env)[n + 1][Tail(body)])
<1> DEFINE inner == RunsNested(env)[n]
           tail == Tail(body)
           upTo == RunsUpTo(body, env, inner)
           behind == RunsUpTo(tail, env, inner)
           firsts == RunsOfStatement(body[1], env, inner)
           none == Run(<<>>, "falls")
<1>1. /\ tail \in Seq(Statements) /\ Len(body) \in Nat \ {0} /\ Len(tail) = Len(body) - 1
      /\ \A i \in 1 .. Len(tail) : tail[i] = body[i + 1]
      /\ \A i \in 1 .. Len(body) : body[i] \in Statements
  BY EmptySeq, HeadTailProperties, ElementOfSeq
<1>2. inner \in [Bodies -> SUBSET AllRuns] /\ run \in upTo[Len(body)]
  <2>1. inner \in [Bodies -> SUBSET AllRuns]
    BY NestedSteps
  <2>2. \A b \in Bodies : RunsNested(env)[n + 1][b] = RunsUpTo(b, env, inner)[Len(b)]
    BY NestedSteps
  <2>3. body \in Bodies
    BY DEF Bodies
  <2> HIDE DEF inner
  <2> QED BY <2>1, <2>2, <2>3
<1>3. RunsNested(env)[n + 1][tail] = behind[Len(tail)]
  <2>1. \A b \in Seq(Statements) :
            RunsNested(env)[n + 1][b] = RunsUpTo(b, env, RunsNested(env)[n])[Len(b)]
    BY NestedSteps DEF Bodies
  <2> HIDE DEF tail
  <2> QED BY <1>1, <2>1
<1> HIDE DEF inner, tail
<1>4. /\ upTo[0] = {none}
      /\ \A i \in 1 .. Len(body) : upTo[i] = RunsThrough(body[i], env, inner, upTo[i - 1])
      /\ \A i \in 0 .. Len(body) : upTo[i] \in SUBSET AllRuns
  BY <1>2, UpToSteps
<1>5. /\ behind[0] = {none}
      /\ \A i \in 1 .. Len(tail) : behind[i] = RunsThrough(tail[i], env, inner, behind[i - 1])
      /\ \A i \in 0 .. Len(tail) : behind[i] \in SUBSET AllRuns
  BY <1>1, <1>2, UpToSteps
<1>6. firsts \in SUBSET AllRuns
  BY <1>1, <1>2, StatementRunsType
<1>7. none.Ends = "falls" /\ none.Trace = <<>> /\ none \in AllRuns
  BY EmptySeq, RunType
<1> DEFINE Split == {i \in Nat : i + 1 <= Len(body) =>
                        \A r \in upTo[i + 1] : \E first \in firsts : r \in Extended(first, behind[i])}
<1> HIDE DEF upTo, behind, none
<1>8. 0 \in Split
  <2> SUFFICES ASSUME NEW r \in upTo[1] PROVE \E first \in firsts : r \in Extended(first, behind[0])
    OBVIOUS
  <2>1. upTo[1] = Extended(none, firsts)
    <3>1. 1 \in 1 .. Len(body) /\ 1 - 1 = 0
      BY <1>1
    <3>2. upTo[1] = RunsThrough(body[1], env, inner, {none})
      BY <1>4, <3>1
    <3>3. \A R : UNION {Extended(r1, R) : r1 \in {none}} = Extended(none, R)
      OBVIOUS
    <3> HIDE DEF firsts
    <3> QED BY <3>2, <3>3 DEF RunsThrough, firsts
  <2>2. PICK first \in firsts : r = Run(<<>> \o first.Trace, first.Ends)
    BY <1>7, <2>1 DEF Extended
  <2>3. r = first /\ r = Run(first.Trace \o <<>>, first.Ends) /\ first \in AllRuns
    BY <1>6, <2>2, RunItself
  <2>4. CASE first.Ends # "falls"
    BY <2>2, <2>3, <2>4 DEF Extended
  <2>5. CASE first.Ends = "falls"
    <3>1. none \in behind[0] /\ r = Run(first.Trace \o none.Trace, none.Ends)
      BY <1>5, <1>7, <2>3, <2>5
    <3>2. r \in Extended(first, behind[0])
      BY <2>5, <3>1 DEF Extended
    <3> QED BY <3>2
  <2> QED BY <2>4, <2>5
<1>9. ASSUME NEW i \in Nat, i \in Split PROVE i + 1 \in Split
  <2> SUFFICES ASSUME (i + 1) + 1 <= Len(body), NEW r \in upTo[(i + 1) + 1]
               PROVE  \E first \in firsts : r \in Extended(first, behind[i + 1])
    OBVIOUS
  <2>1. /\ (i + 1) + 1 \in 1 .. Len(body) /\ ((i + 1) + 1) - 1 = i + 1 /\ i + 1 <= Len(body)
        /\ i + 1 \in 1 .. Len(tail) /\ (i + 1) - 1 = i /\ i + 1 \in 0 .. Len(body)
        /\ i \in 0 .. Len(tail)
    BY <1>1
  <2> DEFINE lasts == RunsOfStatement(body[(i + 1) + 1], env, inner)
  <2>2. lasts \in SUBSET AllRuns
    BY <1>1, <1>2, <2>1, StatementRunsType
  <2>3. upTo[(i + 1) + 1] = RunsThrough(body[(i + 1) + 1], env, inner, upTo[i + 1])
    BY <1>4, <2>1
  <2>4. PICK shorter \in upTo[i + 1] : r \in Extended(shorter, lasts)
    BY <2>3 DEF RunsThrough
  <2>5. PICK first \in firsts : shorter \in Extended(first, behind[i])
    BY <1>9, <2>1, <2>4
  <2>6. behind[i + 1] = RunsThrough(body[(i + 1) + 1], env, inner, behind[i])
    BY <1>1, <1>5, <2>1
  <2>7. \A m \in behind[i] : Extended(m, lasts) \subseteq behind[i + 1]
    BY <2>6 DEF RunsThrough
  <2>8. first \in AllRuns /\ behind[i] \in SUBSET AllRuns
    BY <1>5, <1>6, <2>1, <2>5
  <2> HIDE DEF lasts
  <2>9. r \in Extended(first, behind[i + 1])
    BY <2>2, <2>4, <2>5, <2>7, <2>8, ExtendedTwice
  <2> QED BY <2>5, <2>9
<1> HIDE DEF Split
<1>10. Nat \subseteq Split
  BY <1>8, <1>9, Induction
<1>11. /\ Len(tail) \in Nat /\ Len(tail) + 1 = Len(body)
  BY <1>1
<1>12. \E first \in firsts : run \in Extended(first, behind[Len(tail)])
  BY <1>2, <1>10, <1>11 DEF Split
<1> QED BY <1>3, <1>12 DEF inner, tail

----------------------------------------------------------------------------
(* Statements that the visitors follow exactly.                            *)

\* What IsFollowedExactly and IsWellFormed say of a statement.
IsPrecise(s) ==
    /\ s.Kind \notin {"WhileStmt", "ReturnStmt"}
    /\ s.Kind = "IfStmt" =>
            /\ s.Condition # NotParsed
            /\ OfKind({"BreakStmt"}, ToSet(s.Then) \cup ToSet(s.Else)) = {}
    /\ s.Kind = "SwitchStmt" =>
            /\ s.Subject # NotParsed
            /\ s.Body # <<>> => s.Body[1].Kind = "CaseStmt"
            /\ \A i \in DOMAIN s.Body \ {Len(s.Body)} :
                    s.Body[i].Kind = "BreakStmt" => s.Body[i + 1].Kind \in Labels
            /\ \A i, j \in DOMAIN s.Body :
                    /\ s.Body[i].Kind = "CaseStmt" /\ s.Body[j].Kind = "CaseStmt"
                    /\ s.Body[i].Value = s.Body[j].Value /\ s.Body[i].Value # Unknown
                    => i = j
IsExact(s) == IsFollowable(s) /\ \A t \in StatementsIn(<<s>>) : IsPrecise(t)

LEMMA PartIsExact ==
    ASSUME NEW s, IsExact(s), NEW part \in ToSet(Parts(s)), NEW p \in 1 .. Len(part)
    PROVE  IsExact(part[p])
<1>1. IsFollowable(s) /\ s \in StatementsIn(<<s>>)
  BY InItself DEF IsExact
<1>2. StatementsIn(part) \subseteq StatementsIn(<<s>>)
  BY <1>1, StatementNested DEF IsFollowable
<1>3. IsFollowable(part[p]) /\ StatementsIn(<<part[p]>>) \subseteq StatementsIn(part)
  BY <1>1, PartIsFollowable
<1> QED BY <1>2, <1>3 DEF IsExact

LEMMA BodyIsExact ==
    ASSUME NEW body, IsNested(body), IsFollowedExactly(body), IsLocated(body),
           IsWellFormed(body), NEW p \in 1 .. Len(body)
    PROVE  IsExact(body[p]) /\ body[p].Kind # "BreakStmt"
<1>1. IsFollowed(body)
  BY DEF IsFollowedExactly
<1>2. IsFollowable(body[p])
  BY <1>1, BodyIsFollowable
<1>3. body[p] \in ToSet(body) /\ body[p] \in StatementsIn(body)
  <2>1. p \in DOMAIN body /\ body \in Seq(Statements)
    BY LenProperties DEF IsNested
  <2> QED BY <2>1, ElementsType, StatementsInMeaning
<1>4. StatementsIn(<<body[p]>>) \subseteq StatementsIn(body)
  BY <1>3, StatementNested
<1>5. ASSUME NEW t \in StatementsIn(body) PROVE IsPrecise(t)
  <2>1. t.Kind \notin {"WhileStmt", "ReturnStmt"}
    BY DEF IsFollowedExactly, OfKind
  <2>2. ASSUME t.Kind = "IfStmt"
        PROVE  /\ t.Condition # NotParsed
               /\ OfKind({"BreakStmt"}, ToSet(t.Then) \cup ToSet(t.Else)) = {}
    <3>1. t \in OfKind({"IfStmt"}, StatementsIn(body))
      BY <2>2 DEF OfKind
    <3> QED BY <3>1 DEF IsFollowedExactly
  <2>3. ASSUME t.Kind = "SwitchStmt"
        PROVE  /\ t.Subject # NotParsed
               /\ t.Body # <<>> => t.Body[1].Kind = "CaseStmt"
               /\ \A i \in DOMAIN t.Body \ {Len(t.Body)} :
                    t.Body[i].Kind = "BreakStmt" => t.Body[i + 1].Kind \in Labels
               /\ \A i, j \in DOMAIN t.Body :
                    /\ t.Body[i].Kind = "CaseStmt" /\ t.Body[j].Kind = "CaseStmt"
                    /\ t.Body[i].Value = t.Body[j].Value /\ t.Body[i].Value # Unknown
                    => i = j
    <3>1. t \in OfKind({"SwitchStmt"}, StatementsIn(body))
      BY <2>3 DEF OfKind
    <3> QED BY <3>1 DEF IsFollowedExactly, IsWellFormed
  <2> QED BY <2>1, <2>2, <2>3 DEF IsPrecise
<1>6. body[p].Kind # "BreakStmt"
  BY <1>3 DEF IsWellFormed, OfKind
<1> QED BY <1>2, <1>4, <1>5, <1>6 DEF IsExact

LEMMA ExactIf ==
    ASSUME NEW s, IsExact(s), s.Kind = "IfStmt"
    PROVE  /\ s.Condition \in ParsedConditions
           /\ \A part \in {s.Then, s.Else} :
                /\ part \in Seq(Statements) /\ part \in ToSet(Parts(s))
                /\ \A p \in 1 .. Len(part) :
                        IsExact(part[p]) /\ part[p].Kind \notin Labels \cup {"BreakStmt"}
<1>1. s \in Statements /\ IsFollowable(s) /\ s \in StatementsIn(<<s>>) /\ IsOrdinary(s)
  BY InItself DEF IsExact, IsFollowable
<1>2. IsPrecise(s)
  BY <1>1 DEF IsExact
<1>3. s.Condition \in ParsedConditions
  BY <1>1, <1>2, StatementParts DEF IsPrecise
<1>4. ASSUME NEW part \in {s.Then, s.Else}
      PROVE  /\ part \in Seq(Statements) /\ part \in ToSet(Parts(s))
             /\ \A p \in 1 .. Len(part) :
                    IsExact(part[p]) /\ part[p].Kind \notin Labels \cup {"BreakStmt"}
  <2>1. part \in ToSet(Parts(s)) /\ part \in Seq(Statements)
    BY <1>1, PartsType
  <2>2. OfKind(Labels, ToSet(part)) = {}
    BY <1>1, <2>1 DEF IsOrdinary
  <2>3. OfKind({"BreakStmt"}, ToSet(part)) = {}
    BY <1>2 DEF IsPrecise, OfKind
  <2>4. ASSUME NEW p \in 1 .. Len(part)
        PROVE  IsExact(part[p]) /\ part[p].Kind \notin Labels \cup {"BreakStmt"}
    <3>1. part[p] \in ToSet(part)
      BY <2>1, ElementsType
    <3> QED BY <2>1, <2>2, <2>3, <3>1, PartIsExact DEF OfKind
  <2> QED BY <2>1, <2>4
<1> QED BY <1>3, <1>4

LEMMA ExactSwitch ==
    ASSUME NEW s, IsExact(s), s.Kind = "SwitchStmt"
    PROVE  /\ s.Subject \in Copies \cup Primitives /\ s.Body \in Seq(Statements)
           /\ s.Subject # NotParsed
           /\ DOMAIN s.Body = 1 .. Len(s.Body) /\ Len(s.Body) \in Nat
           /\ \A p \in 1 .. Len(s.Body) : IsExact(s.Body[p])
           /\ IsPrecise(s)
<1>1. s \in Statements /\ IsFollowable(s) /\ s \in StatementsIn(<<s>>)
  BY InItself DEF IsExact, IsFollowable
<1>2. IsPrecise(s)
  BY <1>1 DEF IsExact
<1>3. s.Subject # NotParsed /\ s.Subject \in Copies \cup Primitives /\ s.Body \in Seq(Statements)
  BY <1>1, <1>2, StatementParts DEF IsPrecise
<1>4. s.Body \in ToSet(Parts(s))
  BY <1>1, PartsType
<1> QED BY <1>2, <1>3, <1>4, PartIsExact, LenProperties

----------------------------------------------------------------------------
(* How runs of these statements end.                                       *)

EndsAs(s, run) == run.Ends = IF s.Kind = "BreakStmt" THEN "breaks" ELSE "falls"
EndsIn(body, run) ==
    \/ run.Ends = "falls"
    \/ run.Ends = "breaks" /\ \E p \in 1 .. Len(body) : body[p].Kind = "BreakStmt"

LEMMA BodyEnds ==
    ASSUME NEW body \in Seq(Statements), NEW env, NEW n \in Nat,
           \A p \in 1 .. Len(body) :
                \A r \in RunsOfStatement(body[p], env, RunsNested(env)[n]) : EndsAs(body[p], r),
           NEW run \in RunsNested(env)[n + 1][body]
    PROVE  EndsIn(body, run)
<1> DEFINE inner == RunsNested(env)[n]
           upTo == RunsUpTo(body, env, inner)
<1>1. inner \in [Bodies -> SUBSET AllRuns] /\ run \in upTo[Len(body)]
  BY NestedSteps DEF Bodies
<1>2. /\ upTo[0] = {Run(<<>>, "falls")}
      /\ \A i \in 1 .. Len(body) : upTo[i] = RunsThrough(body[i], env, inner, upTo[i - 1])
  BY <1>1, UpToSteps
<1>3. Len(body) \in Nat
  BY LenProperties
<1> DEFINE Ending == {i \in Nat : i <= Len(body) => \A r \in upTo[i] : EndsIn(body, r)}
<1> HIDE DEF upTo
<1>4. 0 \in Ending
  BY <1>2 DEF EndsIn, Run
<1>5. ASSUME NEW i \in Nat, i \in Ending PROVE i + 1 \in Ending
  <2> SUFFICES ASSUME i + 1 <= Len(body), NEW r \in upTo[i + 1] PROVE EndsIn(body, r)
    OBVIOUS
  <2>1. i + 1 \in 1 .. Len(body) /\ (i + 1) - 1 = i /\ i <= Len(body)
    BY <1>3
  <2>2. upTo[i + 1] = RunsThrough(body[i + 1], env, inner, upTo[i])
    BY <1>2, <2>1
  <2>3. PICK shorter \in upTo[i] :
            r \in Extended(shorter, RunsOfStatement(body[i + 1], env, inner))
    BY <2>2 DEF RunsThrough
  <2>4. EndsIn(body, shorter)
    BY <1>5, <2>1, <2>3
  <2>5. CASE shorter.Ends # "falls"
    BY <2>3, <2>4, <2>5 DEF Extended
  <2>6. CASE shorter.Ends = "falls"
    <3>1. PICK more \in RunsOfStatement(body[i + 1], env, inner) :
                r = Run(shorter.Trace \o more.Trace, more.Ends)
      BY <2>3, <2>6 DEF Extended
    <3>2. r.Ends = more.Ends /\ EndsAs(body[i + 1], more)
      BY <2>1, <3>1 DEF Run
    <3> QED BY <2>1, <3>2 DEF EndsAs, EndsIn
  <2> QED BY <2>5, <2>6
<1> HIDE DEF Ending
<1>6. Nat \subseteq Ending
  BY <1>4, <1>5, Induction
<1> QED BY <1>1, <1>3, <1>6 DEF Ending

LEMMA StatementEnds ==
    ASSUME NEW env, NEW n \in Nat
    PROVE  \A s : IsExact(s) =>
                \A run \in RunsOfStatement(s, env, RunsNested(env)[n]) : EndsAs(s, run)
<1> DEFINE S == {m \in Nat : \A s : IsExact(s) =>
                    \A run \in RunsOfStatement(s, env, RunsNested(env)[m]) : EndsAs(s, run)}
<1>1. ASSUME NEW m \in Nat, m = 0 \/ \E k \in Nat : m = k + 1 /\ k \in S
      PROVE  m \in S
  <2> SUFFICES ASSUME NEW s, IsExact(s),
                      NEW run \in RunsOfStatement(s, env, RunsNested(env)[m])
               PROVE  EndsAs(s, run)
    OBVIOUS
  <2> DEFINE inner == RunsNested(env)[m]
  <2>1. ASSUME NEW body \in Seq(Statements), \A p \in 1 .. Len(body) : IsExact(body[p]),
               NEW r \in inner[body]
        PROVE  EndsIn(body, r)
    <3>1. CASE m = 0
      BY <2>1, <3>1, NestedSteps DEF Bodies
    <3>2. CASE m # 0
      <4>1. PICK k \in Nat : m = k + 1 /\ k \in S
        BY <1>1, <3>2
      <4>2. \A p \in 1 .. Len(body) :
                \A x \in RunsOfStatement(body[p], env, RunsNested(env)[k]) : EndsAs(body[p], x)
        BY <2>1, <4>1
      <4>3. r \in RunsNested(env)[k + 1][body]
        BY <2>1, <4>1
      <4> HIDE DEF S
      <4> QED BY <4>2, <4>3, BodyEnds
    <3> QED BY <3>1, <3>2
  <2> HIDE DEF S
  <2>2. s.Kind \notin {"WhileStmt", "ReturnStmt"}
    <3>1. s \in StatementsIn(<<s>>)
      BY InItself DEF IsExact
    <3> QED BY <3>1 DEF IsExact, IsPrecise
  <2>3. CASE s.Kind = "IfStmt"
    <3>1. /\ s.Condition # NotParsed
          /\ \A part \in {s.Then, s.Else} :
                /\ part \in Seq(Statements)
                /\ \A p \in 1 .. Len(part) : IsExact(part[p]) /\ part[p].Kind # "BreakStmt"
      <4>1. s \in StatementsIn(<<s>>)
        BY InItself DEF IsExact
      <4>2. IsPrecise(s)
        BY <4>1 DEF IsExact
      <4>3. s.Condition # NotParsed
        BY <2>3, <4>2 DEF IsPrecise
      <4>4. \A part \in {s.Then, s.Else} :
                /\ part \in Seq(Statements)
                /\ \A p \in 1 .. Len(part) :
                        IsExact(part[p]) /\ part[p].Kind \notin Labels \cup {"BreakStmt"}
        BY <2>3, ExactIf
      <4> HIDE DEF inner
      <4> QED BY <4>3, <4>4
    <3>2. PICK part \in {s.Then, s.Else} : run \in inner[part]
      BY <2>3, <3>1 DEF RunsOfStatement
    <3>3. EndsIn(part, run)
      BY <2>1, <3>1, <3>2
    <3> QED BY <2>3, <3>1, <3>3 DEF EndsIn, EndsAs
  <2>4. CASE s.Kind = "SwitchStmt"
    <3>1. PICK i \in Entries(s.Body, s.Subject, env) :
                \E r \in inner[SubSeq(s.Body, i, Len(s.Body))] : run = LeaveStatement(r)
      BY <2>4, RunsOfSwitch
    <3> DEFINE rest == SubSeq(s.Body, i, Len(s.Body))
    <3>2. PICK r \in inner[rest] : run = LeaveStatement(r)
      BY <3>1
    <3>3. s.Body \in Seq(Statements) /\ \A p \in 1 .. Len(s.Body) : IsExact(s.Body[p])
      BY <2>4, ExactSwitch
    <3>4. /\ rest \in Seq(Statements)
          /\ \A p \in 1 .. Len(rest) : IsExact(rest[p])
      <4>1. i \in 1 .. Len(s.Body) + 1
        BY <3>3, EntriesType
      <4> QED BY <3>3, <4>1, RestOfBody
    <3> HIDE DEF rest
    <3>5. EndsIn(rest, r)
      BY <2>1, <3>2, <3>4
    <3> QED BY <2>4, <3>2, <3>5 DEF EndsIn, EndsAs, LeaveStatement, Run
  <2>5. CASE s.Kind = "BreakStmt"
    BY <2>5, RunsOfBreak DEF EndsAs, Run
  <2>6. CASE s.Kind \notin {"IfStmt", "SwitchStmt", "BreakStmt"}
    BY <2>2, <2>6, RunsOfOther DEF EndsAs, Run
  <2> QED BY <2>3, <2>4, <2>5, <2>6
<1> HIDE DEF S
<1>2. 0 \in S
  BY <1>1
<1>3. ASSUME NEW m \in Nat, m \in S PROVE m + 1 \in S
  <2>1. m + 1 \in Nat
    OBVIOUS
  <2> QED BY <1>1, <1>3, <2>1
<1>4. Nat \subseteq S
  BY <1>2, <1>3, Induction
<1> QED BY <1>4 DEF S

----------------------------------------------------------------------------
(* Where runs lead: the traces of a body, and of a statement.              *)

Leads(body, env) ==
    {run.Trace : run \in UNION {RunsNested(env)[n][body] : n \in Nat}}
Does(s, env) ==
    {run.Trace : run \in UNION {RunsOfStatement(s, env, RunsNested(env)[n]) : n \in Nat}}

LEMMA LeadsType ==
    ASSUME NEW body \in Seq(Statements), NEW env
    PROVE  Leads(body, env) \in SUBSET Seq(Nat)
<1>1. ASSUME NEW n \in Nat PROVE RunsNested(env)[n][body] \in SUBSET AllRuns
  BY NestedSteps DEF Bodies
<1> QED BY <1>1 DEF Leads, AllRuns

LEMMA DoesType ==
    ASSUME NEW s \in Statements, NEW env
    PROVE  Does(s, env) \in SUBSET Seq(Nat)
<1>1. ASSUME NEW n \in Nat
      PROVE  RunsOfStatement(s, env, RunsNested(env)[n]) \in SUBSET AllRuns
  BY NestedSteps, StatementRunsType
<1> QED BY <1>1 DEF Does, AllRuns

\* A run has a level.
HasLevel(body, env, t) ==
    \E n \in Nat : \E run \in RunsNested(env)[n + 1][body] : t = run.Trace
LEMMA LeadsLevel ==
    ASSUME NEW body \in Seq(Statements), NEW env, NEW t \in Leads(body, env)
    PROVE  HasLevel(body, env, t)
<1>1. PICK n \in Nat : \E run \in RunsNested(env)[n][body] : t = run.Trace
  BY DEF Leads
<1>2. n # 0
  BY <1>1, NestedSteps DEF Bodies
<1>3. n - 1 \in Nat /\ (n - 1) + 1 = n
  BY <1>2
<1>4. \E run \in RunsNested(env)[(n - 1) + 1][body] : t = run.Trace
  BY <1>1, <1>3
<1> QED BY <1>3, <1>4 DEF HasLevel

LEMMA NothingLeads ==
    ASSUME NEW body \in Seq(Statements), Len(body) = 0, NEW env
    PROVE  Leads(body, env) = {<<>>}
<1>1. ASSUME NEW n \in Nat PROVE RunsNested(env)[n + 1][body] = {Run(<<>>, "falls")}
  <2> DEFINE inner == RunsNested(env)[n]
  <2>1. inner \in [Bodies -> SUBSET AllRuns]
    BY NestedSteps
  <2>2. \A b \in Seq(Statements) : RunsNested(env)[n + 1][b] = RunsUpTo(b, env, inner)[Len(b)]
    BY NestedSteps DEF Bodies
  <2> HIDE DEF inner
  <2>3. /\ RunsUpTo(body, env, inner)[0] = {Run(<<>>, "falls")}
        /\ \A i \in 0 .. Len(body) : RunsUpTo(body, env, inner)[i] \in SUBSET AllRuns
    BY <2>1, UpToSteps, ZenonT(40)
  <2> QED BY <2>2, <2>3
<1>2. Run(<<>>, "falls").Trace = <<>>
  BY DEF Run
<1>3. <<>> \in Leads(body, env)
  <2>1. PICK n \in Nat : n = 0
    OBVIOUS
  <2>2. n + 1 \in Nat /\ Run(<<>>, "falls") \in RunsNested(env)[n + 1][body]
    BY <1>1
  <2> QED BY <1>2, <2>2 DEF Leads
<1>4. \A t \in Leads(body, env) : HasLevel(body, env, t)
  BY LeadsLevel
<1>5. ASSUME NEW t, HasLevel(body, env, t) PROVE t = <<>>
  <2>1. PICK n \in Nat : \E run \in RunsNested(env)[n + 1][body] : t = run.Trace
    BY <1>5 DEF HasLevel
  <2> QED BY <1>1, <1>2, <2>1
<1> QED BY <1>3, <1>4, <1>5

\* The trace of a body begins with its first statement's, and ends there when that
\* is a break.
LEMMA LeadsOn ==
    ASSUME NEW body \in Seq(Statements), body # <<>>, IsExact(body[1]), NEW env,
           NEW t \in Leads(body, env)
    PROVE  IF body[1].Kind = "BreakStmt" THEN t = <<>>
           ELSE \E a \in Does(body[1], env) : \E b \in Leads(Tail(body), env) : t = a \o b
<1>1. PICK n \in Nat : \E run \in RunsNested(env)[n + 1][body] : t = run.Trace
  BY LeadsLevel DEF HasLevel
<1>2. PICK run \in RunsNested(env)[n + 1][body] : t = run.Trace
  BY <1>1
<1>3. PICK first \in RunsOfStatement(body[1], env, RunsNested(env)[n]) :
            run \in Extended(first, RunsNested(env)[n + 1][Tail(body)])
  BY HeadOfBody
<1>4. EndsAs(body[1], first)
  BY StatementEnds
<1>5. CASE body[1].Kind = "BreakStmt"
  <2>1. first = Run(<<>>, "breaks")
    BY <1>3, <1>5, RunsOfBreak
  <2>2. run = first
    BY <1>3, <2>1 DEF Extended, Run
  <2> QED BY <1>2, <1>5, <2>1, <2>2 DEF Run
<1>6. CASE body[1].Kind # "BreakStmt"
  <2>1. PICK more \in RunsNested(env)[n + 1][Tail(body)] :
            run = Run(first.Trace \o more.Trace, more.Ends)
    BY <1>3, <1>4, <1>6 DEF Extended, EndsAs
  <2>2. t = first.Trace \o more.Trace
    BY <1>2, <2>1 DEF Run
  <2>3. first.Trace \in Does(body[1], env)
    BY <1>3 DEF Does
  <2>4. more.Trace \in Leads(Tail(body), env)
    <3>1. n + 1 \in Nat
      OBVIOUS
    <3> QED BY <2>1, <3>1 DEF Leads
  <2> QED BY <1>6, <2>2, <2>3, <2>4
<1> QED BY <1>5, <1>6

\* What a statement does, by its kind.
LEMMA IfDoes ==
    ASSUME NEW s, IsExact(s), s.Kind = "IfStmt", NEW env, NEW t \in Does(s, env)
    PROVE  t \in Leads(IF LeafHolds(s.Condition, env) THEN s.Then ELSE s.Else, env)
<1>1. PICK n \in Nat : \E run \in RunsOfStatement(s, env, RunsNested(env)[n]) : t = run.Trace
  BY DEF Does
<1>2. s.Condition # NotParsed
  <2>1. s \in StatementsIn(<<s>>)
    BY InItself DEF IsExact
  <2> QED BY <2>1 DEF IsExact, IsPrecise
<1>3. RunsOfStatement(s, env, RunsNested(env)[n])
        = RunsNested(env)[n][IF LeafHolds(s.Condition, env) THEN s.Then ELSE s.Else]
  BY <1>2 DEF RunsOfStatement
<1> QED BY <1>1, <1>3 DEF Leads

LEMMA SwitchDoes ==
    ASSUME NEW s, IsExact(s), s.Kind = "SwitchStmt", NEW env, NEW t \in Does(s, env)
    PROVE  \E i \in Entries(s.Body, s.Subject, env) :
                t \in Leads(SubSeq(s.Body, i, Len(s.Body)), env)
<1>1. PICK n \in Nat : \E run \in RunsOfStatement(s, env, RunsNested(env)[n]) : t = run.Trace
  BY DEF Does
<1>2. PICK run \in RunsOfStatement(s, env, RunsNested(env)[n]) : t = run.Trace
  BY <1>1
<1>3. PICK i \in Entries(s.Body, s.Subject, env) :
            \E r \in RunsNested(env)[n][SubSeq(s.Body, i, Len(s.Body))] : run = LeaveStatement(r)
  BY <1>2, RunsOfSwitch
<1> DEFINE rest == SubSeq(s.Body, i, Len(s.Body))
<1>4. PICK r \in RunsNested(env)[n][rest] : run = LeaveStatement(r)
  BY <1>3
<1>5. t = r.Trace
  BY <1>2, <1>4 DEF LeaveStatement, Run
<1>6. t \in Leads(rest, env)
  BY <1>4, <1>5 DEF Leads
<1> QED BY <1>6

LEMMA OtherDoes ==
    ASSUME NEW s, IsExact(s), s.Kind \notin {"IfStmt", "SwitchStmt"}, NEW env,
           NEW t \in Does(s, env)
    PROVE  t = IF Recorded(s) THEN <<s.At>> ELSE <<>>
<1>1. PICK n \in Nat : \E run \in RunsOfStatement(s, env, RunsNested(env)[n]) : t = run.Trace
  BY DEF Does
<1>2. s.Kind \notin {"WhileStmt", "ReturnStmt"}
  <2>1. s \in StatementsIn(<<s>>)
    BY InItself DEF IsExact
  <2> QED BY <2>1 DEF IsExact, IsPrecise
<1>3. CASE s.Kind = "BreakStmt"
  <2>1. t = <<>>
    BY <1>1, <1>3, RunsOfBreak DEF Run
  <2>2. ~Recorded(s)
    BY <1>3 DEF Recorded
  <2> QED BY <2>1, <2>2
<1>4. CASE s.Kind # "BreakStmt"
  BY <1>1, <1>2, <1>4, RunsOfOther DEF Run
<1> QED BY <1>3, <1>4

----------------------------------------------------------------------------
(* Conditions hold nowhere else.                                           *)

LEMMA AndExact ==
    ASSUME NEW condition \in Conditions, NEW other \in Asking, NEW env
    PROVE  Evaluate(And(condition, other), env) <=>
                Evaluate(condition, env) /\ Evaluate(other, env)
<1>1. other.Tautology = FALSE
  BY AskingParts
<1>2. CASE condition = Always
  BY <1>1, <1>2 DEF And, Evaluate, Always
<1>3. CASE condition # Always
  <2>1. condition.Tautology = FALSE
    BY <1>3, AskingParts DEF Asking
  <2>2. And(condition, other).Tautology = FALSE
    BY <1>1, <2>1 DEF And
  <2>3. And(condition, other).VariableConditions =
            UNION {{left \cup right : right \in other.VariableConditions} :
                        left \in condition.VariableConditions}
    BY <1>1, <2>1 DEF And
  <2>4. ASSUME Evaluate(And(condition, other), env)
        PROVE  Evaluate(condition, env) /\ Evaluate(other, env)
    <3>1. PICK conjunction \in And(condition, other).VariableConditions :
                \A leaf \in conjunction : LeafHolds(leaf, env)
      BY <2>2, <2>4 DEF Evaluate
    <3>2. PICK left \in condition.VariableConditions :
                \E right \in other.VariableConditions : conjunction = left \cup right
      BY <2>3, <3>1
    <3>3. PICK right \in other.VariableConditions : conjunction = left \cup right
      BY <3>2
    <3> QED BY <3>1, <3>2, <3>3 DEF Evaluate
  <2> QED BY <2>4, AndHolds
<1> QED BY <1>2, <1>3

LEMMA NegatedExact ==
    ASSUME NEW env \in Environments, NEW leaf \in ParsedConditions
    PROVE  /\ Evaluate(When(leaf), env) <=> LeafHolds(leaf, env)
           /\ Evaluate(Negate(When(leaf)), env) <=> ~LeafHolds(leaf, env)
           /\ When(leaf) \in Asking /\ Negate(When(leaf)) \in Asking
<1>1. env \in Values /\ leaf \in Leaves
  BY EnvironmentType DEF ParsedConditions
<1>2. When(leaf) \in Asking /\ Negate(When(leaf)) \in Asking
  BY <1>1, WhenType, NegateType
<1>3. Evaluate(When(leaf), env) <=> LeafHolds(leaf, env)
  BY SingleCondition
<1>4. Evaluate(Negate(When(leaf)), env) <=> LeafHolds(NegateLeaf(leaf), env)
  BY SingleCondition
<1>5. ~(LeafHolds(leaf, env) /\ LeafHolds(NegateLeaf(leaf), env))
  BY <1>1, NegatedLeaf
<1> QED BY <1>2, <1>3, <1>4, <1>5, NegatedHolds

\* The condition before a default holds if none of the cases' does.
LEMMA NoneOfExact ==
    ASSUME NEW env \in Environments, NEW subject \in Copies \cup Primitives, NEW cases,
           cases # {},
           \A c \in cases : \E value \in Primitives : c = MatchesCase(subject, value)
    PROVE  /\ NoneOf(cases).Tautology = FALSE
           /\ Evaluate(NoneOf(cases), env) <=> \A c \in cases : ~Evaluate(c, env)
<1>1. /\ NoneOf(cases).Tautology = FALSE
      /\ NoneOf(cases).VariableConditions = {{TheLeaf(Negate(c)) : c \in cases}}
  BY DEF NoneOf
<1>2. ASSUME Evaluate(NoneOf(cases), env), NEW c \in cases PROVE ~Evaluate(c, env)
  <2>1. LeafHolds(TheLeaf(Negate(c)), env)
    BY <1>1, <1>2 DEF Evaluate
  <2>2. PICK value \in Primitives : c = MatchesCase(subject, value)
    BY <1>2
  <2> DEFINE leaf == Leaf(subject, ComparedConstant("EQUAL", value))
  <2>3. leaf \in Leaves /\ c = When(leaf) /\ env \in Values
    BY <2>2, EnvironmentType DEF Leaf, Leaves, ComparedConstant, ValueRanges, Literals, COMPARISON,
                                 MatchesCase
  <2> HIDE DEF leaf
  <2>4. c \in Asking /\ c.Tautology = FALSE
    BY <2>3, WhenType, AskingParts
  <2>5. Negate(c) = When(NegateLeaf(leaf))
    BY <2>3, <2>4, SingleCondition DEF Negate
  <2>6. LeafHolds(NegateLeaf(leaf), env)
    BY <2>1, <2>5, SingleCondition
  <2>7. ~(LeafHolds(leaf, env) /\ LeafHolds(NegateLeaf(leaf), env))
    BY <2>3, NegatedLeaf
  <2> QED BY <2>3, <2>6, <2>7, SingleCondition
<1>3. ASSUME \A c \in cases : ~Evaluate(c, env) PROVE Evaluate(NoneOf(cases), env)
  BY <1>3, NoneOfHolds
<1> QED BY <1>1, <1>2, <1>3

----------------------------------------------------------------------------
(* What a visitor has still to visit, of what the function does.           *)

Entered(v, env) ==
    v.CurrentSwitchCondition # Always /\ Evaluate(v.CurrentSwitchCondition, env)
Matched(v, env) == \E c \in v.SwitchCases : Evaluate(c, env)

\* Where in what it has still to visit a visitor begins to find what runs.
Ways(v, env) ==
    IF ~Evaluate(v.Condition, env) THEN {Len(v.Statements) + 1}
    ELSE IF v.Type # "Case" \/ Entered(v, env) THEN {1}
    ELSE IF Matched(v, env) THEN {Len(v.Statements) + 1}
    ELSE Entries(v.Statements, v.Subject, env)
RemainsFrom(v, i, env) == Leads(SubSeq(v.Statements, i, Len(v.Statements)), env)
Remains(v, env) == UNION {RemainsFrom(v, i, env) : i \in Ways(v, env)}

\* What a switch has left has its cases apart, and none that has been visited
\* already; it is behind a break, or at a label, when it has no current condition.
IsOrdered(v) ==
    /\ \A i \in DOMAIN v.Statements \ {Len(v.Statements)} :
            v.Statements[i].Kind = "BreakStmt" => v.Statements[i + 1].Kind \in Labels
    /\ \A i, j \in DOMAIN v.Statements :
            /\ v.Statements[i].Kind = "CaseStmt" /\ v.Statements[j].Kind = "CaseStmt"
            /\ v.Statements[i].Value = v.Statements[j].Value
            => i = j
    /\ v.Statements # <<>> =>
            /\ v.CurrentSwitchCondition = Always => v.Statements[1].Kind \in Labels
            /\ v.SwitchCases = {} => v.Statements[1].Kind = "CaseStmt"
KeepsTrack(v, env) ==
    /\ Matched(v, env) =>
            \A i \in DOMAIN v.Statements :
                v.Statements[i].Kind = "CaseStmt" => v.Statements[i].Value # Resolve(env, v.Subject)
    /\ Entered(v, env) /\ ~Matched(v, env) =>
            \A i \in DOMAIN v.Statements : v.Statements[i].Kind \notin Labels
IsStraight(v) ==
    /\ IsSound(v)
    /\ \A i \in DOMAIN v.Statements : IsExact(v.Statements[i])
    /\ v.Type # "Case" => \A i \in DOMAIN v.Statements : v.Statements[i].Kind # "BreakStmt"
    /\ v.Type = "Case" => IsOrdered(v) /\ \A env \in Environments : KeepsTrack(v, env)

\* The visitor behind its first statement.
IsBehind(v, w) ==
    /\ v \in WorkingVisitors /\ w \in WorkingVisitors
    /\ w.Type = v.Type /\ w.Condition = v.Condition /\ w.Subject = v.Subject
    /\ v.Statements \in Seq(Statements) /\ w.Statements \in Seq(Statements)
    /\ Len(v.Statements) \in Nat \ {0} /\ Len(w.Statements) = Len(v.Statements) - 1
    /\ w.Statements = Tail(v.Statements)
    /\ DOMAIN v.Statements = 1 .. Len(v.Statements)
    /\ DOMAIN w.Statements = 1 .. Len(v.Statements) - 1
    /\ \A p \in 1 .. Len(v.Statements) - 1 : w.Statements[p] = v.Statements[p + 1]

LEMMA BehindIt ==
    ASSUME NEW v \in WorkingVisitors, v.Statements # <<>>,
           NEW condition \in Conditions, NEW cases \in SUBSET Asking
    PROVE  LET w == GoneOn(v, <<>>, condition, cases) IN
           /\ IsBehind(v, w)
           /\ w.CurrentSwitchCondition = condition /\ w.SwitchCases = cases
<1> DEFINE w == GoneOn(v, <<>>, condition, cases)
           tail == Tail(v.Statements)
<1>1. w \in WorkingVisitors /\ v.Statements \in Seq(Statements) /\ w.Statements \in Seq(Statements)
  <2>1. w \in WorkingVisitors
    BY NothingFits, GoneOnType
  <2> HIDE DEF w
  <2> QED BY <2>1 DEF WorkingVisitors, Visitors
<1>2. tail \in Seq(Statements) /\ Len(tail) = Len(v.Statements) - 1
  BY <1>1, HeadTailProperties
<1>3. w.Statements = tail
  <2>1. w.Statements = <<>> \o tail
    BY DEF GoneOn, WorkingVisitors, Visitors
  <2> HIDE DEF tail
  <2>2. <<>> \o tail = tail
    BY <1>2, ConcatEmptySeq
  <2> QED BY <2>1, <2>2
<1>4. /\ w.Type = v.Type /\ w.Condition = v.Condition /\ w.Subject = v.Subject
      /\ w.CurrentSwitchCondition = condition /\ w.SwitchCases = cases
      /\ Len(v.Statements) \in Nat \ {0}
      /\ DOMAIN v.Statements = 1 .. Len(v.Statements)
      /\ DOMAIN w.Statements = 1 .. Len(v.Statements) - 1
      /\ \A p \in 1 .. Len(v.Statements) - 1 : w.Statements[p] = v.Statements[p + 1]
  BY BehindLabel
<1> HIDE DEF w
<1> QED BY <1>1, <1>2, <1>3, <1>4 DEF IsBehind, w

\* Where it begins counts from its first statement.
LEMMA SameStatements ==
    ASSUME NEW s \in Seq(Statements), NEW t \in Seq(Statements), Len(s) = Len(t),
           \A i \in 1 .. Len(s) : s[i] = t[i]
    PROVE  s = t
BY SeqEqual

LEMMA Shifted ==
    ASSUME NEW v, NEW w, IsBehind(v, w), NEW i \in 2 .. Len(v.Statements) + 1, NEW env
    PROVE  /\ i - 1 \in 1 .. Len(w.Statements) + 1
           /\ RemainsFrom(v, i, env) = RemainsFrom(w, i - 1, env)
<1> DEFINE s == v.Statements
           t == w.Statements
<1>1. /\ s \in Seq(Statements) /\ t \in Seq(Statements) /\ Len(s) \in Nat \ {0}
      /\ Len(t) = Len(s) - 1 /\ \A p \in 1 .. Len(s) - 1 : t[p] = s[p + 1]
  BY DEF IsBehind
<1> HIDE DEF s, t
<1>2. i \in 1 .. Len(s) + 1 /\ i - 1 \in 1 .. Len(t) + 1
  BY <1>1 DEF s
<1> DEFINE before == SubSeq(s, i, Len(s))
           after == SubSeq(t, i - 1, Len(t))
<1>3. /\ before \in Seq(Statements) /\ Len(before) = Len(s) + 1 - i
      /\ \A j \in 1 .. Len(s) + 1 - i : i + j - 1 \in 1 .. Len(s) /\ before[j] = s[i + j - 1]
  BY <1>1, <1>2, RestOfBody
<1>4. /\ after \in Seq(Statements) /\ Len(after) = Len(t) + 1 - (i - 1)
      /\ \A j \in 1 .. Len(t) + 1 - (i - 1) :
            (i - 1) + j - 1 \in 1 .. Len(t) /\ after[j] = t[(i - 1) + j - 1]
  BY <1>1, <1>2, RestOfBody
<1> HIDE DEF before, after
<1>5. Len(before) = Len(after)
  BY <1>1, <1>2, <1>3, <1>4
<1>6. ASSUME NEW j \in 1 .. Len(before) PROVE before[j] = after[j]
  <2>1. before[j] = s[i + j - 1] /\ after[j] = t[(i - 1) + j - 1]
    BY <1>3, <1>4, <1>5
  <2>2. (i - 1) + j - 1 \in 1 .. Len(s) - 1 /\ ((i - 1) + j - 1) + 1 = i + j - 1
    BY <1>1, <1>2, <1>3
  <2> QED BY <1>1, <2>1, <2>2
<1>7. before = after
  BY <1>3, <1>4, <1>5, <1>6, SameStatements
<1> QED BY <1>2, <1>7 DEF RemainsFrom, before, after, s, t

LEMMA FromTheFirst ==
    ASSUME NEW v, v.Statements \in Seq(Statements), NEW env
    PROVE  /\ RemainsFrom(v, 1, env) = Leads(v.Statements, env)
           /\ RemainsFrom(v, Len(v.Statements) + 1, env) = {<<>>}
<1> DEFINE s == v.Statements
<1>1. s \in Seq(Statements) /\ Len(s) \in Nat
  BY LenProperties
<1> HIDE DEF s
<1> DEFINE whole == SubSeq(s, 1, Len(s))
           nothing == SubSeq(s, Len(s) + 1, Len(s))
<1>2. 1 \in 1 .. Len(s) + 1 /\ Len(s) + 1 \in 1 .. Len(s) + 1
  BY <1>1
<1>3. /\ whole \in Seq(Statements) /\ Len(whole) = Len(s) + 1 - 1
      /\ \A j \in 1 .. Len(s) + 1 - 1 : whole[j] = s[1 + j - 1]
  BY <1>1, <1>2, RestOfBody
<1>4. nothing \in Seq(Statements) /\ Len(nothing) = Len(s) + 1 - (Len(s) + 1)
  BY <1>1, <1>2, RestOfBody
<1> HIDE DEF whole, nothing
<1>5. Len(whole) = Len(s) /\ Len(nothing) = 0
  BY <1>1, <1>3, <1>4
<1>6. whole = s
  BY <1>1, <1>3, <1>5, SameStatements
<1>7. Leads(nothing, env) = {<<>>}
  BY <1>4, <1>5, NothingLeads
<1> QED BY <1>6, <1>7 DEF RemainsFrom, whole, nothing, s

\* What begins behind the first statement begins there without it.
LEMMA SkipBehind ==
    ASSUME NEW v, NEW w, IsBehind(v, w), NEW env,
           \A i \in Ways(v, env) : i \in 2 .. Len(v.Statements) + 1 /\ i - 1 \in Ways(w, env)
    PROVE  Remains(v, env) \subseteq Remains(w, env)
<1> SUFFICES ASSUME NEW i \in Ways(v, env)
             PROVE  RemainsFrom(v, i, env) \subseteq Remains(w, env)
  BY DEF Remains
<1>1. i - 1 \in Ways(w, env) /\ RemainsFrom(v, i, env) = RemainsFrom(w, i - 1, env)
  BY Shifted
<1> QED BY <1>1 DEF Remains

\* What begins with the first statement goes on behind it.
LEMMA EnterBehind ==
    ASSUME NEW v, NEW w, IsBehind(v, w), NEW env, Ways(v, env) \subseteq {1},
           1 \in Ways(w, env), IsExact(v.Statements[1]),
           v.Statements[1].Kind # "BreakStmt", NEW t \in Remains(v, env)
    PROVE  \E a \in Does(v.Statements[1], env) : \E b \in Remains(w, env) :
                b \in Seq(Nat) /\ t = a \o b
<1>1. /\ v.Statements \in Seq(Statements) /\ w.Statements \in Seq(Statements)
      /\ w.Statements = Tail(v.Statements) /\ v.Statements # <<>>
  BY EmptySeq DEF IsBehind
<1>2. t \in RemainsFrom(v, 1, env)
  BY DEF Remains
<1>3. t \in Leads(v.Statements, env)
  BY <1>1, <1>2, FromTheFirst
<1>4. \E a \in Does(v.Statements[1], env) : \E b \in Leads(Tail(v.Statements), env) : t = a \o b
  BY <1>1, <1>3, LeadsOn
<1>5. /\ Leads(Tail(v.Statements), env) = RemainsFrom(w, 1, env)
      /\ Leads(Tail(v.Statements), env) \in SUBSET Seq(Nat)
  BY <1>1, FromTheFirst, LeadsType
<1> QED BY <1>4, <1>5 DEF Remains

\* A switch whose subject is not that of its first statement is entered behind it.
LEMMA EntriesBehind ==
    ASSUME NEW v, NEW w, IsBehind(v, w), NEW env, v.Subject # NotParsed,
           v.Statements[1].Kind # "DefaultStmt",
           v.Statements[1].Kind = "CaseStmt" =>
                /\ v.Statements[1].Value # Unknown
                /\ v.Statements[1].Value # Resolve(env, v.Subject),
           NEW i \in Entries(v.Statements, v.Subject, env)
    PROVE  /\ i \in 2 .. Len(v.Statements) + 1
           /\ i - 1 \in Entries(w.Statements, w.Subject, env)
<1> DEFINE s == v.Statements
           t == w.Statements
           n == Len(s)
<1>1. /\ n \in Nat \ {0} /\ DOMAIN s = 1 .. n /\ DOMAIN t = 1 .. n - 1 /\ Len(t) = n - 1
      /\ \A p \in 1 .. n - 1 : t[p] = s[p + 1]
      /\ w.Subject = v.Subject
  BY DEF IsBehind
<1>2. i \in 1 .. n + 1
  BY EntriesType DEF IsBehind
<1> HIDE DEF s, t, n
<1>3. \A p \in 2 .. n : p - 1 \in DOMAIN t /\ t[p - 1] = s[p]
  <2> TAKE p \in 2 .. n
  <2>1. p - 1 \in 1 .. n - 1 /\ (p - 1) + 1 = p
    BY <1>1
  <2> QED BY <1>1, <2>1
<1>4. \A q \in DOMAIN t : q + 1 \in DOMAIN s /\ t[q] = s[q + 1]
  BY <1>1
<1>5. \A p \in 1 .. n + 1 : p = 1 \/ p \in 2 .. n \/ p = n + 1
  BY <1>1
<1> DEFINE value == Resolve(env, v.Subject)
           matching == {p \in DOMAIN s : s[p].Kind = "CaseStmt" /\ s[p].Value = value}
           unknown == {p \in DOMAIN s : s[p].Kind = "CaseStmt" /\ s[p].Value = Unknown}
           default == {p \in DOMAIN s : s[p].Kind = "DefaultStmt"}
           matchingNext == {p \in DOMAIN t : t[p].Kind = "CaseStmt" /\ t[p].Value = value}
           unknownNext == {p \in DOMAIN t : t[p].Kind = "CaseStmt" /\ t[p].Value = Unknown}
           defaultNext == {p \in DOMAIN t : t[p].Kind = "DefaultStmt"}
<1>6. i \in IF matching # {} THEN matching
            ELSE unknown \cup (IF default = {} THEN {n + 1} ELSE default)
  BY DEF Entries, s, n
<1>7. Entries(w.Statements, w.Subject, env) =
            IF matchingNext # {} THEN matchingNext
            ELSE unknownNext \cup (IF defaultNext = {} THEN {Len(t) + 1} ELSE defaultNext)
  <2> DEFINE cases == {p \in DOMAIN t : t[p].Kind = "CaseStmt"}
  <2>1. w.Subject # NotParsed /\ Resolve(env, w.Subject) = value
    BY <1>1
  <2>2. {p \in cases : t[p].Value = value} = matchingNext
    OBVIOUS
  <2>3. {p \in cases : t[p].Value = Unknown} = unknownNext
    OBVIOUS
  <2>4. Entries(t, w.Subject, env) =
            IF {p \in cases : t[p].Value = value} # {} THEN {p \in cases : t[p].Value = value}
            ELSE {p \in cases : t[p].Value = Unknown}
                 \cup (IF defaultNext = {} THEN {Len(t) + 1} ELSE defaultNext)
    BY <2>1, ZenonT(60) DEF Entries
  <2> HIDE DEF matchingNext, unknownNext, defaultNext, cases
  <2>5. Entries(t, w.Subject, env) =
            IF matchingNext # {} THEN matchingNext
            ELSE unknownNext \cup (IF defaultNext = {} THEN {Len(t) + 1} ELSE defaultNext)
    BY <2>2, <2>3, <2>4, Zenon
  <2> QED BY <2>5 DEF t
<1>8. 1 \notin matching /\ 1 \notin unknown /\ 1 \notin default
  BY DEF s
<1>9. \A p \in 1 .. n : /\ p \in matching => p - 1 \in matchingNext
                        /\ p \in unknown => p - 1 \in unknownNext
                        /\ p \in default => p - 1 \in defaultNext
  BY <1>3, <1>5, <1>8
<1>10. \A q \in DOMAIN t : /\ q \in matchingNext => q + 1 \in matching
                           /\ q \in defaultNext => q + 1 \in default
  BY <1>4
<1>11. /\ matching \subseteq 1 .. n /\ unknown \subseteq 1 .. n /\ default \subseteq 1 .. n
       /\ matchingNext \subseteq DOMAIN t /\ defaultNext \subseteq DOMAIN t
  BY <1>1
<1> HIDE DEF matching, unknown, default, matchingNext, unknownNext, defaultNext
<1>12. i # 1
  BY <1>1, <1>6, <1>8
<1>13. i \in 2 .. n + 1
  BY <1>1, <1>2, <1>12
<1>14. (matching = {}) <=> (matchingNext = {})
  BY <1>9, <1>10, <1>11
<1>15. (default = {}) <=> (defaultNext = {})
  BY <1>9, <1>10, <1>11
<1>16. i - 1 \in IF matchingNext # {} THEN matchingNext
                 ELSE unknownNext \cup (IF defaultNext = {} THEN {Len(t) + 1} ELSE defaultNext)
  <2>1. CASE matching # {}
    <3>1. i \in matching /\ i \in 1 .. n
      BY <1>6, <1>11, <2>1
    <3> QED BY <1>9, <1>14, <2>1, <3>1
  <2>2. CASE matching = {} /\ i \in unknown
    BY <1>9, <1>11, <1>14, <2>2
  <2>3. CASE matching = {} /\ default = {} /\ i = n + 1
    <3>1. i - 1 = Len(t) + 1
      BY <1>1, <2>3
    <3> QED BY <1>14, <1>15, <2>3, <3>1
  <2>4. CASE matching = {} /\ default # {} /\ i \in default
    BY <1>9, <1>11, <1>14, <1>15, <2>4
  <2> QED BY <1>6, <2>1, <2>2, <2>3, <2>4
<1> QED BY <1>7, <1>13, <1>16 DEF s, n

LEMMA StraightBehind ==
    ASSUME NEW v, NEW w, IsStraight(v), IsBehind(v, w), IsSound(w),
           v.Type = "Case" =>
                /\ \A env \in Environments : KeepsTrack(w, env)
                /\ Len(v.Statements) > 1 =>
                        /\ w.CurrentSwitchCondition = Always => v.Statements[2].Kind \in Labels
                        /\ w.SwitchCases # {}
    PROVE  IsStraight(w)
<1> DEFINE s == v.Statements
           t == w.Statements
           n == Len(s)
<1>1. /\ n \in Nat \ {0} /\ DOMAIN s = 1 .. n /\ DOMAIN t = 1 .. n - 1 /\ Len(t) = n - 1
      /\ \A p \in 1 .. n - 1 : t[p] = s[p + 1]
      /\ w.Type = v.Type /\ t \in Seq(Statements)
  BY DEF IsBehind
<1>2. \A q \in DOMAIN t : q + 1 \in DOMAIN s /\ t[q] = s[q + 1]
  BY <1>1
<1>3. \A q \in DOMAIN t : IsExact(t[q])
  BY <1>2 DEF IsStraight
<1>4. v.Type # "Case" => \A q \in DOMAIN t : t[q].Kind # "BreakStmt"
  BY <1>2 DEF IsStraight
<1>5. ASSUME v.Type = "Case" PROVE IsOrdered(w)
  <2>1. IsOrdered(v)
    BY <1>5 DEF IsStraight
  <2> HIDE DEF s, t, n
  <2>2. ASSUME NEW q \in DOMAIN t \ {Len(t)}, t[q].Kind = "BreakStmt"
        PROVE  t[q + 1].Kind \in Labels
    <3>1. /\ q + 1 \in DOMAIN s \ {n} /\ t[q] = s[q + 1]
          /\ q + 1 \in 1 .. n - 1 /\ t[q + 1] = s[(q + 1) + 1]
      BY <1>1, <1>2
    <3>2. \A i \in DOMAIN s \ {n} : s[i].Kind = "BreakStmt" => s[i + 1].Kind \in Labels
      BY <2>1 DEF IsOrdered, s, n
    <3> QED BY <2>2, <3>1, <3>2
  <2>3. ASSUME NEW i \in DOMAIN t, NEW j \in DOMAIN t,
               t[i].Kind = "CaseStmt", t[j].Kind = "CaseStmt", t[i].Value = t[j].Value
        PROVE  i = j
    <3>1. i + 1 \in DOMAIN s /\ j + 1 \in DOMAIN s /\ t[i] = s[i + 1] /\ t[j] = s[j + 1]
      BY <1>2
    <3>2. \A k, l \in DOMAIN s :
            /\ s[k].Kind = "CaseStmt" /\ s[l].Kind = "CaseStmt" /\ s[k].Value = s[l].Value
            => k = l
      BY <2>1 DEF IsOrdered, s
    <3>3. i + 1 = j + 1
      BY <2>3, <3>1, <3>2
    <3> QED BY <1>1, <3>3
  <2>4. ASSUME t # <<>>
        PROVE  /\ w.CurrentSwitchCondition = Always => t[1].Kind \in Labels
               /\ w.SwitchCases # {}
    <3>1. Len(t) # 0
      BY <1>1, <2>4, EmptySeq
    <3>2. n > 1 /\ 1 \in 1 .. n - 1 /\ t[1] = s[1 + 1] /\ 1 + 1 = 2
      BY <1>1, <3>1
    <3> QED BY <1>5, <3>2 DEF s, n
  <2> QED BY <2>2, <2>3, <2>4 DEF IsOrdered, t
<1> QED BY <1>1, <1>3, <1>4, <1>5 DEF IsStraight

\* The current condition when one more way leads to the code behind a label.
LEMMA OneMoreWay ==
    ASSUME NEW current \in Conditions, NEW condition \in Asking, NEW env
    PROVE  LET new == OrSwitchCondition(current, condition) IN
           /\ new # Always
           /\ Evaluate(new, env) <=>
                (current # Always /\ Evaluate(current, env)) \/ Evaluate(condition, env)
<1>1. condition.Tautology = FALSE /\ Always.Tautology = TRUE
  BY AskingParts DEF Always
<1>2. CASE current = Always
  BY <1>1, <1>2 DEF OrSwitchCondition
<1>3. CASE current # Always
  <2>1. current.Tautology = FALSE
    BY <1>3, AskingParts DEF Asking
  <2>2. OrSwitchCondition(current, condition) = Or(current, condition)
    BY <2>1 DEF OrSwitchCondition
  <2>3. /\ Or(current, condition).Tautology = FALSE
        /\ Or(current, condition).VariableConditions =
                current.VariableConditions \cup condition.VariableConditions
    BY <1>1, <2>1 DEF Or
  <2>4. Evaluate(Or(current, condition), env) =>
            Evaluate(current, env) \/ Evaluate(condition, env)
    BY <2>3 DEF Evaluate
  <2> QED BY <1>1, <1>3, <2>2, <2>3, <2>4, OrHolds
<1> QED BY <1>2, <1>3

\* What is left out behind the first statement, and what its switch's labels are.
LEMMA AheadOf ==
    ASSUME NEW v, NEW w, IsStraight(v), IsBehind(v, w), v.Type = "Case"
    PROVE  /\ v.Subject \in Copies \cup Primitives /\ v.Subject # NotParsed
           /\ v.CurrentSwitchCondition \in Conditions /\ v.SwitchCases \in SUBSET Asking
           /\ v.Statements # <<>> /\ 1 \in DOMAIN v.Statements
           /\ v.Statements[1] \in Statements /\ IsExact(v.Statements[1])
           /\ \A q \in DOMAIN w.Statements :
                /\ q \in 1 .. Len(v.Statements) - 1 /\ q + 1 \in DOMAIN v.Statements
                /\ q + 1 # 1 /\ w.Statements[q] = v.Statements[q + 1]
           /\ Len(w.Statements) + 1 = Len(v.Statements)
           /\ Len(v.Statements) + 1 \in 2 .. Len(v.Statements) + 1
           /\ (Len(v.Statements) + 1) - 1 = Len(w.Statements) + 1
           /\ IsOrdered(v) /\ IsInSwitch(v)
<1>1. v \in WorkingVisitors /\ IsSound(v) /\ IsOrdered(v) /\ IsInSwitch(v)
  BY DEF IsStraight, IsSound
<1>2. /\ v.Subject \in Copies \cup Primitives \cup {NotParsed} /\ v.Subject # NotParsed
      /\ v.CurrentSwitchCondition \in Conditions /\ v.SwitchCases \in SUBSET Asking
  BY <1>1 DEF WorkingVisitors, Visitors
<1>3. /\ Len(v.Statements) \in Nat \ {0} /\ Len(w.Statements) = Len(v.Statements) - 1
      /\ DOMAIN v.Statements = 1 .. Len(v.Statements)
      /\ DOMAIN w.Statements = 1 .. Len(v.Statements) - 1
      /\ \A p \in 1 .. Len(v.Statements) - 1 : w.Statements[p] = v.Statements[p + 1]
      /\ v.Statements \in Seq(Statements)
  BY DEF IsBehind
<1>4. v.Statements # <<>>
  BY <1>3, EmptySeq
<1>5. 1 \in DOMAIN v.Statements /\ 1 \in 1 .. Len(v.Statements)
  BY <1>3
<1>6. v.Statements[1] \in Statements
  BY <1>3, <1>5, ElementOfSeq
<1>7. IsExact(v.Statements[1])
  BY <1>5 DEF IsStraight
<1>8. \A n \in Nat \ {0} : \A m : m = n - 1 => n + 1 \in 2 .. n + 1 /\ (n + 1) - 1 = m + 1
  OBVIOUS
<1>9. /\ Len(v.Statements) + 1 \in 2 .. Len(v.Statements) + 1
      /\ (Len(v.Statements) + 1) - 1 = Len(w.Statements) + 1
  BY <1>3, <1>8
<1> QED BY <1>1, <1>2, <1>3, <1>4, <1>5, <1>6, <1>7, <1>9

\* A visitor whose condition does not hold has nothing to visit that runs, behind its
\* first statement too.
LEMMA NothingRemains ==
    ASSUME NEW v, NEW w, IsBehind(v, w), NEW env, ~Evaluate(v.Condition, env)
    PROVE  Remains(v, env) \subseteq Remains(w, env)
<1>1. /\ Ways(v, env) = {Len(v.Statements) + 1} /\ Ways(w, env) = {Len(w.Statements) + 1}
  BY DEF IsBehind, Ways
<1>2. /\ Len(v.Statements) + 1 \in 2 .. Len(v.Statements) + 1
      /\ (Len(v.Statements) + 1) - 1 = Len(w.Statements) + 1
  BY DEF IsBehind
<1> QED BY <1>1, <1>2, SkipBehind

\* Statements that do nothing.
LEMMA NothingDone ==
    ASSUME NEW v, NEW w, IsBehind(v, w), NEW env, Ways(v, env) \subseteq {1},
           1 \in Ways(w, env), IsExact(v.Statements[1]),
           v.Statements[1].Kind \notin {"IfStmt", "SwitchStmt", "BreakStmt"},
           ~Recorded(v.Statements[1])
    PROVE  Remains(v, env) \subseteq Remains(w, env)
<1> SUFFICES ASSUME NEW t \in Remains(v, env) PROVE t \in Remains(w, env)
  OBVIOUS
<1>1. PICK a \in Does(v.Statements[1], env) : \E b \in Remains(w, env) :
            b \in Seq(Nat) /\ t = a \o b
  BY EnterBehind
<1>2. PICK b \in Remains(w, env) : b \in Seq(Nat) /\ t = a \o b
  BY <1>1
<1>3. a = <<>>
  BY OtherDoes
<1>4. <<>> \o b = b
  BY <1>2, ConcatEmptySeq
<1> QED BY <1>2, <1>3, <1>4

\* At a case.
LEMMA CaseBehind ==
    ASSUME NEW v, IsStraight(v), v.Type = "Case", v.Statements # <<>>,
           v.Statements[1].Kind = "CaseStmt"
    PROVE  LET c == MatchesCase(v.Subject, v.Statements[1].Value)
               w == GoneOn(v, <<>>, OrSwitchCondition(v.CurrentSwitchCondition, c),
                           v.SwitchCases \cup {c})
           IN /\ IsStraight(w)
              /\ \A env \in Environments : Remains(v, env) \subseteq Remains(w, env)
<1> DEFINE first == v.Statements[1]
           c == MatchesCase(v.Subject, first.Value)
           new == OrSwitchCondition(v.CurrentSwitchCondition, c)
           w == GoneOn(v, <<>>, new, v.SwitchCases \cup {c})
<1>1. IsSound(v) /\ v \in WorkingVisitors
  BY DEF IsStraight, IsSound
<1>2. first.Value # Unknown /\ IsSound(w)
  BY <1>1, BehindCase
<1>3. /\ v.Subject \in Copies \cup Primitives /\ v.CurrentSwitchCondition \in Conditions
      /\ v.SwitchCases \in SUBSET Asking /\ first \in Statements /\ first.Kind = "CaseStmt"
  <2>1. /\ v.Subject \in Copies \cup Primitives \cup {NotParsed} /\ v.Subject # NotParsed
        /\ v.CurrentSwitchCondition \in Conditions /\ v.SwitchCases \in SUBSET Asking
        /\ v.Statements \in Seq(Statements)
    BY <1>1 DEF WorkingVisitors, Visitors
  <2>2. 1 \in 1 .. Len(v.Statements)
    BY <2>1, EmptySeq
  <2> QED BY <2>1, <2>2, ElementOfSeq
<1>4. first.Value \in Primitives
  <2>1. first.Value \in Literals
    BY <1>3, StatementParts
  <2> QED BY <1>2, <2>1 DEF Literals
<1>5. ASSUME NEW env \in Environments
      PROVE  /\ Evaluate(c, env) <=> first.Value = Resolve(env, v.Subject)
             /\ c \in Asking
  BY <1>3, <1>4, MatchesHolds
<1>6. c \in Asking
  <2>1. Leaf(v.Subject, ComparedConstant("EQUAL", first.Value)) \in Leaves
    BY <1>3, <1>4 DEF Leaf, Leaves, ComparedConstant, ValueRanges, Literals, COMPARISON
  <2> QED BY <2>1, WhenType DEF MatchesCase
<1> HIDE DEF c
<1>7. new \in Conditions
  BY <1>3, <1>6, OrSwitchConditionType DEF Asking
<1>8. new # Always /\ \A env : Evaluate(new, env) <=>
            (v.CurrentSwitchCondition # Always /\ Evaluate(v.CurrentSwitchCondition, env))
            \/ Evaluate(c, env)
  BY <1>3, <1>6, OneMoreWay
<1> HIDE DEF new
<1>9. /\ IsBehind(v, w) /\ w.CurrentSwitchCondition = new /\ w.SwitchCases = v.SwitchCases \cup {c}
  BY <1>1, <1>3, <1>6, <1>7, BehindIt
<1> HIDE DEF w
<1>10. w.Subject = v.Subject /\ w.Type = v.Type /\ w.Condition = v.Condition
  BY <1>9 DEF IsBehind
<1>11. ASSUME NEW env
       PROVE  /\ Entered(w, env) <=> Entered(v, env) \/ Evaluate(c, env)
              /\ Matched(w, env) <=> Matched(v, env) \/ Evaluate(c, env)
  BY <1>8, <1>9 DEF Entered, Matched
<1>12. /\ v.Subject # NotParsed /\ 1 \in DOMAIN v.Statements /\ IsExact(first)
       /\ \A q \in DOMAIN w.Statements :
            /\ q + 1 \in DOMAIN v.Statements /\ q + 1 # 1
            /\ w.Statements[q] = v.Statements[q + 1]
       /\ Len(v.Statements) + 1 \in 2 .. Len(v.Statements) + 1
       /\ (Len(v.Statements) + 1) - 1 = Len(w.Statements) + 1
       /\ IsOrdered(v)
  BY <1>9, AheadOf
<1>13. \A q \in DOMAIN v.Statements :
            /\ v.Statements[q].Kind = "CaseStmt" /\ v.Statements[q].Value = first.Value => q = 1
  BY <1>3, <1>12 DEF IsOrdered
<1>14. ASSUME NEW env \in Environments PROVE KeepsTrack(w, env)
  <2>1. KeepsTrack(v, env)
    BY DEF IsStraight
  <2>2. ASSUME Matched(w, env), NEW q \in DOMAIN w.Statements,
               w.Statements[q].Kind = "CaseStmt", w.Statements[q].Value = Resolve(env, v.Subject)
        PROVE  FALSE
    <3>1. CASE Matched(v, env)
      BY <1>12, <2>1, <2>2, <3>1 DEF KeepsTrack
    <3>2. CASE Evaluate(c, env)
      <4>1. first.Value = Resolve(env, v.Subject)
        BY <1>5, <3>2
      <4> QED BY <1>12, <1>13, <2>2, <4>1
    <3> QED BY <1>11, <2>2, <3>1, <3>2
  <2>3. ~(Entered(w, env) /\ ~Matched(w, env))
    BY <1>3, <1>11, <1>12, <2>1 DEF KeepsTrack, Labels
  <2> QED BY <1>10, <2>2, <2>3 DEF KeepsTrack
<1>15. IsStraight(w)
  BY <1>2, <1>8, <1>9, <1>14, StraightBehind
<1>16. ASSUME NEW env \in Environments PROVE Remains(v, env) \subseteq Remains(w, env)
  <2>1. CASE ~Evaluate(v.Condition, env)
    BY <1>9, <2>1, NothingRemains
  <2>2. ASSUME Ways(v, env) \subseteq {1}, Entered(w, env), Evaluate(v.Condition, env)
        PROVE  Remains(v, env) \subseteq Remains(w, env)
    <3>1. 1 \in Ways(w, env)
      BY <1>10, <2>2 DEF Ways
    <3>2. ~Recorded(first)
      BY <1>3 DEF Recorded
    <3> QED BY <1>3, <1>9, <1>12, <2>2, <3>1, <3>2, NothingDone
  <2>3. CASE Evaluate(v.Condition, env) /\ Entered(v, env)
    BY <1>11, <2>2, <2>3 DEF Ways
  <2>4. CASE Evaluate(v.Condition, env) /\ ~Entered(v, env) /\ Matched(v, env)
    <3>1. first.Value # Resolve(env, v.Subject)
      BY <1>3, <1>12, <2>4 DEF IsStraight, KeepsTrack
    <3>2. ~Entered(w, env) /\ Matched(w, env)
      BY <1>5, <1>11, <2>4, <3>1
    <3>3. Ways(v, env) = {Len(v.Statements) + 1} /\ Ways(w, env) = {Len(w.Statements) + 1}
      BY <1>10, <2>4, <3>2 DEF Ways
    <3> QED BY <1>9, <1>12, <3>3, SkipBehind
  <2>5. CASE /\ Evaluate(v.Condition, env) /\ ~Entered(v, env) /\ ~Matched(v, env)
             /\ first.Value = Resolve(env, v.Subject)
    <3>1. Entered(w, env)
      BY <1>5, <1>11, <2>5
    <3>2. Ways(v, env) = Entries(v.Statements, v.Subject, env)
      BY <2>5 DEF Ways
    <3>3. Entries(v.Statements, v.Subject, env) \subseteq {1}
      BY <1>3, <1>12, <1>13, <2>5 DEF Entries
    <3> QED BY <2>2, <2>5, <3>1, <3>2, <3>3
  <2>6. CASE /\ Evaluate(v.Condition, env) /\ ~Entered(v, env) /\ ~Matched(v, env)
             /\ first.Value # Resolve(env, v.Subject)
    <3>1. ~Entered(w, env) /\ ~Matched(w, env)
      BY <1>5, <1>11, <2>6
    <3>2. /\ Ways(v, env) = Entries(v.Statements, v.Subject, env)
          /\ Ways(w, env) = Entries(w.Statements, w.Subject, env)
      BY <1>10, <2>6, <3>1 DEF Ways
    <3>3. \A i \in Ways(v, env) : i \in 2 .. Len(v.Statements) + 1 /\ i - 1 \in Ways(w, env)
      <4> SUFFICES ASSUME NEW i \in Entries(v.Statements, v.Subject, env)
                   PROVE  /\ i \in 2 .. Len(v.Statements) + 1
                          /\ i - 1 \in Entries(w.Statements, w.Subject, env)
        BY <3>2
      <4>1. first.Kind # "DefaultStmt" /\ first.Value # Unknown
        BY <1>2, <1>3
      <4> QED BY <1>9, <1>12, <2>6, <4>1, EntriesBehind
    <3> QED BY <1>9, <3>3, SkipBehind
  <2> QED BY <2>1, <2>3, <2>4, <2>5, <2>6
<1> QED BY <1>15, <1>16 DEF w, new, c

\* At the default.
LEMMA DefaultBehind ==
    ASSUME NEW v, IsStraight(v), v.Type = "Case", v.Statements # <<>>,
           v.Statements[1].Kind = "DefaultStmt"
    PROVE  LET w == GoneOn(v, <<>>, OrSwitchCondition(v.CurrentSwitchCondition,
                                                      NoneOf(v.SwitchCases)), v.SwitchCases)
           IN /\ IsStraight(w)
              /\ \A env \in Environments : Remains(v, env) \subseteq Remains(w, env)
<1> DEFINE first == v.Statements[1]
           none == NoneOf(v.SwitchCases)
           new == OrSwitchCondition(v.CurrentSwitchCondition, none)
           w == GoneOn(v, <<>>, new, v.SwitchCases)
<1>1. IsSound(v) /\ v \in WorkingVisitors /\ IsInSwitch(v) /\ IsOrdered(v)
  BY DEF IsStraight, IsSound
<1>2. IsSound(w)
  BY <1>1, BehindDefault
<1>3. /\ v.Subject \in Copies \cup Primitives /\ v.CurrentSwitchCondition \in Conditions
      /\ v.SwitchCases \in SUBSET Asking /\ first.Kind = "DefaultStmt"
      /\ 1 \in DOMAIN v.Statements
  <2>1. /\ v.Subject \in Copies \cup Primitives \cup {NotParsed} /\ v.Subject # NotParsed
        /\ v.CurrentSwitchCondition \in Conditions /\ v.SwitchCases \in SUBSET Asking
        /\ v.Statements \in Seq(Statements)
    BY <1>1 DEF WorkingVisitors, Visitors
  <2>2. 1 \in 1 .. Len(v.Statements)
    BY <2>1, EmptySeq
  <2> QED BY <2>1, <2>2, ElementsType
<1>4. v.SwitchCases # {}
  BY <1>1, <1>3 DEF IsOrdered
<1>5. ASSUME NEW env \in Environments
      PROVE  /\ none.Tautology = FALSE
             /\ Evaluate(none, env) <=> ~Matched(v, env)
  <2>1. \A c \in v.SwitchCases : \E value \in Primitives : c = MatchesCase(v.Subject, value)
    BY <1>1 DEF IsInSwitch
  <2>2. /\ NoneOf(v.SwitchCases).Tautology = FALSE
        /\ Evaluate(NoneOf(v.SwitchCases), env) <=> \A c \in v.SwitchCases : ~Evaluate(c, env)
    BY <1>3, <1>4, <2>1, NoneOfExact, ZenonT(40)
  <2>3. Matched(v, env) <=> \E c \in v.SwitchCases : Evaluate(c, env)
    BY DEF Matched
  <2> QED BY <2>2, <2>3
<1>6. none \in Asking
  <2>1. none \in Conditions
    BY <1>3, NoneOfType
  <2>2. none.Tautology = FALSE
    BY <1>4 DEF NoneOf
  <2> QED BY <2>1, <2>2 DEF Asking, Always
<1> HIDE DEF none
<1>7. new \in Conditions
  BY <1>3, <1>6, OrSwitchConditionType DEF Asking
<1>8. new # Always /\ \A env : Evaluate(new, env) <=>
            (v.CurrentSwitchCondition # Always /\ Evaluate(v.CurrentSwitchCondition, env))
            \/ Evaluate(none, env)
  BY <1>3, <1>6, OneMoreWay
<1> HIDE DEF new
<1>9. IsBehind(v, w) /\ w.CurrentSwitchCondition = new /\ w.SwitchCases = v.SwitchCases
  BY <1>1, <1>3, <1>7, BehindIt
<1> HIDE DEF w
<1>10. w.Subject = v.Subject /\ w.Type = v.Type /\ w.Condition = v.Condition
  BY <1>9 DEF IsBehind
<1>11. ASSUME NEW env \in Environments
       PROVE  /\ Entered(w, env) <=> Entered(v, env) \/ ~Matched(v, env)
              /\ Matched(w, env) <=> Matched(v, env)
  BY <1>5, <1>8, <1>9 DEF Entered, Matched
<1>12. /\ IsExact(first)
       /\ \A q \in DOMAIN w.Statements :
            /\ q + 1 \in DOMAIN v.Statements /\ q + 1 # 1
            /\ w.Statements[q] = v.Statements[q + 1]
       /\ Len(v.Statements) + 1 \in 2 .. Len(v.Statements) + 1
       /\ (Len(v.Statements) + 1) - 1 = Len(w.Statements) + 1
  BY <1>9, AheadOf
<1>13. \A q \in DOMAIN v.Statements : q # 1 => v.Statements[q].Kind \notin Labels
  <2>1. \A j \in DOMAIN v.Statements : 1 < j => v.Statements[j].Kind \notin Labels
    BY <1>1, <1>3 DEF IsInSwitch
  <2>2. \A j \in DOMAIN v.Statements : j # 1 => 1 < j
    BY <1>9 DEF IsBehind
  <2> QED BY <2>1, <2>2
<1>14. ASSUME NEW env \in Environments PROVE KeepsTrack(w, env)
  <2>1. KeepsTrack(v, env)
    BY DEF IsStraight
  <2>2. \A q \in DOMAIN w.Statements : w.Statements[q].Kind \notin Labels
    BY <1>12, <1>13
  <2> QED BY <2>2 DEF KeepsTrack, Labels
<1>15. IsStraight(w)
  BY <1>2, <1>4, <1>8, <1>9, <1>14, StraightBehind
<1>16. ASSUME NEW env \in Environments PROVE Remains(v, env) \subseteq Remains(w, env)
  <2>1. CASE ~Evaluate(v.Condition, env)
    BY <1>9, <2>1, NothingRemains
  <2>2. ASSUME Ways(v, env) \subseteq {1}, Entered(w, env), Evaluate(v.Condition, env)
        PROVE  Remains(v, env) \subseteq Remains(w, env)
    <3>1. 1 \in Ways(w, env)
      BY <1>10, <2>2 DEF Ways
    <3>2. ~Recorded(first)
      BY <1>3 DEF Recorded
    <3> QED BY <1>3, <1>9, <1>12, <2>2, <3>1, <3>2, NothingDone
  <2>3. CASE Evaluate(v.Condition, env) /\ Entered(v, env)
    BY <1>11, <2>2, <2>3 DEF Ways
  <2>4. CASE Evaluate(v.Condition, env) /\ ~Entered(v, env) /\ Matched(v, env)
    <3>1. ~Entered(w, env) /\ Matched(w, env)
      BY <1>11, <2>4
    <3>2. Ways(v, env) = {Len(v.Statements) + 1} /\ Ways(w, env) = {Len(w.Statements) + 1}
      BY <1>10, <2>4, <3>1 DEF Ways
    <3> QED BY <1>9, <1>12, <3>2, SkipBehind
  <2>5. CASE Evaluate(v.Condition, env) /\ ~Entered(v, env) /\ ~Matched(v, env)
    <3>1. Entered(w, env)
      BY <1>11, <2>5
    <3>2. Ways(v, env) = Entries(v.Statements, v.Subject, env)
      BY <2>5 DEF Ways
    <3>3. /\ \A q \in DOMAIN v.Statements : v.Statements[q].Kind # "CaseStmt"
          /\ \A q \in DOMAIN v.Statements : v.Statements[q].Kind = "DefaultStmt" => q = 1
      BY <1>3, <1>13 DEF Labels
    <3>4. v.Subject # NotParsed
      BY <1>9, AheadOf
    <3>5. Entries(v.Statements, v.Subject, env) \subseteq {1}
      BY <1>3, <3>3, <3>4 DEF Entries
    <3> QED BY <2>2, <2>5, <3>1, <3>2, <3>5
  <2> QED BY <2>1, <2>3, <2>4, <2>5
<1> QED BY <1>15, <1>16 DEF w, new, none

\* At a break.
LEMMA ABreakBehind ==
    ASSUME NEW v, IsStraight(v), v.Type = "Case", v.Statements # <<>>,
           v.Statements[1].Kind = "BreakStmt"
    PROVE  LET w == GoneOn(v, <<>>, Always, v.SwitchCases) IN
           /\ IsStraight(w)
           /\ \A env \in Environments : Remains(v, env) \subseteq Remains(w, env)
<1> DEFINE first == v.Statements[1]
           w == GoneOn(v, <<>>, Always, v.SwitchCases)
<1>1. IsSound(v) /\ v \in WorkingVisitors /\ IsOrdered(v)
  BY DEF IsStraight, IsSound
<1>2. IsSound(w)
  BY <1>1, BehindBreak
<1>3. v.SwitchCases \in SUBSET Asking /\ Always \in Conditions /\ v.Statements \in Seq(Statements)
  BY <1>1, AlwaysType DEF WorkingVisitors, Visitors
<1>4. v.SwitchCases # {} /\ v.CurrentSwitchCondition # Always
  BY <1>1 DEF IsOrdered, Labels
<1>5. IsBehind(v, w) /\ w.CurrentSwitchCondition = Always /\ w.SwitchCases = v.SwitchCases
  BY <1>1, <1>3, BehindIt
<1> HIDE DEF w
<1>6. w.Subject = v.Subject /\ w.Type = v.Type /\ w.Condition = v.Condition
  BY <1>5 DEF IsBehind
<1>7. \A env : ~Entered(w, env) /\ (Matched(w, env) <=> Matched(v, env))
  BY <1>5 DEF Entered, Matched
<1>8. /\ IsExact(first) /\ v.Subject # NotParsed /\ 1 \in DOMAIN v.Statements
      /\ \A q \in DOMAIN w.Statements :
            /\ q + 1 \in DOMAIN v.Statements /\ q + 1 # 1
            /\ w.Statements[q] = v.Statements[q + 1]
      /\ Len(v.Statements) + 1 \in 2 .. Len(v.Statements) + 1
      /\ (Len(v.Statements) + 1) - 1 = Len(w.Statements) + 1
  BY <1>5, AheadOf
<1>9. ASSUME NEW env \in Environments PROVE KeepsTrack(w, env)
  <2>1. KeepsTrack(v, env)
    BY DEF IsStraight
  <2> QED BY <1>6, <1>7, <1>8, <2>1 DEF KeepsTrack
<1>10. ASSUME Len(v.Statements) > 1 PROVE v.Statements[2].Kind \in Labels
  <2>1. 1 \in DOMAIN v.Statements \ {Len(v.Statements)}
    <3>1. Len(v.Statements) \in Nat
      BY <1>5 DEF IsBehind
    <3>2. \A n \in Nat : n > 1 => n # 1
      OBVIOUS
    <3>3. Len(v.Statements) # 1
      BY <1>10, <3>1, <3>2
    <3> QED BY <1>8, <3>3
  <2>2. v.Statements[1 + 1].Kind \in Labels
    BY <1>1, <2>1 DEF IsOrdered
  <2> QED BY <2>2
<1>11. IsStraight(w)
  BY <1>2, <1>4, <1>5, <1>9, <1>10, StraightBehind
<1>12. ASSUME NEW env \in Environments PROVE Remains(v, env) \subseteq Remains(w, env)
  <2>1. CASE ~Evaluate(v.Condition, env)
    BY <1>5, <2>1, NothingRemains
  <2>2. ASSUME Len(w.Statements) + 1 \in Ways(w, env) PROVE <<>> \in Remains(w, env)
    <3>1. RemainsFrom(w, Len(w.Statements) + 1, env) = {<<>>}
      BY <1>5, FromTheFirst DEF IsBehind
    <3> QED BY <2>2, <3>1 DEF Remains
  <2>3. CASE Evaluate(v.Condition, env) /\ Entered(v, env)
    <3>1. Ways(v, env) = {1}
      BY <2>3 DEF Ways
    <3>2. Remains(v, env) = Leads(v.Statements, env)
      BY <1>3, <3>1, FromTheFirst DEF Remains
    <3>3. Remains(v, env) \subseteq {<<>>}
      BY <1>3, <1>8, <3>2, LeadsOn
    <3>4. Len(w.Statements) + 1 \in Ways(w, env)
      <4>1. CASE Matched(v, env)
        BY <1>6, <1>7, <2>3, <4>1 DEF Ways
      <4>2. CASE ~Matched(v, env)
        <5>1. \A q \in DOMAIN w.Statements : w.Statements[q].Kind \notin Labels
          BY <1>8, <2>3, <4>2 DEF IsStraight, KeepsTrack
        <5>2. Ways(w, env) = Entries(w.Statements, w.Subject, env)
          BY <1>6, <1>7, <2>3, <4>2 DEF Ways
        <5>3. {q \in DOMAIN w.Statements : w.Statements[q].Kind = "CaseStmt"} = {}
          BY <5>1 DEF Labels
        <5>4. {q \in DOMAIN w.Statements : w.Statements[q].Kind = "DefaultStmt"} = {}
          BY <5>1 DEF Labels
        <5> QED BY <1>6, <1>8, <5>2, <5>3, <5>4 DEF Entries
      <4> QED BY <4>1, <4>2
    <3> QED BY <2>2, <3>3, <3>4
  <2>4. CASE Evaluate(v.Condition, env) /\ ~Entered(v, env) /\ Matched(v, env)
    <3>1. Ways(v, env) = {Len(v.Statements) + 1} /\ Ways(w, env) = {Len(w.Statements) + 1}
      BY <1>6, <1>7, <2>4 DEF Ways
    <3> QED BY <1>5, <1>8, <3>1, SkipBehind
  <2>5. CASE Evaluate(v.Condition, env) /\ ~Entered(v, env) /\ ~Matched(v, env)
    <3>1. /\ Ways(v, env) = Entries(v.Statements, v.Subject, env)
          /\ Ways(w, env) = Entries(w.Statements, w.Subject, env)
      BY <1>6, <1>7, <2>5 DEF Ways
    <3>2. \A i \in Ways(v, env) : i \in 2 .. Len(v.Statements) + 1 /\ i - 1 \in Ways(w, env)
      <4> SUFFICES ASSUME NEW i \in Entries(v.Statements, v.Subject, env)
                   PROVE  /\ i \in 2 .. Len(v.Statements) + 1
                          /\ i - 1 \in Entries(w.Statements, w.Subject, env)
        BY <3>1
      <4> QED BY <1>5, <1>8, EntriesBehind
    <3> QED BY <1>5, <3>2, SkipBehind
  <2> QED BY <2>1, <2>3, <2>4, <2>5
<1> QED BY <1>11, <1>12 DEF w

\* At any other statement.
LEMMA OtherBehind ==
    ASSUME NEW v, IsStraight(v), v.Statements # <<>>,
           v.Type = "Case" => v.Statements[1].Kind \notin Labels \cup {"BreakStmt"}
    PROVE  LET w == GoneOn(v, <<>>, v.CurrentSwitchCondition, v.SwitchCases) IN
           /\ IsStraight(w)
           /\ \A env \in Environments : \A t \in Remains(v, env) :
                IF Evaluate(CurrentConditionOf(v), env)
                THEN \E a \in Does(v.Statements[1], env) : \E b \in Remains(w, env) :
                        b \in Seq(Nat) /\ t = a \o b
                ELSE t \in Remains(w, env)
<1> DEFINE first == v.Statements[1]
           w == GoneOn(v, <<>>, v.CurrentSwitchCondition, v.SwitchCases)
<1>1. IsSound(v) /\ v \in WorkingVisitors /\ (v.Type = "Case" => IsOrdered(v))
  BY DEF IsStraight, IsSound
<1>2. IsSound(w)
  BY <1>1, BehindOther
<1>3. /\ v.SwitchCases \in SUBSET Asking /\ v.CurrentSwitchCondition \in Conditions
      /\ v.Condition \in Conditions /\ v.Statements \in Seq(Statements)
  BY <1>1 DEF WorkingVisitors, Visitors
<1>4. v.Type = "Case" => v.SwitchCases # {} /\ v.CurrentSwitchCondition \in Asking
  BY <1>1, <1>3 DEF IsOrdered, Labels, Asking
<1>5. /\ IsBehind(v, w) /\ w.CurrentSwitchCondition = v.CurrentSwitchCondition
      /\ w.SwitchCases = v.SwitchCases
  BY <1>1, <1>3, BehindIt
<1> HIDE DEF w
<1>6. w.Subject = v.Subject /\ w.Type = v.Type /\ w.Condition = v.Condition
  BY <1>5 DEF IsBehind
<1>7. \A env : (Entered(w, env) <=> Entered(v, env)) /\ (Matched(w, env) <=> Matched(v, env))
  BY <1>5 DEF Entered, Matched
<1>8. /\ IsExact(first) /\ 1 \in DOMAIN v.Statements
      /\ v.Type = "Case" => v.Subject # NotParsed
      /\ \A q \in DOMAIN w.Statements :
            /\ q + 1 \in DOMAIN v.Statements /\ w.Statements[q] = v.Statements[q + 1]
      /\ Len(v.Statements) + 1 \in 2 .. Len(v.Statements) + 1
      /\ (Len(v.Statements) + 1) - 1 = Len(w.Statements) + 1
  <2>1. /\ 1 \in DOMAIN v.Statements
        /\ \A q \in DOMAIN w.Statements :
            /\ q + 1 \in DOMAIN v.Statements /\ w.Statements[q] = v.Statements[q + 1]
        /\ Len(v.Statements) + 1 \in 2 .. Len(v.Statements) + 1
        /\ (Len(v.Statements) + 1) - 1 = Len(w.Statements) + 1
    BY <1>5 DEF IsBehind
  <2> QED BY <1>5, <2>1, AheadOf DEF IsStraight
<1>9. ASSUME v.Type = "Case", NEW env \in Environments PROVE KeepsTrack(w, env)
  <2>1. KeepsTrack(v, env)
    BY <1>9 DEF IsStraight
  <2> QED BY <1>6, <1>7, <1>8, <2>1 DEF KeepsTrack
<1>10. IsStraight(w)
  BY <1>2, <1>4, <1>5, <1>9, StraightBehind DEF Asking
<1>11. first.Kind # "BreakStmt"
  BY <1>8 DEF IsStraight
<1>12. ASSUME NEW env \in Environments, NEW t \in Remains(v, env)
       PROVE  IF Evaluate(CurrentConditionOf(v), env)
              THEN \E a \in Does(first, env) : \E b \in Remains(w, env) :
                        b \in Seq(Nat) /\ t = a \o b
              ELSE t \in Remains(w, env)
  <2>1. CASE ~Evaluate(v.Condition, env)
    <3>1. ~Evaluate(CurrentConditionOf(v), env)
      BY <1>3, <1>4, <2>1, AndExact DEF CurrentConditionOf
    <3> QED BY <1>5, <2>1, <3>1, NothingRemains
  <2>2. CASE Evaluate(v.Condition, env) /\ (v.Type # "Case" \/ Entered(v, env))
    <3>1. Evaluate(CurrentConditionOf(v), env)
      BY <1>3, <1>4, <2>2, AndExact DEF CurrentConditionOf, Entered
    <3>2. Ways(v, env) = {1} /\ Ways(w, env) = {1}
      BY <1>6, <1>7, <2>2 DEF Ways
    <3>3. \E a \in Does(v.Statements[1], env) : \E b \in Remains(w, env) :
                b \in Seq(Nat) /\ t = a \o b
      <4>1. Ways(v, env) \subseteq {1} /\ 1 \in Ways(w, env)
        BY <3>2
      <4>2. IsExact(v.Statements[1])
        BY <1>8 DEF IsStraight
      <4>3. v.Statements[1].Kind # "BreakStmt"
        BY <1>11
      <4> QED BY <1>5, <4>1, <4>2, <4>3, EnterBehind
    <3> QED BY <3>1, <3>3
  <2>3. CASE Evaluate(v.Condition, env) /\ v.Type = "Case" /\ ~Entered(v, env)
    <3>1. ~Evaluate(CurrentConditionOf(v), env)
      BY <1>3, <1>4, <2>3, AndExact DEF CurrentConditionOf, Entered, Asking
    <3>2. \A i \in Ways(v, env) : i \in 2 .. Len(v.Statements) + 1 /\ i - 1 \in Ways(w, env)
      <4>1. CASE Matched(v, env)
        <5>1. Ways(v, env) = {Len(v.Statements) + 1} /\ Ways(w, env) = {Len(w.Statements) + 1}
          BY <1>6, <1>7, <2>3, <4>1 DEF Ways
        <5> QED BY <1>8, <5>1
      <4>2. CASE ~Matched(v, env)
        <5>1. /\ Ways(v, env) = Entries(v.Statements, v.Subject, env)
              /\ Ways(w, env) = Entries(w.Statements, w.Subject, env)
          BY <1>6, <1>7, <2>3, <4>2 DEF Ways
        <5> SUFFICES ASSUME NEW i \in Entries(v.Statements, v.Subject, env)
                     PROVE  /\ i \in 2 .. Len(v.Statements) + 1
                            /\ i - 1 \in Entries(w.Statements, w.Subject, env)
          BY <5>1
        <5>2. first.Kind \notin Labels
          BY <2>3
        <5> QED BY <1>5, <1>8, <2>3, <5>2, EntriesBehind DEF Labels
      <4> QED BY <4>1, <4>2
    <3>3. t \in Remains(w, env)
      BY <1>5, <3>2, SkipBehind
    <3> QED BY <3>1, <3>3
  <2> QED BY <2>1, <2>2, <2>3
<1> QED BY <1>10, <1>12 DEF w

----------------------------------------------------------------------------
(* Visitors that begin.                                                    *)

LEMMA FunctionBegins ==
    ASSUME NEW body, IsNested(body), IsFollowedExactly(body), IsLocated(body),
           IsWellFormed(body)
    PROVE  LET v == FunctionVisitor(body) IN
           /\ IsStraight(v)
           /\ \A env : Remains(v, env) = Leads(body, env)
<1> DEFINE v == FunctionVisitor(body)
<1>1. /\ v.Statements = body /\ v.Type = "Function" /\ v.Condition = Always
      /\ body \in Seq(Statements) /\ DOMAIN body = 1 .. Len(body)
  BY LenProperties DEF FunctionVisitor, Visitor, IsNested
<1>2. \A p \in 1 .. Len(body) : IsExact(body[p]) /\ body[p].Kind # "BreakStmt"
  BY BodyIsExact
<1>3. v \in WorkingVisitors
  BY <1>1, AlwaysType, NewVisitorType DEF FunctionVisitor
<1>4. IsStraight(v)
  BY <1>1, <1>2, <1>3 DEF IsStraight, IsSound, IsExact
<1>5. ASSUME NEW env PROVE Remains(v, env) = Leads(body, env)
  <2>1. Ways(v, env) = {1}
    BY <1>1 DEF Ways, Evaluate, Always
  <2> HIDE DEF v
  <2>2. RemainsFrom(v, 1, env) = Leads(v.Statements, env)
    BY <1>1, FromTheFirst
  <2> QED BY <1>1, <2>1, <2>2 DEF Remains
<1> QED BY <1>4, <1>5

LEMMA BranchBegins ==
    ASSUME NEW s, IsExact(s), s.Kind = "IfStmt", NEW part \in {s.Then, s.Else},
           NEW condition \in Conditions
    PROVE  LET v == ConditionalContentVisitor(condition, part) IN
           /\ IsStraight(v)
           /\ \A env : Remains(v, env) =
                IF Evaluate(condition, env) THEN Leads(part, env) ELSE {<<>>}
<1> DEFINE v == ConditionalContentVisitor(condition, part)
<1>1. /\ part \in Seq(Statements)
      /\ \A p \in 1 .. Len(part) : IsExact(part[p]) /\ part[p].Kind # "BreakStmt"
  BY ExactIf
<1>2. /\ v.Statements = part /\ v.Type = "Conditional" /\ v.Condition = condition
      /\ DOMAIN part = 1 .. Len(part)
  BY <1>1, LenProperties DEF ConditionalContentVisitor, Visitor
<1>3. IsSound(v)
  BY BranchVisitor DEF IsExact
<1>4. IsStraight(v)
  BY <1>1, <1>2, <1>3 DEF IsStraight
<1>5. ASSUME NEW env
      PROVE  Remains(v, env) = IF Evaluate(condition, env) THEN Leads(part, env) ELSE {<<>>}
  <2>1. Ways(v, env) = IF Evaluate(condition, env) THEN {1} ELSE {Len(v.Statements) + 1}
    BY <1>2 DEF Ways
  <2> HIDE DEF v
  <2>2. /\ RemainsFrom(v, 1, env) = Leads(part, env)
        /\ RemainsFrom(v, Len(v.Statements) + 1, env) = {<<>>}
    BY <1>1, <1>2, FromTheFirst
  <2> QED BY <2>1, <2>2 DEF Remains
<1> QED BY <1>4, <1>5

LEMMA SwitchBegins ==
    ASSUME NEW s, IsExact(s), s.Kind = "SwitchStmt", NEW condition \in Conditions
    PROVE  LET v == CaseConditionalVisitor(condition, s.Subject, s.Body) IN
           /\ IsStraight(v)
           /\ \A env : IF Evaluate(condition, env) THEN Does(s, env) \subseteq Remains(v, env)
                       ELSE Remains(v, env) = {<<>>}
<1> DEFINE v == CaseConditionalVisitor(condition, s.Subject, s.Body)
<1>1. /\ s.Body \in Seq(Statements) /\ s.Subject # NotParsed /\ IsPrecise(s)
      /\ DOMAIN s.Body = 1 .. Len(s.Body)
      /\ \A p \in 1 .. Len(s.Body) : IsExact(s.Body[p])
  BY ExactSwitch
<1>2. /\ v.Statements = s.Body /\ v.Type = "Case" /\ v.Condition = condition
      /\ v.Subject = s.Subject /\ v.CurrentSwitchCondition = Always /\ v.SwitchCases = {}
  BY DEF CaseConditionalVisitor, Visitor
<1>3. IsSound(v)
  BY <1>1, SwitchVisitor DEF IsExact
<1> HIDE DEF v
<1>4. IsOrdered(v)
  <2>1. \A i \in DOMAIN s.Body : s.Body[i].Kind = "CaseStmt" => s.Body[i].Value # Unknown
    BY <1>2, <1>3 DEF IsSound, IsInSwitch
  <2>2. /\ \A i \in DOMAIN s.Body \ {Len(s.Body)} :
                s.Body[i].Kind = "BreakStmt" => s.Body[i + 1].Kind \in Labels
        /\ s.Body # <<>> => s.Body[1].Kind = "CaseStmt"
        /\ \A i, j \in DOMAIN s.Body :
            /\ s.Body[i].Kind = "CaseStmt" /\ s.Body[j].Kind = "CaseStmt"
            /\ s.Body[i].Value = s.Body[j].Value /\ s.Body[i].Value # Unknown
            => i = j
    BY <1>1 DEF IsPrecise
  <2> QED BY <1>2, <2>1, <2>2 DEF IsOrdered, Labels
<1>5. \A env : ~Matched(v, env) /\ ~Entered(v, env)
  BY <1>2 DEF Matched, Entered
<1>6. IsStraight(v)
  BY <1>1, <1>2, <1>3, <1>4, <1>5 DEF IsStraight, KeepsTrack
<1>7. ASSUME NEW env, Evaluate(condition, env), NEW t \in Does(s, env)
      PROVE  t \in Remains(v, env)
  <2>1. Ways(v, env) = Entries(s.Body, s.Subject, env)
    BY <1>2, <1>5, <1>7 DEF Ways
  <2>2. PICK i \in Entries(s.Body, s.Subject, env) :
                t \in Leads(SubSeq(s.Body, i, Len(s.Body)), env)
    BY SwitchDoes
  <2>3. t \in RemainsFrom(v, i, env)
    BY <1>2, <2>2 DEF RemainsFrom
  <2> QED BY <2>1, <2>3 DEF Remains
<1>8. ASSUME NEW env, ~Evaluate(condition, env) PROVE Remains(v, env) = {<<>>}
  <2>1. Ways(v, env) = {Len(v.Statements) + 1}
    BY <1>2, <1>8 DEF Ways
  <2>2. RemainsFrom(v, Len(v.Statements) + 1, env) = {<<>>}
    BY <1>1, <1>2, FromTheFirst
  <2> QED BY <2>1, <2>2 DEF Remains
<1> QED BY <1>6, <1>7, <1>8 DEF v

\* A visitor with nothing to visit leaves nothing to run.
LEMMA NothingLeft ==
    ASSUME NEW v, v.Statements = <<>>, NEW env
    PROVE  Remains(v, env) \subseteq {<<>>}
<1>1. <<>> \in Seq(Statements) /\ Len(<<>>) = 0 /\ DOMAIN <<>> = {}
  BY EmptySeq, LenProperties
<1>2. Ways(v, env) \subseteq {1}
  BY <1>1 DEF Ways, Entries
<1>3. RemainsFrom(v, 1, env) = Leads(<<>>, env)
  BY <1>1, FromTheFirst
<1>4. Leads(<<>>, env) = {<<>>}
  BY <1>1, NothingLeads
<1> QED BY <1>2, <1>3, <1>4 DEF Remains

----------------------------------------------------------------------------
(* What the visitors at work have still to visit, of what the function     *)
(* does: what the innermost one has, then what the others have.            *)

IsMadeOf(t, vs, env, suffix) ==
    /\ suffix \in [1 .. Len(vs) + 1 -> Seq(Nat)]
    /\ suffix[1] = t /\ suffix[Len(vs) + 1] = <<>>
    /\ \A i \in 1 .. Len(vs) : \E r \in Remains(vs[i], env) :
            r \in Seq(Nat) /\ suffix[i] = r \o suffix[i + 1]
Follows(vs, env, t) == \E suffix : IsMadeOf(t, vs, env, suffix)

FollowsOn(vs, env, t, r, u) ==
    /\ r \in Remains(vs[1], env) /\ r \in Seq(Nat) /\ u \in Seq(Nat) /\ t = r \o u
    /\ Follows(Tail(vs), env, u)
LEMMA HeadFollows ==
    ASSUME NEW S, NEW vs \in Seq(S), vs # <<>>, NEW env, NEW t, Follows(vs, env, t)
    PROVE  \E r, u : FollowsOn(vs, env, t, r, u)
<1> DEFINE n == Len(vs)
           tail == Tail(vs)
<1>1. /\ n \in Nat \ {0} /\ tail \in Seq(S) /\ Len(tail) = n - 1
      /\ \A i \in 1 .. Len(tail) : tail[i] = vs[i + 1]
  BY EmptySeq, HeadTailProperties, LenProperties
<1>2. PICK suffix : IsMadeOf(t, vs, env, suffix)
  BY DEF Follows
<1>3. /\ suffix \in [1 .. n + 1 -> Seq(Nat)] /\ suffix[1] = t /\ suffix[n + 1] = <<>>
      /\ \A i \in 1 .. n : \E r \in Remains(vs[i], env) :
            r \in Seq(Nat) /\ suffix[i] = r \o suffix[i + 1]
  BY <1>2 DEF IsMadeOf
<1> HIDE DEF n, tail
<1>4. 1 \in 1 .. n /\ 1 + 1 = 2 /\ 2 \in 1 .. n + 1
  BY <1>1
<1>5. PICK r \in Remains(vs[1], env) : r \in Seq(Nat) /\ suffix[1] = r \o suffix[2]
  BY <1>3, <1>4
<1> DEFINE behind == [i \in 1 .. Len(tail) + 1 |-> suffix[i + 1]]
<1>6. \A i \in 1 .. Len(tail) + 1 : i + 1 \in 1 .. n + 1
  BY <1>1
<1>7. behind \in [1 .. Len(tail) + 1 -> Seq(Nat)]
  BY <1>3, <1>6
<1>8. behind[1] = suffix[2] /\ behind[Len(tail) + 1] = <<>>
  <2>1. /\ 1 \in 1 .. Len(tail) + 1 /\ Len(tail) + 1 \in 1 .. Len(tail) + 1
        /\ (Len(tail) + 1) + 1 = n + 1
    BY <1>1
  <2> QED BY <1>3, <1>4, <2>1
<1>9. ASSUME NEW i \in 1 .. Len(tail)
      PROVE  \E q \in Remains(tail[i], env) : q \in Seq(Nat) /\ behind[i] = q \o behind[i + 1]
  <2>1. /\ i + 1 \in 1 .. n /\ tail[i] = vs[i + 1]
        /\ i \in 1 .. Len(tail) + 1 /\ i + 1 \in 1 .. Len(tail) + 1
    BY <1>1
  <2>2. behind[i] = suffix[i + 1] /\ behind[i + 1] = suffix[(i + 1) + 1]
    BY <2>1
  <2>3. \E q \in Remains(vs[i + 1], env) :
            q \in Seq(Nat) /\ suffix[i + 1] = q \o suffix[(i + 1) + 1]
    BY <1>3, <2>1
  <2> QED BY <2>1, <2>2, <2>3
<1> HIDE DEF behind
<1>10. Follows(tail, env, suffix[2])
  BY <1>7, <1>8, <1>9 DEF Follows, IsMadeOf
<1>11. suffix[2] \in Seq(Nat)
  BY <1>3, <1>4
<1>12. FollowsOn(vs, env, t, r, suffix[2])
  BY <1>3, <1>5, <1>10, <1>11 DEF FollowsOn, tail
<1> QED BY <1>12

\* What two sequences of visitors have is what the first has, then what the second has.
LEMMA BothFollow ==
    ASSUME NEW S, NEW vs \in Seq(S), NEW ws \in Seq(S), NEW env, NEW t, NEW u,
           Follows(vs, env, t), Follows(ws, env, u)
    PROVE  Follows(vs \o ws, env, t \o u) /\ t \in Seq(Nat) /\ u \in Seq(Nat)
<1> DEFINE m == Len(vs)
           n == Len(ws)
           both == vs \o ws
<1>1. /\ m \in Nat /\ n \in Nat /\ Len(both) = m + n
      /\ \A i \in 1 .. m + n : both[i] = IF i <= m THEN vs[i] ELSE ws[i - m]
  BY LenProperties, ConcatProperties
<1>2. PICK first : IsMadeOf(t, vs, env, first)
  BY DEF Follows
<1>3. /\ first \in [1 .. m + 1 -> Seq(Nat)] /\ first[1] = t /\ first[m + 1] = <<>>
      /\ \A i \in 1 .. m : \E r \in Remains(vs[i], env) :
            r \in Seq(Nat) /\ first[i] = r \o first[i + 1]
  BY <1>2 DEF IsMadeOf
<1>4. PICK second : IsMadeOf(u, ws, env, second)
  BY DEF Follows
<1>5. /\ second \in [1 .. n + 1 -> Seq(Nat)] /\ second[1] = u /\ second[n + 1] = <<>>
      /\ \A i \in 1 .. n : \E r \in Remains(ws[i], env) :
            r \in Seq(Nat) /\ second[i] = r \o second[i + 1]
  BY <1>4 DEF IsMadeOf
<1> HIDE DEF m, n, both
<1>6. t \in Seq(Nat) /\ u \in Seq(Nat)
  <2>1. 1 \in 1 .. m + 1 /\ 1 \in 1 .. n + 1
    BY <1>1
  <2> QED BY <1>3, <1>5, <2>1
<1> DEFINE suffix == [i \in 1 .. Len(both) + 1 |->
                        IF i <= m THEN first[i] \o u ELSE second[i - m]]
<1>7. ASSUME NEW i \in 1 .. Len(both) + 1 PROVE suffix[i] \in Seq(Nat)
  <2>1. CASE i <= m
    <3>1. i \in 1 .. m + 1
      BY <1>1, <2>1
    <3>2. first[i] \in Seq(Nat)
      BY <1>3, <3>1
    <3>3. Join(first[i], u, u)
      BY <1>6, <3>2, JoinedTraces
    <3> QED BY <2>1, <3>3 DEF Join
  <2>2. CASE ~(i <= m)
    <3>1. i - m \in 1 .. n + 1
      BY <1>1, <2>2
    <3> QED BY <1>5, <2>2, <3>1
  <2> QED BY <2>1, <2>2
<1>8. suffix \in [1 .. Len(both) + 1 -> Seq(Nat)]
  BY <1>7
\* The two meet where the first ends.
<1>9. <<>> \o u = u
  BY <1>6, ConcatEmptySeq
<1>10. \A i \in 1 .. m + 1 : suffix[i] = first[i] \o u
  <2> TAKE i \in 1 .. m + 1
  <2>1. i \in 1 .. Len(both) + 1
    BY <1>1
  <2>2. CASE i <= m
    BY <2>1, <2>2
  <2>3. CASE i = m + 1
    <3>1. ~(i <= m) /\ i - m = 1
      BY <1>1, <2>3
    <3>2. suffix[i] = second[1] /\ first[i] = <<>>
      BY <1>3, <2>1, <2>3, <3>1
    <3> HIDE DEF suffix
    <3> QED BY <1>5, <1>9, <3>2
  <2>4. i <= m \/ i = m + 1
    BY <1>1
  <2> QED BY <2>2, <2>3, <2>4
<1>11. suffix[1] = t \o u /\ suffix[Len(both) + 1] = <<>>
  <2>1. /\ 1 \in 1 .. m + 1 /\ Len(both) + 1 \in 1 .. Len(both) + 1
        /\ ~(Len(both) + 1 <= m) /\ (Len(both) + 1) - m = n + 1
    BY <1>1
  <2>2. suffix[Len(both) + 1] = second[n + 1]
    BY <2>1
  <2> HIDE DEF suffix
  <2> QED BY <1>3, <1>5, <1>10, <2>1, <2>2
<1>12. \A i \in m + 1 .. Len(both) + 1 : suffix[i] = second[i - m]
  BY <1>1
<1> HIDE DEF suffix
<1>13. ASSUME NEW i \in 1 .. Len(both)
       PROVE  \E r \in Remains(both[i], env) : r \in Seq(Nat) /\ suffix[i] = r \o suffix[i + 1]
  <2>1. CASE i <= m
    <3>1. i \in 1 .. m /\ i \in 1 .. m + 1 /\ i + 1 \in 1 .. m + 1 /\ both[i] = vs[i]
      BY <1>1, <2>1
    <3>2. suffix[i] = first[i] \o u /\ suffix[i + 1] = first[i + 1] \o u
      BY <1>10, <3>1
    <3>3. PICK r \in Remains(vs[i], env) : r \in Seq(Nat) /\ first[i] = r \o first[i + 1]
      BY <1>3, <3>1
    <3>4. first[i + 1] \in Seq(Nat)
      BY <1>3, <3>1
    <3>5. Join(r, first[i + 1], u)
      BY <1>6, <3>3, <3>4, JoinedTraces
    <3> QED BY <3>1, <3>2, <3>3, <3>5 DEF Join
  <2>2. CASE ~(i <= m)
    <3>1. /\ i - m \in 1 .. n /\ i \in m + 1 .. Len(both) + 1 /\ i + 1 \in m + 1 .. Len(both) + 1
          /\ (i + 1) - m = (i - m) + 1 /\ both[i] = ws[i - m]
      BY <1>1, <2>2
    <3>2. suffix[i] = second[i - m] /\ suffix[i + 1] = second[(i - m) + 1]
      BY <1>12, <3>1
    <3> QED BY <1>5, <3>1, <3>2
  <2> QED BY <2>1, <2>2
<1>14. Follows(both, env, t \o u)
  BY <1>8, <1>11, <1>13 DEF Follows, IsMadeOf
<1> QED BY <1>6, <1>14 DEF both

LEMMA OneFollows ==
    ASSUME NEW v, NEW env, NEW r \in Remains(v, env), r \in Seq(Nat)
    PROVE  Follows(<<v>>, env, r)
<1> DEFINE one == <<v>>
           suffix == [i \in 1 .. Len(one) + 1 |-> IF i = 1 THEN r ELSE <<>>]
<1>1. Len(one) = 1 /\ one[1] = v /\ <<>> \in Seq(Nat)
  BY EmptySeq
<1>2. r \o <<>> = r
  BY ConcatEmptySeq
<1> HIDE DEF one
<1>3. 1 \in 1 .. Len(one) + 1 /\ Len(one) + 1 \in 1 .. Len(one) + 1 /\ Len(one) + 1 = 2
      /\ 1 .. Len(one) = {1} /\ 1 + 1 = 2
  BY <1>1
<1>4. suffix \in [1 .. Len(one) + 1 -> Seq(Nat)]
  BY <1>1
<1>5. suffix[1] = r /\ suffix[2] = <<>>
  BY <1>3
<1> HIDE DEF suffix
<1>6. IsMadeOf(r, one, env, suffix)
  BY <1>1, <1>2, <1>3, <1>4, <1>5 DEF IsMadeOf
<1> QED BY <1>6 DEF Follows, one

LEMMA NoneFollows ==
    ASSUME NEW env
    PROVE  Follows(<<>>, env, <<>>) /\ <<>> \in Seq(Nat)
<1>1. Len(<<>>) = 0 /\ <<>> \in Seq(Nat)
  BY EmptySeq
<1> DEFINE suffix == [i \in 1 .. Len(<<>>) + 1 |-> <<>>]
<1>2. 1 \in 1 .. Len(<<>>) + 1 /\ Len(<<>>) + 1 = 1 /\ 1 .. Len(<<>>) = {}
  BY <1>1
<1>3. IsMadeOf(<<>>, <<>>, env, suffix)
  BY <1>1, <1>2 DEF IsMadeOf
<1> QED BY <1>1, <1>3 DEF Follows

LEMMA NoneFollowsOnly ==
    ASSUME NEW env, NEW t, Follows(<<>>, env, t)
    PROVE  t = <<>>
<1>1. Len(<<>>) + 1 = 1
  BY EmptySeq
<1> QED BY <1>1 DEF Follows, IsMadeOf

----------------------------------------------------------------------------
(* What a block replays.                                                   *)

IsReplayed(block) ==
    /\ Len(block.Actions) \in Nat /\ Len(block.Locations) = Len(block.Actions)
    /\ \A i \in 1 .. Len(block.Actions) : block.Locations[i] \in Nat

\* What is replayed when one more action is looked at.
OneMore(block, env, i, trace) ==
    IF Evaluate(block.Actions[i].If, env) THEN Append(trace, block.Locations[i]) ELSE trace

LEMMA ReplaySteps ==
    ASSUME NEW block, IsReplayed(block), NEW env
    PROVE  /\ ReplayUpTo(block, env)[0] = <<>>
           /\ \A i \in 1 .. Len(block.Actions) :
                ReplayUpTo(block, env)[i] = OneMore(block, env, i, ReplayUpTo(block, env)[i - 1])
           /\ \A i \in 0 .. Len(block.Actions) : ReplayUpTo(block, env)[i] \in Seq(Nat)
<1> DEFINE X == Seq(Nat)
           n == Len(block.Actions)
           base == <<>>
           step == [m \in Nat |-> [trace \in X |->
                        IF m + 1 <= n THEN OneMore(block, env, m + 1, trace) ELSE trace]]
           IsUpTo(upTo) ==
                upTo = [i \in 0 .. n |->
                            IF i = 0 THEN <<>>
                            ELSE IF Evaluate(block.Actions[i].If, env)
                                 THEN Append(upTo[i - 1], block.Locations[i])
                                 ELSE upTo[i - 1]]
<1>1. n \in Nat /\ \A i \in 1 .. n : block.Locations[i] \in Nat
  BY DEF IsReplayed
<1>2. base \in X
  BY EmptySeq
<1> HIDE DEF n, base
<1>3. step \in [Nat -> [X -> X]]
  <2> SUFFICES ASSUME NEW m \in Nat, NEW trace \in X, m + 1 <= n
               PROVE  OneMore(block, env, m + 1, trace) \in X
    OBVIOUS
  <2>1. m + 1 \in 1 .. n
    BY <1>1
  <2>2. block.Locations[m + 1] \in Nat
    BY <1>1, <2>1
  <2>3. Append(trace, block.Locations[m + 1]) \in X
    BY <2>2, AppendProperties
  <2> QED BY <2>3 DEF OneMore
<1>4. \A m \in Nat : \A trace \in X : m + 1 <= n =>
            step[m][trace] = OneMore(block, env, m + 1, trace)
  OBVIOUS
<1> HIDE DEF X, step, IsUpTo
<1>5. PICK f \in [Nat -> X] : IsRecursiveOver(f, base, step)
  BY <1>2, <1>3, Recursion
<1>6. f[0] = base /\ \A m \in Nat : f[m + 1] = step[m][f[m]]
  BY <1>5 DEF IsRecursiveOver
<1> DEFINE g == [i \in 0 .. n |-> f[i]]
<1>7. ASSUME NEW i \in 1 .. n
      PROVE  f[i] = OneMore(block, env, i, f[i - 1])
  <2>1. i - 1 \in Nat /\ (i - 1) + 1 = i /\ i <= n
    BY <1>1
  <2>2. f[i - 1] \in X
    BY <2>1
  <2>3. step[i - 1][f[i - 1]] = OneMore(block, env, (i - 1) + 1, f[i - 1])
    BY <1>4, <2>1, <2>2
  <2>4. f[(i - 1) + 1] = step[i - 1][f[i - 1]]
    BY <1>6, <2>1
  <2> QED BY <2>1, <2>3, <2>4
<1>8. \A i \in 0 .. n : i # 0 => i \in 1 .. n /\ i - 1 \in 0 .. n
  BY <1>1
<1>9. IsUpTo(g)
  <2>1. ASSUME NEW i \in 0 .. n
        PROVE  g[i] = IF i = 0 THEN <<>>
                      ELSE IF Evaluate(block.Actions[i].If, env)
                           THEN Append(g[i - 1], block.Locations[i])
                           ELSE g[i - 1]
    <3>1. CASE i = 0
      BY <1>6, <3>1 DEF base
    <3>2. CASE i # 0
      BY <1>7, <1>8, <3>2 DEF OneMore
    <3> QED BY <3>1, <3>2
  <2>2. DOMAIN g = 0 .. n
    OBVIOUS
  <2> QED BY <2>1, <2>2 DEF IsUpTo
<1>10. ReplayUpTo(block, env) = CHOOSE upTo : IsUpTo(upTo)
  BY DEF ReplayUpTo, IsUpTo, n
<1>11. IsUpTo(ReplayUpTo(block, env))
  BY <1>9, <1>10
<1> DEFINE upTo == ReplayUpTo(block, env)
<1>12. upTo = [i \in 0 .. n |->
                    IF i = 0 THEN <<>>
                    ELSE IF Evaluate(block.Actions[i].If, env)
                         THEN Append(upTo[i - 1], block.Locations[i])
                         ELSE upTo[i - 1]]
  BY <1>11 DEF IsUpTo
<1> HIDE DEF upTo
<1>13. /\ upTo[0] = <<>>
       /\ \A i \in 1 .. n : upTo[i] = OneMore(block, env, i, upTo[i - 1])
  <2>1. 0 \in 0 .. n /\ \A i \in 1 .. n : i \in 0 .. n /\ i # 0
    BY <1>1
  <2>2. upTo[0] = <<>>
    BY <1>12, <2>1
  <2>3. ASSUME NEW i \in 1 .. n PROVE upTo[i] = OneMore(block, env, i, upTo[i - 1])
    BY <1>12, <2>1 DEF OneMore
  <2> QED BY <2>2, <2>3
<1> DEFINE Typed == {i \in Nat : i <= n => upTo[i] \in X}
<1>14. 0 \in Typed
  BY <1>2, <1>13 DEF base
<1>15. ASSUME NEW i \in Nat, i \in Typed PROVE i + 1 \in Typed
  <2> SUFFICES ASSUME i + 1 <= n PROVE upTo[i + 1] \in X
    OBVIOUS
  <2>1. i + 1 \in 1 .. n /\ (i + 1) - 1 = i /\ upTo[i] \in X
    BY <1>1, <1>15
  <2>2. block.Locations[i + 1] \in Nat
    BY <1>1, <2>1
  <2>3. Append(upTo[i], block.Locations[i + 1]) \in X
    BY <2>1, <2>2, AppendProperties DEF X
  <2>4. upTo[i + 1] = OneMore(block, env, i + 1, upTo[i])
    BY <1>13, <2>1
  <2> QED BY <2>1, <2>3, <2>4 DEF OneMore
<1> HIDE DEF Typed
<1>16. Nat \subseteq Typed
  BY <1>14, <1>15, Induction
<1>17. \A i \in 0 .. n : upTo[i] \in X
  BY <1>1, <1>16 DEF Typed
<1> QED BY <1>13, <1>17 DEF upTo, n, X

\* A block replays the same up to where it is the same.
LEMMA SameReplay ==
    ASSUME NEW block, NEW longer, IsReplayed(block), IsReplayed(longer), NEW env,
           Len(block.Actions) <= Len(longer.Actions),
           \A i \in 1 .. Len(block.Actions) :
                /\ longer.Actions[i] = block.Actions[i]
                /\ longer.Locations[i] = block.Locations[i]
    PROVE  ReplayUpTo(longer, env)[Len(block.Actions)] = Replay(block, env)
<1> DEFINE n == Len(block.Actions)
           old == ReplayUpTo(block, env)
           new == ReplayUpTo(longer, env)
           Same == {i \in Nat : i <= n => new[i] = old[i]}
<1>1. n \in Nat /\ Len(longer.Actions) \in Nat
  BY DEF IsReplayed
<1>2. old[0] = <<>> /\ \A i \in 1 .. n : old[i] = OneMore(block, env, i, old[i - 1])
  BY ReplaySteps
<1>3. /\ new[0] = <<>>
      /\ \A i \in 1 .. Len(longer.Actions) : new[i] = OneMore(longer, env, i, new[i - 1])
  BY ReplaySteps
<1> HIDE DEF old, new
<1>4. 0 \in Same
  BY <1>2, <1>3
<1>5. ASSUME NEW i \in Nat, i \in Same PROVE i + 1 \in Same
  <2> SUFFICES ASSUME i + 1 <= n PROVE new[i + 1] = old[i + 1]
    OBVIOUS
  <2>1. /\ i + 1 \in 1 .. n /\ i + 1 \in 1 .. Len(longer.Actions) /\ (i + 1) - 1 = i
        /\ new[i] = old[i]
    BY <1>1, <1>5
  <2>2. /\ longer.Actions[i + 1] = block.Actions[i + 1]
        /\ longer.Locations[i + 1] = block.Locations[i + 1]
    BY <2>1
  <2>3. old[i + 1] = OneMore(block, env, i + 1, old[i])
    BY <1>2, <2>1
  <2>4. new[i + 1] = OneMore(longer, env, i + 1, new[i])
    BY <1>3, <2>1
  <2> QED BY <2>1, <2>2, <2>3, <2>4 DEF OneMore
<1> HIDE DEF Same
<1>6. Nat \subseteq Same
  BY <1>4, <1>5, Induction
<1>7. new[n] = old[n]
  BY <1>1, <1>6 DEF Same
<1> QED BY <1>7 DEF Replay, old, new

\* An action that is added is replayed behind the others.
LEMMA ReplayAdded ==
    ASSUME NEW block, NEW longer, IsReplayed(block), IsReplayed(longer), NEW env,
           Len(longer.Actions) = Len(block.Actions) + 1,
           \A i \in 1 .. Len(block.Actions) :
                /\ longer.Actions[i] = block.Actions[i]
                /\ longer.Locations[i] = block.Locations[i]
    PROVE  Replay(longer, env) =
                OneMore(longer, env, Len(longer.Actions), Replay(block, env))
<1> DEFINE n == Len(block.Actions)
<1>1. n \in Nat /\ n + 1 \in 1 .. Len(longer.Actions) /\ (n + 1) - 1 = n
      /\ n <= Len(longer.Actions)
  BY DEF IsReplayed
<1>2. ReplayUpTo(longer, env)[n] = Replay(block, env)
  BY <1>1, SameReplay
<1>3. \A i \in 1 .. Len(longer.Actions) :
        ReplayUpTo(longer, env)[i] = OneMore(longer, env, i, ReplayUpTo(longer, env)[i - 1])
  BY ReplaySteps
<1>4. ReplayUpTo(longer, env)[n + 1] = OneMore(longer, env, n + 1, ReplayUpTo(longer, env)[n])
  BY <1>1, <1>3
<1> QED BY <1>2, <1>4 DEF Replay

LEMMA ReplayType ==
    ASSUME NEW block, IsReplayed(block), NEW env
    PROVE  /\ Replay(block, env) \in Seq(Nat)
           /\ Len(block.Actions) = 0 => Replay(block, env) = <<>>
<1>1. Len(block.Actions) \in 0 .. Len(block.Actions)
  BY DEF IsReplayed
<1> QED BY <1>1, ReplaySteps DEF Replay

----------------------------------------------------------------------------
(* The inductive invariant: what the function does is what the actions     *)
(* added so far replay, and what the visitors have still to visit.         *)

IsReplaying(block, vs, env, t) ==
    \E rest \in Seq(Nat) : t = Replay(block, env) \o rest /\ Follows(vs, env, rest)
ReplayInv ==
    visitors # <<>> /\ IsFollowedExactly(Body) =>
        /\ \A v \in ToSet(visitors) : IsStraight(v)
        /\ \A env \in Environments : \A run \in RunsOf(Body, env) :
                IsReplaying(Target, visitors, env, run.Trace)

\* What the top visitor has, r, is what a step replays, a, what the visitors that the
\* step adds have, x, and what it has itself behind its statement, b.
Progress(env, r, a, parts, w) ==
    \E x, b \in Seq(Nat) :
        r = a \o (x \o b) /\ Follows(parts, env, x) /\ b \in Remains(w, env)

LEMMA ReplayingGoesOn ==
    ASSUME NEW S, NEW vs \in Seq(S), vs # <<>>, NEW parts \in Seq(S), NEW w \in S,
           NEW block, IsReplayed(block), NEW longer, NEW env, NEW t,
           IsReplaying(block, vs, env, t), NEW a \in Seq(Nat),
           Replay(longer, env) = Replay(block, env) \o a,
           \A r \in Remains(vs[1], env) : r \in Seq(Nat) => Progress(env, r, a, parts, w)
    PROVE  IsReplaying(longer, parts \o <<w>> \o Tail(vs), env, t)
<1> DEFINE done == Replay(block, env)
           one == <<w>>
           tail == Tail(vs)
<1>1. done \in Seq(Nat) /\ one \in Seq(S) /\ tail \in Seq(S)
  BY ReplayType, Singleton, HeadTailProperties
<1> HIDE DEF done, tail
<1>2. PICK rest \in Seq(Nat) : t = done \o rest /\ Follows(vs, env, rest)
  BY DEF IsReplaying, done
<1>3. PICK r, u : FollowsOn(vs, env, rest, r, u)
  BY <1>2, HeadFollows
<1>4. /\ r \in Remains(vs[1], env) /\ r \in Seq(Nat) /\ u \in Seq(Nat) /\ rest = r \o u
      /\ Follows(tail, env, u)
  BY <1>3 DEF FollowsOn, tail
<1>5. PICK x, b \in Seq(Nat) :
            r = a \o (x \o b) /\ Follows(parts, env, x) /\ b \in Remains(w, env)
  BY <1>4 DEF Progress
<1>6. Follows(one, env, b)
  BY <1>5, OneFollows
<1> HIDE DEF one
<1>7. Follows(parts \o one, env, x \o b)
  BY <1>1, <1>5, <1>6, BothFollow
<1> DEFINE above == parts \o one
           y == x \o b
<1>8. above \in Seq(S) /\ y \in Seq(Nat)
  <2>1. Join(x, b, b)
    BY <1>5, JoinedTraces
  <2> QED BY <1>1, <2>1, ConcatProperties DEF Join
<1>9. Follows(above, env, y)
  BY <1>7
<1>10. r = a \o y
  BY <1>5
<1> HIDE DEF above, y
<1>11. Follows(above \o tail, env, y \o u)
  BY <1>1, <1>4, <1>8, <1>9, BothFollow
<1>12. Join(a, y, u) /\ Join(y, u, u) /\ Join(done, a, y \o u)
  <2>1. Join(a, y, u) /\ Join(y, u, u)
    BY <1>4, <1>8, JoinedTraces
  <2>2. y \o u \in Seq(Nat)
    BY <2>1 DEF Join
  <2> QED BY <1>1, <2>1, <2>2, JoinedTraces
<1>13. t = (done \o a) \o (y \o u) /\ y \o u \in Seq(Nat)
  BY <1>2, <1>4, <1>10, <1>12 DEF Join
<1>14. IsReplaying(longer, above \o tail, env, t)
  BY <1>11, <1>13 DEF IsReplaying, done
<1> QED BY <1>14 DEF above, tail, one

\* A step of the visitor on top.
LEMMA VisitorsReplay ==
    ASSUME TraversalInv, CoverInv, ReplayInv, visitors # <<>>, UNCHANGED <<unit, next>>,
           NEW parts \in Seq(WorkingVisitors), NEW w \in WorkingVisitors,
           visitors' = parts \o <<w>> \o Tail(visitors),
           IsFollowedExactly(Body) =>
                /\ \A v \in ToSet(parts) \cup {w} : IsStraight(v)
                /\ \A env \in Environments : \E a \in Seq(Nat) :
                    /\ Replay(Target', env) = Replay(Target, env) \o a
                    /\ \A r \in Remains(Top, env) :
                            r \in Seq(Nat) => Progress(env, r, a, parts, w)
    PROVE  ReplayInv'
<1>1. Body' = Body
  BY DEF Body
<1>2. /\ Tail(visitors) \in Seq(WorkingVisitors)
      /\ ToSet(Tail(visitors)) \subseteq ToSet(visitors)
      /\ visitors \in Seq(WorkingVisitors)
  BY TheVisitors DEF TraversalInv
<1>3. ToSet(visitors') = ToSet(parts) \cup {w} \cup ToSet(Tail(visitors))
  <2> DEFINE one == <<w>>
             below == Tail(visitors)
  <2>1. one \in Seq(WorkingVisitors) /\ ToSet(one) = {w} /\ below \in Seq(WorkingVisitors)
    BY <1>2, Singleton DEF ToSet
  <2>2. visitors' = (parts \o one) \o below
    OBVIOUS
  <2> HIDE DEF one, below
  <2>3. parts \o one \in Seq(WorkingVisitors)
    BY <2>1, ConcatProperties
  <2>4. ToSet(parts \o one) = ToSet(parts) \cup ToSet(one)
    BY <2>1, ElementsOfConcat
  <2> DEFINE above == parts \o one
  <2> HIDE DEF above
  <2>5. above \in Seq(WorkingVisitors)
    BY <2>3 DEF above
  <2>6. ToSet(above \o below) = ToSet(above) \cup ToSet(below)
    BY <2>1, <2>5, ElementsOfConcat
  <2> QED BY <2>1, <2>2, <2>4, <2>6 DEF below, above
<1>4. ASSUME IsFollowedExactly(Body), NEW v \in ToSet(visitors')
      PROVE  IsStraight(v)
  BY <1>2, <1>3, <1>4 DEF ReplayInv
<1>5. IsReplayed(Target)
  <2>1. Target \in Blocks /\ Len(Target.Locations) = Len(Target.Actions)
    BY DEF TraversalInv, TraversalTypeOK, CoverInv
  <2>2. Target.Actions \in Seq(ProcessedActions) /\ Target.Locations \in Seq(Nat)
    BY <2>1 DEF Blocks
  <2> QED BY <2>1, <2>2, LenProperties, ElementOfSeq DEF IsReplayed
<1>6. Top = visitors[1]
  BY <1>2 DEF Top
<1>7. ASSUME IsFollowedExactly(Body), NEW env \in Environments, NEW run \in RunsOf(Body, env)
      PROVE  IsReplaying(Target', visitors', env, run.Trace)
  <2>1. PICK a \in Seq(Nat) :
            /\ Replay(Target', env) = Replay(Target, env) \o a
            /\ \A r \in Remains(Top, env) : r \in Seq(Nat) => Progress(env, r, a, parts, w)
    BY <1>7
  <2>2. IsReplaying(Target, visitors, env, run.Trace)
    BY <1>7 DEF ReplayInv
  <2> QED BY <1>2, <1>5, <1>6, <2>1, <2>2, ReplayingGoesOn
<1> QED BY <1>1, <1>4, <1>7 DEF ReplayInv

----------------------------------------------------------------------------
(* Steps.                                                                  *)

LEMMA AtAnExact ==
    ASSUME TraversalInv, ReplayInv, visitors # <<>>, Top.Statements # <<>>,
           IsFollowedExactly(Body)
    PROVE  /\ IsStraight(Top) /\ Statement = Top.Statements[1] /\ IsExact(Statement)
           /\ GetCurrentCondition = CurrentConditionOf(Top)
           /\ GetCurrentCondition \in Conditions
           /\ Statement.Kind \notin {"WhileStmt", "ReturnStmt"}
<1>1. IsStraight(Top) /\ IsSound(Top)
  BY TheVisitors DEF ReplayInv, IsStraight
<1>2. Statement = Top.Statements[1] /\ 1 \in DOMAIN Top.Statements
  BY <1>1, AtTheFirst DEF Statement
<1>3. IsExact(Statement)
  BY <1>1, <1>2 DEF IsStraight
<1>4. Statement \in StatementsIn(<<Statement>>)
  BY <1>3, InItself DEF IsExact
<1>5. IsPrecise(Statement)
  BY <1>3, <1>4 DEF IsExact
<1>6. GetCurrentCondition = CurrentConditionOf(Top)
  BY DEF GetCurrentCondition, CurrentConditionOf
<1>7. GetCurrentCondition \in Conditions
  BY GetCurrentConditionType
<1> QED BY <1>1, <1>2, <1>3, <1>5, <1>6, <1>7 DEF IsPrecise

\* A block that is left as it is replays the same.
LEMMA BlockIsLeft ==
    ASSUME TraversalInv, CoverInv,
           Target.Actions' = Target.Actions, Target.Locations' = Target.Locations, NEW env
    PROVE  Replay(Target', env) = Replay(Target, env) \o <<>>
<1>1. IsReplayed(Target)
  <2>1. Target \in Blocks /\ Len(Target.Locations) = Len(Target.Actions)
    BY DEF TraversalInv, TraversalTypeOK, CoverInv
  <2>2. Target.Actions \in Seq(ProcessedActions) /\ Target.Locations \in Seq(Nat)
    BY <2>1 DEF Blocks
  <2> QED BY <2>1, <2>2, LenProperties, ElementOfSeq DEF IsReplayed
<1>2. Replay(Target', env) = Replay(Target, env)
  BY DEF Replay, ReplayUpTo
<1>3. Replay(Target, env) \in Seq(Nat)
  BY <1>1, ReplayType
<1> QED BY <1>2, <1>3, ConcatEmptySeq

\* Three ways to go on: with what is left, with an action, with new visitors.
LEMMA GoesOnAlone ==
    ASSUME NEW env, NEW w, NEW r \in Seq(Nat), r \in Remains(w, env)
    PROVE  Progress(env, r, <<>>, <<>>, w)
<1>1. Follows(<<>>, env, <<>>) /\ <<>> \in Seq(Nat)
  BY NoneFollows
<1>2. <<>> \o (<<>> \o r) = r
  BY ConcatEmptySeq
<1> QED BY <1>1, <1>2 DEF Progress

LEMMA GoesOnWith ==
    ASSUME NEW env, NEW w, NEW parts, NEW r, NEW x \in Seq(Nat), Follows(parts, env, x),
           NEW b \in Seq(Nat), b \in Remains(w, env), r = x \o b
    PROVE  Progress(env, r, <<>>, parts, w)
<1>1. Join(x, b, b)
  BY JoinedTraces
<1>2. r \in Seq(Nat)
  BY <1>1 DEF Join
<1>3. <<>> \o r = r
  BY <1>2, ConcatEmptySeq
<1> QED BY <1>3 DEF Progress

LEMMA GoesOnBehind ==
    ASSUME NEW env, NEW w, NEW a \in Seq(Nat), NEW b \in Seq(Nat), b \in Remains(w, env)
    PROVE  Progress(env, a \o b, a, <<>>, w)
<1>1. Follows(<<>>, env, <<>>) /\ <<>> \in Seq(Nat)
  BY NoneFollows
<1>2. <<>> \o b = b
  BY ConcatEmptySeq
<1> QED BY <1>1, <1>2 DEF Progress

\* A label or a break, behind which the visitor has another condition.
LEMMA LabelReplays ==
    ASSUME TraversalInv, CoverInv, ReplayInv, visitors # <<>>, Top.Statements # <<>>,
           UNCHANGED <<unit, next, Target>>,
           NEW condition \in Conditions, NEW cases \in SUBSET Asking,
           GoOn([Top EXCEPT !.SwitchCases = cases, !.CurrentSwitchCondition = condition], <<>>),
           IsStraight(Top) =>
                LET w == GoneOn(Top, <<>>, condition, cases) IN
                /\ IsStraight(w)
                /\ \A env \in Environments : Remains(Top, env) \subseteq Remains(w, env)
    PROVE  ReplayInv'
<1> DEFINE none == <<>>
           w == GoneOn(Top, <<>>, condition, cases)
<1>1. Top \in WorkingVisitors /\ Tail(visitors) \in Seq(WorkingVisitors)
  BY VisitedType
<1>2. w \in WorkingVisitors
  BY <1>1, NothingNew, GoneOnType
<1> DEFINE visitor == [Top EXCEPT !.SwitchCases = cases, !.CurrentSwitchCondition = condition]
<1>3. visitors' = none \o <<w>> \o Tail(visitors)
  <2>1. [visitor EXCEPT !.Statements = Tail(@)] = w
    <3>1. Top.Statements \in Seq(Statements) /\ Top \in Visitors
      BY <1>1 DEF WorkingVisitors, Visitors
    <3>2. <<>> \o Tail(Top.Statements) = Tail(Top.Statements)
      BY <3>1
    <3>3. w = [Top EXCEPT !.Statements = Tail(Top.Statements),
                          !.CurrentSwitchCondition = condition, !.SwitchCases = cases]
      BY <3>2 DEF GoneOn
    <3> QED BY <3>1, <3>3 DEF Visitors
  <2>2. GoOn(visitor, none)
    OBVIOUS
  <2> HIDE DEF visitor, w, none
  <2> QED BY <2>1, <2>2 DEF GoOn
<1>4. none \in Seq(WorkingVisitors) /\ ToSet(none) = {} /\ none \in Seq(Nat)
  BY NothingNew, EmptySeq
<1>5. IsStraight(Top) =>
            /\ IsStraight(w)
            /\ \A env \in Environments : Remains(Top, env) \subseteq Remains(w, env)
  OBVIOUS
<1> HIDE DEF w
<1>6. ASSUME IsFollowedExactly(Body)
      PROVE  /\ IsStraight(w)
             /\ \A env \in Environments :
                    /\ Replay(Target', env) = Replay(Target, env) \o none
                    /\ \A r \in Remains(Top, env) :
                            r \in Seq(Nat) => Progress(env, r, none, none, w)
  BY <1>5, <1>6, AtAnExact, BlockIsLeft, GoesOnAlone
<1> HIDE DEF none
<1>7. IsFollowedExactly(Body) =>
            /\ \A v \in ToSet(none) \cup {w} : IsStraight(v)
            /\ \A env \in Environments : \E a \in Seq(Nat) :
                /\ Replay(Target', env) = Replay(Target, env) \o a
                /\ \A r \in Remains(Top, env) : r \in Seq(Nat) => Progress(env, r, a, none, w)
  BY <1>4, <1>6
<1> QED BY <1>2, <1>3, <1>4, <1>7, VisitorsReplay

LEMMA CaseReplays ==
    ASSUME TraversalInv, CoverInv, ReplayInv, VisitCaseStmt
    PROVE  ReplayInv'
<1> DEFINE c == MatchesCase(Top.Subject, Statement.Value)
           current == Top.CurrentSwitchCondition
<1>1. /\ visitors # <<>> /\ Top.Statements # <<>>
      /\ GoOn(IF Statement.Value = Unknown THEN Top
              ELSE [Top EXCEPT !.SwitchCases = @ \cup {c},
                               !.CurrentSwitchCondition = OrSwitchCondition(@, c)], <<>>)
      /\ UNCHANGED <<unit, next, Target>>
      /\ Statement.Kind = "CaseStmt" /\ Top.Type = "Case"
  BY DEF VisitCaseStmt, Visits, MatchesCase
<1>2. /\ Top \in WorkingVisitors /\ Top \in Visitors /\ Statement.Value \in Literals
      /\ Top.Subject \in Copies \cup Primitives
      /\ current \in Conditions /\ Top.SwitchCases \in SUBSET Asking
  BY <1>1, VisitedType, StatementParts DEF WorkingVisitors, Visitors
<1>3. c \in Asking /\ c \in Conditions
  <2>1. Leaf(Top.Subject, ComparedConstant("EQUAL", Statement.Value)) \in Leaves
    BY <1>2 DEF Leaf, Leaves, ComparedConstant, ValueRanges, COMPARISON, Literals
  <2> QED BY <2>1, WhenType DEF MatchesCase, Asking
<1>4. OrSwitchCondition(current, c) \in Conditions /\ Top.SwitchCases \cup {c} \in SUBSET Asking
  BY <1>2, <1>3, OrSwitchConditionType
<1>5. ASSUME IsStraight(Top)
      PROVE  LET w == GoneOn(Top, <<>>, OrSwitchCondition(current, c), Top.SwitchCases \cup {c})
             IN /\ IsStraight(w)
                /\ \A env \in Environments : Remains(Top, env) \subseteq Remains(w, env)
  <2>1. Statement = Top.Statements[1]
    BY <1>1, <1>5, AtTheFirst DEF Statement, IsStraight
  <2> QED BY <1>1, <1>5, <2>1, CaseBehind
<1>6. CASE Statement.Value # Unknown
  <2>1. GoOn([Top EXCEPT !.SwitchCases = Top.SwitchCases \cup {c},
                         !.CurrentSwitchCondition = OrSwitchCondition(current, c)], <<>>)
    BY <1>1, <1>2, <1>6 DEF Visitors
  <2> HIDE DEF c, current
  <2> QED BY <1>1, <1>4, <1>5, <2>1, LabelReplays
\* The label of a switch whose cases are apart has a value.
<1>7. CASE Statement.Value = Unknown
  <2>1. ~IsFollowedExactly(Body)
    <3> SUFFICES ASSUME IsFollowedExactly(Body) PROVE FALSE
      OBVIOUS
    <3>1. IsSound(Top) /\ Statement = Top.Statements[1]
      BY <1>1, AtAnExact DEF IsStraight
    <3> QED BY <1>1, <1>7, <3>1, BehindCase
  <2>2. Body' = Body
    BY <1>1 DEF Body
  <2> QED BY <2>1, <2>2 DEF ReplayInv
<1> QED BY <1>6, <1>7

LEMMA DefaultReplays ==
    ASSUME TraversalInv, CoverInv, ReplayInv, VisitDefaultStmt
    PROVE  ReplayInv'
<1> DEFINE condition == OrSwitchCondition(Top.CurrentSwitchCondition, NoneOf(Top.SwitchCases))
           cases == Top.SwitchCases
<1>1. /\ visitors # <<>> /\ Top.Statements # <<>>
      /\ GoOn([Top EXCEPT !.CurrentSwitchCondition =
                    OrSwitchCondition(@, NoneOf(Top.SwitchCases))], <<>>)
      /\ UNCHANGED <<unit, next, Target>>
      /\ Statement.Kind = "DefaultStmt" /\ Top.Type = "Case"
  BY DEF VisitDefaultStmt, Visits
<1>2. /\ Top \in Visitors /\ Top.CurrentSwitchCondition \in Conditions
      /\ cases \in SUBSET Asking
  BY <1>1, VisitedType DEF WorkingVisitors, Visitors
<1>3. condition \in Conditions
  BY <1>2, NoneOfType, OrSwitchConditionType
<1>4. ASSUME IsStraight(Top)
      PROVE  LET w == GoneOn(Top, <<>>, condition, cases) IN
             /\ IsStraight(w)
             /\ \A env \in Environments : Remains(Top, env) \subseteq Remains(w, env)
  <2>1. Statement = Top.Statements[1]
    BY <1>1, <1>4, AtTheFirst DEF Statement, IsStraight
  <2> QED BY <1>1, <1>4, <2>1, DefaultBehind
<1>5. GoOn([Top EXCEPT !.SwitchCases = cases, !.CurrentSwitchCondition = condition], <<>>)
  BY <1>1, <1>2 DEF Visitors
<1> HIDE DEF condition, cases
<1> QED BY <1>1, <1>2, <1>3, <1>4, <1>5, LabelReplays

LEMMA BreakReplays ==
    ASSUME TraversalInv, CoverInv, ReplayInv, VisitBreakStmt
    PROVE  ReplayInv'
<1> DEFINE cases == Top.SwitchCases
<1>1. /\ visitors # <<>> /\ Top.Statements # <<>>
      /\ GoOn([Top EXCEPT !.CurrentSwitchCondition = Always], <<>>)
      /\ UNCHANGED <<unit, next, Target>>
      /\ Statement.Kind = "BreakStmt" /\ Top.Type = "Case"
  BY DEF VisitBreakStmt, Visits
<1>2. Top \in Visitors /\ cases \in SUBSET Asking /\ Always \in Conditions
  BY <1>1, VisitedType, AlwaysType DEF WorkingVisitors, Visitors
<1>3. ASSUME IsStraight(Top)
      PROVE  LET w == GoneOn(Top, <<>>, Always, cases) IN
             /\ IsStraight(w)
             /\ \A env \in Environments : Remains(Top, env) \subseteq Remains(w, env)
  <2>1. Statement = Top.Statements[1]
    BY <1>1, <1>3, AtTheFirst DEF Statement, IsStraight
  <2> QED BY <1>1, <1>3, <2>1, ABreakBehind
<1>4. GoOn([Top EXCEPT !.SwitchCases = cases, !.CurrentSwitchCondition = Always], <<>>)
  BY <1>1, <1>2 DEF Visitors
<1> HIDE DEF cases
<1> QED BY <1>1, <1>2, <1>3, <1>4, LabelReplays

\* A statement without others in it.
LEMMA PlainReplays ==
    ASSUME TraversalInv, CoverInv, ReplayInv, visitors # <<>>, Top.Statements # <<>>,
           UNCHANGED <<unit, next>>, GoOn(Top, <<>>),
           Statement.Kind \notin {"IfStmt", "SwitchStmt"},
           Top.Type = "Case" => Statement.Kind \notin Labels \cup {"BreakStmt"},
           \A env : Replay(Target', env) = Replay(Target, env) \o
                IF Recorded(Statement) /\ Evaluate(GetCurrentCondition, env)
                THEN <<Statement.At>> ELSE <<>>
    PROVE  ReplayInv'
<1> DEFINE none == <<>>
           w == GoneOn(Top, <<>>, Top.CurrentSwitchCondition, Top.SwitchCases)
           added(env) == IF Recorded(Statement) /\ Evaluate(GetCurrentCondition, env)
                         THEN <<Statement.At>> ELSE <<>>
<1>1. none \in Seq(WorkingVisitors) /\ ToSet(none) = {} /\ GoOn(Top, none)
  BY NothingNew
<1>2. Statement.At \in Nat
  BY VisitedType, StatementParts
<1>3. \A env : added(env) \in Seq(Nat)
  BY <1>2, EmptySeq, Singleton
<1>4. w \in WorkingVisitors /\ visitors' = none \o <<w>> \o Tail(visitors)
  <2> HIDE DEF none
  <2> QED BY <1>1, GoneOnBehind
<1>5. ASSUME IsFollowedExactly(Body)
      PROVE  /\ IsStraight(w)
             /\ \A env \in Environments : \A r \in Remains(Top, env) :
                    r \in Seq(Nat) => Progress(env, r, added(env), none, w)
  <2>1. /\ IsStraight(Top) /\ Statement = Top.Statements[1] /\ IsExact(Statement)
        /\ GetCurrentCondition = CurrentConditionOf(Top)
    BY <1>5, AtAnExact
  <2>2. /\ IsStraight(w)
        /\ \A env \in Environments : \A t \in Remains(Top, env) :
             IF Evaluate(CurrentConditionOf(Top), env)
             THEN \E a \in Does(Top.Statements[1], env) : \E b \in Remains(w, env) :
                        b \in Seq(Nat) /\ t = a \o b
             ELSE t \in Remains(w, env)
    BY <2>1, OtherBehind
  <2> HIDE DEF w
  <2>3. ASSUME NEW env \in Environments, NEW r \in Remains(Top, env), r \in Seq(Nat)
        PROVE  Progress(env, r, added(env), none, w)
    <3>1. CASE ~Evaluate(GetCurrentCondition, env)
      <4>1. r \in Remains(w, env)
        BY <2>1, <2>2, <3>1
      <4>2. Progress(env, r, <<>>, <<>>, w)
        BY <2>3, <4>1, GoesOnAlone
      <4> QED BY <3>1, <4>2
    <3>2. CASE Evaluate(GetCurrentCondition, env)
      <4>1. \E a \in Does(Statement, env) : \E b \in Remains(w, env) :
                b \in Seq(Nat) /\ r = a \o b
        BY <2>1, <2>2, <3>2
      <4>2. PICK a \in Does(Statement, env) : \E b \in Remains(w, env) :
                b \in Seq(Nat) /\ r = a \o b
        BY <4>1
      <4>3. PICK b \in Remains(w, env) : b \in Seq(Nat) /\ r = a \o b
        BY <4>2
      <4>4. a = added(env)
        BY <2>1, <3>2, <4>2, OtherDoes
      <4>5. a \in Seq(Nat)
        BY <1>3, <4>4
      <4>6. Progress(env, a \o b, a, <<>>, w)
        BY <4>3, <4>5, GoesOnBehind
      <4> HIDE DEF added
      <4> QED BY <4>3, <4>4, <4>6
    <3> QED BY <3>1, <3>2
  <2> QED BY <2>2, <2>3
<1>6. \A env : Replay(Target', env) = Replay(Target, env) \o added(env)
  OBVIOUS
<1> HIDE DEF none, w, added
<1>7. IsFollowedExactly(Body) =>
            /\ \A v \in ToSet(none) \cup {w} : IsStraight(v)
            /\ \A env \in Environments : \E a \in Seq(Nat) :
                /\ Replay(Target', env) = Replay(Target, env) \o a
                /\ \A r \in Remains(Top, env) : r \in Seq(Nat) => Progress(env, r, a, none, w)
  BY <1>1, <1>3, <1>5, <1>6
<1> QED BY <1>1, <1>4, <1>7, VisitorsReplay

\* An action that is added is replayed where its condition holds.
LEMMA AddedIsReplayed ==
    ASSUME TraversalInv, CoverInv, visitors # <<>>, Top.Statements # <<>>,
           NEW action, action.If = GetCurrentCondition, AddProcessedAction(action), NEW env
    PROVE  Replay(Target', env) = Replay(Target, env) \o
                IF Evaluate(GetCurrentCondition, env) THEN <<Statement.At>> ELSE <<>>
<1>1. Target \in Blocks /\ Len(Target.Locations) = Len(Target.Actions)
  BY DEF TraversalInv, TraversalTypeOK, CoverInv
<1>2. Target.Actions \in Seq(ProcessedActions) /\ Target.Locations \in Seq(Nat)
  BY <1>1 DEF Blocks
<1>3. /\ Target'.Actions = Append(Target.Actions, action)
      /\ Target'.Locations = Append(Target.Locations, Statement.At)
  BY <1>1 DEF AddProcessedAction, Blocks
<1> DEFINE n == Len(Target.Actions)
<1>4. /\ n \in Nat /\ Len(Target'.Actions) = n + 1 /\ Len(Target'.Locations) = n + 1
      /\ \A i \in 1 .. n : /\ Target'.Actions[i] = Target.Actions[i]
                           /\ Target'.Locations[i] = Target.Locations[i]
      /\ Target'.Actions[n + 1] = action /\ Target'.Locations[n + 1] = Statement.At
  <2>1. /\ n \in Nat /\ Len(Target'.Actions) = n + 1
        /\ \A i \in 1 .. n : Target'.Actions[i] = Target.Actions[i]
        /\ Target'.Actions[n + 1] = action
    BY <1>2, <1>3, Appended
  <2>2. /\ Len(Target'.Locations) = n + 1
        /\ \A i \in 1 .. n : Target'.Locations[i] = Target.Locations[i]
        /\ Target'.Locations[n + 1] = Statement.At
    BY <1>1, <1>2, <1>3, Appended
  <2> QED BY <2>1, <2>2
<1>5. \A i \in 1 .. n : Target.Locations[i] \in Nat
  BY <1>1, <1>2, ElementOfSeq
<1>6. Statement.At \in Nat
  BY VisitedType, StatementParts
<1>7. IsReplayed(Target)
  BY <1>1, <1>4, <1>5 DEF IsReplayed
<1>8. Replay(Target, env) \in Seq(Nat)
  BY <1>7, ReplayType
<1> HIDE DEF n
<1>9. IsReplayed(Target')
  <2>1. \A i \in 1 .. n + 1 : i \in 1 .. n \/ i = n + 1
    BY <1>4
  <2> QED BY <1>4, <1>5, <1>6, <2>1 DEF IsReplayed
<1>10. Replay(Target', env) = OneMore(Target', env, n + 1, Replay(Target, env))
  BY <1>4, <1>7, <1>9, ReplayAdded DEF n
<1> DEFINE done == Replay(Target, env)
<1>11. OneMore(Target', env, n + 1, done) =
            IF Evaluate(GetCurrentCondition, env) THEN Append(done, Statement.At) ELSE done
  BY <1>4 DEF OneMore
<1> HIDE DEF done
<1>12. Append(done, Statement.At) = done \o <<Statement.At>> /\ done \o <<>> = done
  BY <1>6, <1>8, AppendIsConcat, ConcatEmptySeq DEF done
<1> QED BY <1>10, <1>11, <1>12 DEF done

LEMMA ActionReplays ==
    ASSUME TraversalInv, CoverInv, ReplayInv,
           VisitVarDecl \/ VisitBinaryOperator \/ VisitArraySubscriptExpr \/ TraverseCallExpr
    PROVE  ReplayInv'
<1>1. /\ visitors # <<>> /\ Top.Statements # <<>> /\ GoOn(Top, <<>>)
      /\ UNCHANGED <<unit, next>>
      /\ Statement.Kind \in {"VarDecl", "Assign", "ArraySubscriptExpr", "CallExpr"}
  BY DEF VisitVarDecl, VisitBinaryOperator, VisitArraySubscriptExpr, TraverseCallExpr, Visits
<1>2. Statement.Kind \notin Labels \cup {"BreakStmt"}
  BY <1>1 DEF Labels
<1>3. \/ UNCHANGED Target /\ ~Recorded(Statement)
      \/ /\ Recorded(Statement)
         /\ \E action : action.If = GetCurrentCondition /\ AddProcessedAction(action)
  <2>1. CASE VisitVarDecl
    <3> DEFINE action == [Kind |-> "VarDeclared", If |-> GetCurrentCondition,
                          Variable |-> Statement.Variable, State |-> Statement.State]
    <3>1. action.If = GetCurrentCondition /\ AddProcessedAction(action) /\ Recorded(Statement)
      BY <2>1 DEF VisitVarDecl, Visits, Recorded
    <3> QED BY <3>1
  <2>2. CASE VisitBinaryOperator
    <3> DEFINE action == [Kind |-> "VarAssigned", If |-> GetCurrentCondition,
                          Variable |-> Statement.Variable, State |-> Statement.State]
    <3>1. \/ UNCHANGED Target /\ ~Recorded(Statement)
          \/ AddProcessedAction(action) /\ Recorded(Statement)
      BY <2>2 DEF VisitBinaryOperator, Visits, Recorded
    <3>2. action.If = GetCurrentCondition
      OBVIOUS
    <3> QED BY <3>1, <3>2
  <2>3. CASE VisitArraySubscriptExpr
    <3> DEFINE action == [Kind |-> "ArrayIndexAccess", If |-> GetCurrentCondition,
                          Array |-> Statement.Array, Index |-> Statement.Index]
    <3>1. \/ UNCHANGED Target /\ ~Recorded(Statement)
          \/ AddProcessedAction(action) /\ Recorded(Statement)
      BY <2>3 DEF VisitArraySubscriptExpr, Visits, Recorded
    <3>2. action.If = GetCurrentCondition
      OBVIOUS
    <3> QED BY <3>1, <3>2
  <2>4. CASE TraverseCallExpr
    <3> DEFINE action == [Kind |-> "FunctionCall", If |-> GetCurrentCondition,
                          Function |-> Statement.Function, Params |-> Statement.Params]
    <3>1. \/ UNCHANGED Target /\ ~Recorded(Statement)
          \/ AddProcessedAction(action) /\ Recorded(Statement)
      BY <2>4 DEF TraverseCallExpr, Visits, Recorded
    <3>2. action.If = GetCurrentCondition
      OBVIOUS
    <3> QED BY <3>1, <3>2
  <2> QED BY <1>1, <2>1, <2>2, <2>3, <2>4
<1>4. ASSUME NEW env
      PROVE  Replay(Target', env) = Replay(Target, env) \o
                IF Recorded(Statement) /\ Evaluate(GetCurrentCondition, env)
                THEN <<Statement.At>> ELSE <<>>
  <2>1. CASE UNCHANGED Target /\ ~Recorded(Statement)
    BY <2>1, BlockIsLeft
  <2>2. CASE /\ Recorded(Statement)
             /\ \E action : action.If = GetCurrentCondition /\ AddProcessedAction(action)
    BY <1>1, <2>2, AddedIsReplayed
  <2> QED BY <1>3, <2>1, <2>2
<1>5. Statement.Kind \notin {"IfStmt", "SwitchStmt"}
  BY <1>1
<1> QED BY <1>1, <1>2, <1>4, <1>5, PlainReplays

LEMMA PassReplays ==
    ASSUME TraversalInv, CoverInv, ReplayInv, PassOver \/ VisitParmVarDecl
    PROVE  ReplayInv'
<1>1. /\ visitors # <<>> /\ Top.Statements # <<>> /\ GoOn(Top, <<>>)
      /\ UNCHANGED <<unit, next>>
      /\ Statement.Kind \in {"ReturnStmt", "CaseStmt", "DefaultStmt", "BreakStmt", "FunctionDecl"}
      /\ Top.Type = "Case" => Statement.Kind \notin Labels \cup {"BreakStmt"}
  <2>1. /\ visitors # <<>> /\ Top.Statements # <<>> /\ GoOn(Top, <<>>)
        /\ UNCHANGED <<unit, next>>
    BY DEF PassOver, VisitParmVarDecl, Visits
  <2>2. \/ Statement.Kind \in {"ReturnStmt", "FunctionDecl"}
        \/ Statement.Kind \in {"CaseStmt", "DefaultStmt", "BreakStmt"} /\ Top.Type # "Case"
    BY DEF PassOver, VisitParmVarDecl, Visits
  <2> QED BY <2>1, <2>2 DEF Labels
<1>2. Target.Actions' = Target.Actions /\ Target.Locations' = Target.Locations
  <2>1. CASE PassOver
    BY <2>1 DEF PassOver
  <2>2. CASE VisitParmVarDecl
    BY <2>2 DEF VisitParmVarDecl, TraversalInv, TraversalTypeOK, Blocks
  <2> QED BY <2>1, <2>2
<1>3. ~Recorded(Statement) /\ Statement.Kind \notin {"IfStmt", "SwitchStmt"}
  BY <1>1 DEF Recorded
<1>4. \A env : Replay(Target', env) = Replay(Target, env) \o
            IF Recorded(Statement) /\ Evaluate(GetCurrentCondition, env)
            THEN <<Statement.At>> ELSE <<>>
  BY <1>2, <1>3, BlockIsLeft
<1> QED BY <1>1, <1>3, <1>4, PlainReplays

\* There is no loop in what the visitors follow exactly.
LEMMA WhileReplays ==
    ASSUME TraversalInv, CoverInv, ReplayInv, TraverseWhileStmt
    PROVE  ReplayInv'
<1>1. /\ visitors # <<>> /\ Top.Statements # <<>> /\ Statement.Kind = "WhileStmt"
      /\ UNCHANGED <<unit, next>>
  BY DEF TraverseWhileStmt, Visits
<1>2. ~IsFollowedExactly(Body)
  BY <1>1, AtAnExact
<1>3. Body' = Body
  BY <1>1 DEF Body
<1> QED BY <1>2, <1>3 DEF ReplayInv

LEMMA LeaveReplays ==
    ASSUME TraversalInv, CoverInv, ReplayInv, LeaveVisitor
    PROVE  ReplayInv'
<1>1. /\ visitors # <<>> /\ Top.Statements = <<>> /\ visitors' = Tail(visitors)
      /\ UNCHANGED <<unit, next, Target>>
  <2>1. Len(visitors) > 1
    BY DEF LeaveVisitor
  <2> QED BY <2>1, EmptySeq DEF LeaveVisitor
<1>2. ToSet(Tail(visitors)) \subseteq ToSet(visitors) /\ visitors \in Seq(WorkingVisitors)
  BY <1>1, TheVisitors DEF TraversalInv
<1>3. Body' = Body
  BY <1>1 DEF Body
<1>4. Top = visitors[1]
  BY <1>1, <1>2 DEF Top
<1>5. ASSUME IsFollowedExactly(Body), NEW env \in Environments, NEW run \in RunsOf(Body, env)
      PROVE  IsReplaying(Target, Tail(visitors), env, run.Trace)
  <2>1. IsReplaying(Target, visitors, env, run.Trace)
    BY <1>1, <1>5 DEF ReplayInv
  <2>2. PICK rest \in Seq(Nat) :
            run.Trace = Replay(Target, env) \o rest /\ Follows(visitors, env, rest)
    BY <2>1 DEF IsReplaying
  <2>3. PICK r, u : FollowsOn(visitors, env, rest, r, u)
    BY <1>1, <1>2, <2>2, HeadFollows
  <2>4. r = <<>>
    BY <1>1, <1>4, <2>3, NothingLeft DEF FollowsOn
  <2>5. rest = u /\ Follows(Tail(visitors), env, u)
    BY <2>3, <2>4, ConcatEmptySeq DEF FollowsOn
  <2> QED BY <2>2, <2>5 DEF IsReplaying
<1> QED BY <1>1, <1>2, <1>3, <1>5 DEF ReplayInv

LEMMA AddBlockReplays ==
    ASSUME AddBlock
    PROVE  ReplayInv'
BY DEF AddBlock, ReplayInv

LEMMA FunctionReplays ==
    ASSUME TraversalInv, CoverInv, TraverseFunctionDecl
    PROVE  ReplayInv'
<1> DEFINE v == FunctionVisitor(Body)
<1>1. /\ visitors' = <<v>> /\ next <= Len(unit) /\ UNCHANGED <<unit, next>>
      /\ Target' = [EmptyBlock EXCEPT !.Parameters = unit[next].Parameters] /\ Body' = Body
  BY DEF TraverseFunctionDecl, Body
<1>2. Target'.Actions = <<>> /\ Target'.Locations = <<>>
  BY <1>1 DEF EmptyBlock
<1>3. unit \in Units /\ next \in DOMAIN unit /\ unit[next] \in Declarations
  <2>1. unit \in Seq(Declarations) /\ next \in 1 .. Len(unit) + 1
    BY DEF TraversalInv, TraversalTypeOK
  <2>2. Len(unit) \in Nat /\ DOMAIN unit = 1 .. Len(unit)
    BY <2>1, LenProperties
  <2> QED BY <1>1, <2>1, <2>2, ElementOfSeq DEF CoverInv
<1>4. IsNested(Body) /\ IsLocated(Body) /\ IsWellFormed(Body) /\ Body \in Seq(Statements)
  <2>1. Body \in Seq(Statements)
    BY <1>3 DEF Body, Declarations
  <2> QED BY <1>3, <2>1, BodyAssumption DEF Body, IsNested
<1>5. ASSUME IsFollowedExactly(Body)
      PROVE  IsStraight(v) /\ \A env : Remains(v, env) = Leads(Body, env)
  BY <1>4, <1>5, FunctionBegins
<1> HIDE DEF v
<1>6. ToSet(visitors') = {v}
  BY <1>1 DEF ToSet
<1>7. ASSUME NEW env PROVE Replay(Target', env) = <<>>
  <2>1. Len(Target'.Actions) = 0 /\ Len(Target'.Locations) = 0
    BY <1>2, EmptySeq
  <2>2. IsReplayed(Target')
    BY <2>1 DEF IsReplayed
  <2> QED BY <2>1, <2>2, ReplayType
<1>8. ASSUME IsFollowedExactly(Body), NEW env \in Environments, NEW run \in RunsOf(Body, env)
      PROVE  IsReplaying(Target', <<v>>, env, run.Trace)
  <2>1. MaxNesting + 1 \in Nat
    BY MaxNestingAssumption
  <2>2. run.Trace \in Leads(Body, env)
    BY <2>1 DEF Leads, RunsOf
  <2>3. run.Trace \in Seq(Nat) /\ run.Trace \in Remains(v, env)
    BY <1>4, <1>5, <1>8, <2>2, LeadsType
  <2>4. Follows(<<v>>, env, run.Trace)
    BY <2>3, OneFollows
  <2>5. <<>> \o run.Trace = run.Trace
    BY <2>3, ConcatEmptySeq
  <2> QED BY <1>7, <2>3, <2>4, <2>5 DEF IsReplaying
<1> QED BY <1>1, <1>5, <1>6, <1>8 DEF ReplayInv

\* What a switch does is what its visitor has to visit.
LEMMA SwitchReplays ==
    ASSUME TraversalInv, CoverInv, ReplayInv, TraverseSwitchStmt
    PROVE  ReplayInv'
<1> DEFINE visitor == CaseConditionalVisitor(GetCurrentCondition, Statement.Subject,
                                             Statement.Body)
           parts == IF Statement.Subject = NotParsed THEN <<>> ELSE <<visitor>>
           w == GoneOn(Top, <<>>, Top.CurrentSwitchCondition, Top.SwitchCases)
           none == <<>>
<1>1. /\ visitors # <<>> /\ Top.Statements # <<>> /\ GoOn(Top, parts)
      /\ UNCHANGED <<unit, next, Target>>
      /\ Statement.Kind = "SwitchStmt"
  BY DEF TraverseSwitchStmt, Visits
<1>2. /\ Statement.Subject \in Copies \cup Primitives \cup {NotParsed}
      /\ Statement.Body \in Seq(Statements)
      /\ GetCurrentCondition \in Conditions
  BY <1>1, VisitedType, StatementParts, GetCurrentConditionType
<1>3. Statement.Subject # NotParsed => visitor \in WorkingVisitors
  BY <1>2, NewVisitorType DEF CaseConditionalVisitor
<1>4. parts \in Seq(WorkingVisitors)
  <2> HIDE DEF visitor
  <2> QED BY <1>3, EmptySeq, Singleton
<1>5. w \in WorkingVisitors /\ visitors' = parts \o <<w>> \o Tail(visitors)
  <2> HIDE DEF parts
  <2> QED BY <1>1, <1>4, GoneOnBehind
<1>6. ASSUME IsFollowedExactly(Body)
      PROVE  /\ IsStraight(w) /\ IsStraight(visitor) /\ Statement.Subject # NotParsed
             /\ \A env \in Environments : \A r \in Remains(Top, env) :
                    r \in Seq(Nat) => Progress(env, r, none, parts, w)
  <2>1. /\ IsStraight(Top) /\ Statement = Top.Statements[1] /\ IsExact(Statement)
        /\ GetCurrentCondition = CurrentConditionOf(Top)
    BY <1>1, <1>6, AtAnExact
  <2>2. /\ IsStraight(w)
        /\ \A env \in Environments : \A t \in Remains(Top, env) :
             IF Evaluate(CurrentConditionOf(Top), env)
             THEN \E a \in Does(Top.Statements[1], env) : \E b \in Remains(w, env) :
                        b \in Seq(Nat) /\ t = a \o b
             ELSE t \in Remains(w, env)
    <3>1. Top.Statements[1].Kind \notin Labels \cup {"BreakStmt"}
      BY <1>1, <2>1 DEF Labels
    <3> QED BY <1>1, <2>1, <3>1, OtherBehind
  <2>3. /\ IsStraight(visitor)
        /\ \A env : IF Evaluate(GetCurrentCondition, env)
                    THEN Does(Statement, env) \subseteq Remains(visitor, env)
                    ELSE Remains(visitor, env) = {<<>>}
    BY <1>1, <1>2, <2>1, SwitchBegins
  <2>4. Statement.Subject # NotParsed
    BY <1>1, <2>1, ExactSwitch
  <2> HIDE DEF w, visitor
  <2>5. parts = <<visitor>>
    BY <2>4
  <2> HIDE DEF parts
  <2>6. ASSUME NEW env \in Environments, NEW r \in Remains(Top, env), r \in Seq(Nat)
        PROVE  Progress(env, r, none, parts, w)
    <3>1. CASE ~Evaluate(GetCurrentCondition, env)
      <4>1. r \in Remains(w, env) /\ none \in Remains(visitor, env)
        BY <2>1, <2>2, <2>3, <3>1
      <4>2. none \in Seq(Nat)
        BY EmptySeq
      <4>3. Follows(parts, env, none)
        BY <2>5, <4>1, <4>2, OneFollows
      <4>4. r = none \o r
        BY <2>6, ConcatEmptySeq
      <4> QED BY <2>6, <4>1, <4>2, <4>3, <4>4, GoesOnWith
    <3>2. CASE Evaluate(GetCurrentCondition, env)
      <4>1. \E a \in Does(Statement, env) : \E b \in Remains(w, env) :
                b \in Seq(Nat) /\ r = a \o b
        BY <2>1, <2>2, <3>2
      <4>2. PICK a \in Does(Statement, env) : \E b \in Remains(w, env) :
                b \in Seq(Nat) /\ r = a \o b
        BY <4>1
      <4>3. PICK b \in Remains(w, env) : b \in Seq(Nat) /\ r = a \o b
        BY <4>2
      <4>4. a \in Remains(visitor, env) /\ a \in Seq(Nat)
        <5>1. Statement \in Statements
          BY <1>1, VisitedType
        <5> QED BY <2>3, <3>2, <4>2, <5>1, DoesType
      <4>5. Follows(parts, env, a)
        BY <2>5, <4>4, OneFollows
      <4> QED BY <4>3, <4>4, <4>5, GoesOnWith
    <3> QED BY <3>1, <3>2
  <2> QED BY <2>2, <2>3, <2>4, <2>6
<1>7. none \in Seq(Nat)
  BY EmptySeq
<1>8. \A env : Replay(Target', env) = Replay(Target, env) \o none
  BY <1>1, BlockIsLeft
<1> HIDE DEF none, w
<1>9. IsFollowedExactly(Body) => \A v \in ToSet(parts) \cup {w} : IsStraight(v)
  <2> HIDE DEF visitor
  <2>1. Statement.Subject # NotParsed => ToSet(parts) = {visitor}
    BY DEF ToSet
  <2> HIDE DEF parts
  <2> QED BY <1>6, <2>1
<1> HIDE DEF visitor, parts
<1>10. IsFollowedExactly(Body) =>
            \A env \in Environments : \E a \in Seq(Nat) :
                /\ Replay(Target', env) = Replay(Target, env) \o a
                /\ \A r \in Remains(Top, env) : r \in Seq(Nat) => Progress(env, r, a, parts, w)
  BY <1>6, <1>7, <1>8
<1> QED BY <1>1, <1>4, <1>5, <1>9, <1>10, VisitorsReplay

\* What an if statement does is what the visitors of its branches have to visit.
LEMMA IfReplays ==
    ASSUME TraversalInv, CoverInv, ReplayInv, TraverseIfStmt
    PROVE  ReplayInv'
<1> DEFINE condition == IF Statement.Condition = NotParsed
                        THEN Always ELSE When(Statement.Condition)
           negated == Negate(condition)
           Branch(guard, content) == ConditionalContentVisitor(And(GetCurrentCondition, guard), content)
           one == Branch(condition, Statement.Then)
           other == Branch(negated, Statement.Else)
           then == IF negated.Tautology THEN <<>> ELSE <<one>>
           else == IF condition.Tautology THEN <<>> ELSE <<other>>
           none == <<>>
           w == GoneOn(Top, <<>>, Top.CurrentSwitchCondition, Top.SwitchCases)
<1>1. /\ visitors # <<>> /\ Top.Statements # <<>> /\ GoOn(Top, then \o else)
      /\ UNCHANGED <<unit, next, Target>>
      /\ Statement.Kind = "IfStmt"
  BY DEF TraverseIfStmt, Visits
<1>2. Body' = Body
  BY <1>1 DEF Body
<1>3. SUFFICES ASSUME IsFollowedExactly(Body) PROVE ReplayInv'
  BY <1>2 DEF ReplayInv
<1>4. /\ IsStraight(Top) /\ Statement = Top.Statements[1] /\ IsExact(Statement)
      /\ GetCurrentCondition = CurrentConditionOf(Top) /\ GetCurrentCondition \in Conditions
  BY <1>1, <1>3, AtAnExact
<1>5. /\ Statement.Condition \in ParsedConditions
      /\ Statement.Then \in Seq(Statements) /\ Statement.Else \in Seq(Statements)
      /\ Statement.Condition \in Leaves
  BY <1>1, <1>4, ExactIf DEF ParsedConditions
<1> DEFINE leaf == Statement.Condition
<1>6. leaf # NotParsed
  <2>1. Statement \in StatementsIn(<<Statement>>)
    BY <1>4, InItself DEF IsExact
  <2>2. IsPrecise(Statement)
    BY <1>4, <2>1 DEF IsExact
  <2> QED BY <1>1, <2>2 DEF IsPrecise
<1>7. condition = When(leaf) /\ condition \in Asking /\ negated \in Asking
  <2>1. condition = When(leaf)
    BY <1>6
  <2>2. When(leaf) \in Asking
    BY <1>5, WhenType
  <2> HIDE DEF condition
  <2> QED BY <2>1, <2>2, NegateType
<1>8. ASSUME NEW env \in Environments
      PROVE  /\ Evaluate(condition, env) <=> LeafHolds(leaf, env)
             /\ Evaluate(negated, env) <=> ~LeafHolds(leaf, env)
  BY <1>5, <1>7, NegatedExact
<1>9. ~condition.Tautology /\ ~negated.Tautology
  BY <1>7, AskingParts
<1> HIDE DEF condition, negated
<1> DEFINE ifSo == And(GetCurrentCondition, condition)
           ifNot == And(GetCurrentCondition, negated)
<1>10. ifSo \in Conditions /\ ifNot \in Conditions
  BY <1>4, <1>7, AndType DEF Asking
<1>11. ASSUME NEW env \in Environments
       PROVE  /\ Evaluate(ifSo, env) <=> Evaluate(GetCurrentCondition, env) /\ LeafHolds(leaf, env)
              /\ Evaluate(ifNot, env) <=> Evaluate(GetCurrentCondition, env) /\ ~LeafHolds(leaf, env)
  BY <1>4, <1>7, <1>8, AndExact
<1> HIDE DEF ifSo, ifNot
<1>12. one = ConditionalContentVisitor(ifSo, Statement.Then)
       /\ other = ConditionalContentVisitor(ifNot, Statement.Else)
  BY DEF ifSo, ifNot
<1>13. one \in WorkingVisitors /\ other \in WorkingVisitors
  BY <1>5, <1>10, <1>12, NewVisitorType DEF ConditionalContentVisitor
<1>14. IsStraight(one) /\ \A env : Remains(one, env) =
            IF Evaluate(ifSo, env) THEN Leads(Statement.Then, env) ELSE {<<>>}
  BY <1>1, <1>4, <1>10, <1>12, BranchBegins
<1>15. IsStraight(other) /\ \A env : Remains(other, env) =
            IF Evaluate(ifNot, env) THEN Leads(Statement.Else, env) ELSE {<<>>}
  BY <1>1, <1>4, <1>10, <1>12, BranchBegins
<1> HIDE DEF one, other
<1>16. then = <<one>> /\ else = <<other>>
  BY <1>9
<1> HIDE DEF then, else
<1>17. /\ then \in Seq(WorkingVisitors) /\ else \in Seq(WorkingVisitors)
       /\ ToSet(then) = {one} /\ ToSet(else) = {other}
  <2>1. <<one>> \in Seq(WorkingVisitors) /\ <<other>> \in Seq(WorkingVisitors)
    BY <1>13, Singleton
  <2>2. \A x : ToSet(<<x>>) = {x}
    BY DEF ToSet
  <2> QED BY <1>16, <2>1, <2>2
<1> DEFINE parts == then \o else
<1>18. parts \in Seq(WorkingVisitors) /\ ToSet(parts) = {one, other}
  BY <1>17, ConcatProperties, ElementsOfConcat
<1>19. GoOn(Top, parts)
  BY <1>1
<1> HIDE DEF parts
<1>20. w \in WorkingVisitors /\ visitors' = parts \o <<w>> \o Tail(visitors)
  BY <1>1, <1>18, <1>19, GoneOnBehind
<1>21. /\ IsStraight(w)
       /\ \A env \in Environments : \A t \in Remains(Top, env) :
            IF Evaluate(CurrentConditionOf(Top), env)
            THEN \E a \in Does(Top.Statements[1], env) : \E b \in Remains(w, env) :
                    b \in Seq(Nat) /\ t = a \o b
            ELSE t \in Remains(w, env)
  <2>1. Top.Statements[1].Kind \notin Labels \cup {"BreakStmt"}
    BY <1>1, <1>4 DEF Labels
  <2> QED BY <1>1, <1>4, <2>1, OtherBehind
<1> HIDE DEF w
<1>22. none \in Seq(Nat)
  BY EmptySeq
\* What the visitors of the two branches have.
<1>23. ASSUME NEW env, NEW x \in Seq(Nat), NEW y \in Seq(Nat),
              x \in Remains(one, env), y \in Remains(other, env)
       PROVE  Follows(parts, env, x \o y)
  <2>1. Follows(then, env, x) /\ Follows(else, env, y)
    BY <1>16, <1>23, OneFollows
  <2> QED BY <1>17, <2>1, BothFollow DEF parts
<1>24. ASSUME NEW env \in Environments, NEW r \in Remains(Top, env), r \in Seq(Nat)
       PROVE  Progress(env, r, none, parts, w)
  <2>1. none \o none = none /\ none \o r = r
    BY <1>24, ConcatEmptySeq
  <2>2. CASE ~Evaluate(GetCurrentCondition, env)
    <3>1. r \in Remains(w, env)
      BY <1>4, <1>21, <2>2
    <3>2. none \in Remains(one, env) /\ none \in Remains(other, env)
      BY <1>11, <1>14, <1>15, <2>2
    <3>3. Follows(parts, env, none \o none)
      BY <1>22, <1>23, <3>2
    <3> HIDE DEF none
    <3> QED BY <1>22, <1>24, <2>1, <3>1, <3>3, GoesOnWith DEF none
  <2>3. CASE Evaluate(GetCurrentCondition, env)
    <3>1. \E a \in Does(Statement, env) : \E b \in Remains(w, env) :
                b \in Seq(Nat) /\ r = a \o b
      BY <1>4, <1>21, <2>3
    <3>2. PICK a \in Does(Statement, env) : \E b \in Remains(w, env) :
                b \in Seq(Nat) /\ r = a \o b
      BY <3>1
    <3>3. PICK b \in Remains(w, env) : b \in Seq(Nat) /\ r = a \o b
      BY <3>2
    <3>4. a \in Leads(IF LeafHolds(leaf, env) THEN Statement.Then ELSE Statement.Else, env)
      BY <1>1, <1>4, <3>2, IfDoes
    <3>5. a \in Seq(Nat)
      BY <1>5, <3>4, LeadsType
    <3>6. a \o none = a /\ none \o a = a
      BY <3>5, ConcatEmptySeq
    <3>7. Follows(parts, env, a)
      <4>1. CASE LeafHolds(leaf, env)
        <5>1. a \in Remains(one, env) /\ none \in Remains(other, env)
          BY <1>11, <1>14, <1>15, <2>3, <3>4, <4>1
        <5>2. Follows(parts, env, a \o none)
          BY <1>22, <1>23, <3>5, <5>1
        <5> QED BY <3>6, <5>2
      <4>2. CASE ~LeafHolds(leaf, env)
        <5>1. none \in Remains(one, env) /\ a \in Remains(other, env)
          BY <1>11, <1>14, <1>15, <2>3, <3>4, <4>2
        <5>2. Follows(parts, env, none \o a)
          BY <1>22, <1>23, <3>5, <5>1
        <5> QED BY <3>6, <5>2
      <4> QED BY <4>1, <4>2
    <3> QED BY <3>3, <3>5, <3>7, GoesOnWith
  <2> QED BY <2>2, <2>3
<1>25. \A env : Replay(Target', env) = Replay(Target, env) \o none
  BY <1>1, BlockIsLeft
<1> HIDE DEF none
<1>26. /\ \A v \in ToSet(parts) \cup {w} : IsStraight(v)
       /\ \A env \in Environments : \E a \in Seq(Nat) :
            /\ Replay(Target', env) = Replay(Target, env) \o a
            /\ \A r \in Remains(Top, env) : r \in Seq(Nat) => Progress(env, r, a, parts, w)
  BY <1>14, <1>15, <1>18, <1>21, <1>22, <1>24, <1>25
<1> QED BY <1>1, <1>18, <1>20, <1>26, VisitorsReplay

LEMMA InitReplays == InitTraversal => ReplayInv
BY DEF InitTraversal, Untraversed, ReplayInv

LEMMA TraverseReplays ==
    ASSUME TraversalInv, CoverInv, ReplayInv, [TraverseDecl \/ TraversalOver]_traversalVars
    PROVE  ReplayInv'
<1>1. CASE TraverseDecl
  BY <1>1, FunctionReplays, AddBlockReplays, LeaveReplays, ActionReplays, IfReplays,
     SwitchReplays, WhileReplays, CaseReplays, BreakReplays, DefaultReplays, PassReplays
     DEF TraverseDecl
<1>2. CASE UNCHANGED traversalVars
  <2>1. UNCHANGED <<unit, next, visitors, Target>>
    BY <1>2 DEF traversalVars
  <2> QED BY <2>1 DEF ReplayInv, Body
<1> QED BY <1>1, <1>2 DEF TraversalOver

----------------------------------------------------------------------------
(* The theorem.                                                            *)

LEMMA ReplayInvariance == Traversal => []ReplayInv
<1>1. TraversalInv /\ CoverInv /\ ReplayInv /\ [TraverseDecl \/ TraversalOver]_traversalVars
            => ReplayInv'
  BY TraverseReplays
<1> QED BY <1>1, InitReplays, TraversalInvariance, CoverInvariance, PTL DEF Traversal

\* However the branches, switches, cases that fall through and defaults of a function
\* are nested, as long as the visitors follow all of it, whatever values it runs
\* with: when its block is complete (CodeBlockBuildingVisitor.cpp), the actions in it
\* whose conditions hold are those of the statements that run, each as often and in
\* the same order, so that the analysis replays the function.
THEOREM BlocksReplayTheirFunctions == Traversal => []TakesWhatRuns
<1>1. ASSUME TraversalInv, CoverInv, ReplayInv PROVE TakesWhatRuns
  <2> SUFFICES ASSUME Completed, IsFollowedExactly(Body), NEW env \in Environments,
                      NEW run \in RunsOf(Body, env)
               PROVE  Replay(Target, env) = run.Trace
    BY DEF TakesWhatRuns
  <2>1. Len(visitors) = 1 /\ Top.Statements = <<>> /\ visitors \in Seq(WorkingVisitors)
    BY <1>1 DEF Completed, TraversalInv
  <2>2. visitors # <<>> /\ Top = visitors[1]
    <3>1. visitors # <<>>
      <4>1. Len(visitors) = 1
        BY <2>1
      <4> QED BY <4>1
    <3>2. Top = visitors[1]
      BY <2>1, <3>1 DEF Top
    <3> QED BY <3>1, <3>2
  <2>3. IsReplaying(Target, visitors, env, run.Trace)
    BY <1>1, <2>2 DEF ReplayInv
  <2>4. PICK rest \in Seq(Nat) :
            run.Trace = Replay(Target, env) \o rest /\ Follows(visitors, env, rest)
    BY <2>3 DEF IsReplaying
  <2>5. PICK r, u : FollowsOn(visitors, env, rest, r, u)
    BY <2>1, <2>2, <2>4, HeadFollows
  <2>6. r = <<>>
    BY <2>1, <2>2, <2>5, NothingLeft DEF FollowsOn
  <2>7. Tail(visitors) = <<>>
    <3>1. Tail(visitors) \in Seq(WorkingVisitors) /\ Len(Tail(visitors)) = 0
      BY <2>1, <2>2, HeadTailProperties
    <3> QED BY <3>1, EmptySeq
  <2>8. u = <<>>
    BY <2>5, <2>7, NoneFollowsOnly DEF FollowsOn
  <2>9. rest = <<>>
    BY <2>5, <2>6, <2>8, ConcatEmptySeq DEF FollowsOn
  <2>10. Replay(Target, env) \in Seq(Nat)
    <3>1. Target \in Blocks /\ Len(Target.Locations) = Len(Target.Actions)
      BY <1>1 DEF TraversalInv, TraversalTypeOK, CoverInv
    <3>2. Target.Actions \in Seq(ProcessedActions) /\ Target.Locations \in Seq(Nat)
      BY <3>1 DEF Blocks
    <3>3. IsReplayed(Target)
      BY <3>1, <3>2, LenProperties, ElementOfSeq DEF IsReplayed
    <3> QED BY <3>3, ReplayType
  <2> QED BY <2>4, <2>9, <2>10, ConcatEmptySeq
<1> QED BY <1>1, ReplayInvariance, CoverInvariance, TraversalInvariance, PTL
=============================================================================
