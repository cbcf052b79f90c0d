-------------------------- MODULE BuilderReference --------------------------
(***************************************************************************)
(* What the statements of a function do when they run, with values env of  *)
(* the variables its conditions test and its body does not assign. TLC     *)
(* compares the blocks that the visitors build with it.                    *)
(***************************************************************************)
EXTENDS Builder, SyntaxTree

CONSTANT Environments   \* the values to run with

ASSUME EnvironmentAssumption == Environments \subseteq [Vars -> Primitives]

\* The statements of which the parsers make an action.
Recorded(s) ==
    \/ s.Kind = "VarDecl"
    \/ s.Kind = "Assign" /\ s.State # NotParsed
    \/ s.Kind = "ArraySubscriptExpr" /\ s.Index # Unknown
    \/ s.Kind = "CallExpr" /\ s.IsDirect

\* Where the actions made of a body are. No two of them are at the same location.
LocationsIn(body) == {s.At : s \in {t \in StatementsIn(body) : Recorded(t)}}
AreDistinct(body) ==
    \A i, j \in DOMAIN body :
        i # j => LocationsIn(<<body[i]>>) \cap LocationsIn(<<body[j]>>) = {}
IsLocated(body) ==
    /\ AreDistinct(body)
    /\ \A s \in StatementsIn(body) :
            /\ \A part \in ToSet(Parts(s)) : AreDistinct(part)
            /\ s.Kind = "IfStmt" => LocationsIn(s.Then) \cap LocationsIn(s.Else) = {}

ASSUME BodyAssumption ==
    \A u \in Units : \A i \in DOMAIN u :
        IsWithinNesting(u[i].Body) /\ IsLocated(u[i].Body) /\ IsWellFormed(u[i].Body)

\* Where a switch on this subject can begin to run its body: at the label of its
\* value, else at the default, else behind the body. What is not parsed can have
\* any value.
Entries(body, subject, env) ==
    LET cases == {i \in DOMAIN body : body[i].Kind = "CaseStmt"}
        default == {i \in DOMAIN body : body[i].Kind = "DefaultStmt"}
        otherwise == IF default = {} THEN {Len(body) + 1} ELSE default
    IN
    IF subject = NotParsed THEN cases \cup otherwise
    ELSE LET matching == {i \in cases : body[i].Value = Resolve(env, subject)}
         IN IF matching # {} THEN matching
            ELSE {i \in cases : body[i].Value = Unknown} \cup otherwise

\* A run: where its recorded statements are, in order, and how it ends.
Run(trace, ends) == [Trace |-> trace, Ends |-> ends]
LeaveStatement(run) == IF run.Ends = "breaks" THEN Run(run.Trace, "falls") ELSE run

\* The runs of one statement, when those of the bodies in it are known.
RunsOfStatement(s, env, inner) ==
    CASE s.Kind = "IfStmt" ->
            IF s.Condition = NotParsed THEN inner[s.Then] \cup inner[s.Else]
            ELSE inner[IF LeafHolds(s.Condition, env) THEN s.Then ELSE s.Else]
      [] s.Kind = "SwitchStmt" ->
            {LeaveStatement(run) : run \in
                UNION {inner[SubSeq(s.Body, i, Len(s.Body))] :
                            i \in Entries(s.Body, s.Subject, env)}}
      [] s.Kind = "WhileStmt" ->
            {Run(<<>>, "falls")} \cup {LeaveStatement(run) : run \in inner[s.Body]}
      [] s.Kind = "BreakStmt" -> {Run(<<>>, "breaks")}
      [] s.Kind = "ReturnStmt" -> {Run(<<>>, "returns")}
      [] OTHER -> {Run(IF Recorded(s) THEN <<s.At>> ELSE <<>>, "falls")}

\* Those of a sequence: a run goes on for as long as its statements fall through.
Extended(run, continuations) ==
    IF run.Ends # "falls" THEN {run}
    ELSE {Run(run.Trace \o more.Trace, more.Ends) : more \in continuations}
RunsUpTo(statements, env, inner) ==
    LET upTo[i \in 0 .. Len(statements)] ==
            IF i = 0 THEN {Run(<<>>, "falls")}
            ELSE UNION {Extended(run, RunsOfStatement(statements[i], env, inner)) :
                            run \in upTo[i - 1]}
    IN upTo

Bodies == Seq(Statements)

\* Those of each body in which statements are nested less deep than n.
RunsNested(env) ==
    LET runs[n \in Nat] ==
            [body \in Bodies |->
                IF n = 0 THEN {} ELSE RunsUpTo(body, env, runs[n - 1])[Len(body)]]
    IN runs

RunsOf(body, env) == RunsNested(env)[MaxNesting + 1][body]

----------------------------------------------------------------------------
(* Properties of the block that is being built.                            *)

Body == unit[next].Body
Completed == Len(visitors) = 1 /\ Top.Statements = <<>>
TakenIn(i, env) == Evaluate(Target.Actions[i].If, env)

\* Where the actions are that are taken, in order.
ReplayUpTo(block, env) ==
    LET upTo[i \in 0 .. Len(block.Actions)] ==
            IF i = 0 THEN <<>>
            ELSE IF Evaluate(block.Actions[i].If, env)
                 THEN Append(upTo[i - 1], block.Locations[i])
                 ELSE upTo[i - 1]
    IN upTo
Replay(block, env) == ReplayUpTo(block, env)[Len(block.Actions)]

\* No action is left out where its statement runs: the condition of an action
\* holds whenever control reaches its statement, through branches, cases,
\* fallthrough and the default.
CoversWhatRuns ==
    (visitors # <<>> /\ IsFollowed(Body)) =>
        \A env \in Environments : \A run \in RunsOf(Body, env) :
            \A i \in DOMAIN Target.Actions :
                Target.Locations[i] \in ToSet(run.Trace) => TakenIn(i, env)

\* A completed block replays the function: the actions whose conditions hold
\* are those of the statements that run, each once and in the same order.
TakesWhatRuns ==
    (Completed /\ IsFollowedExactly(Body)) =>
        \A env \in Environments : \A run \in RunsOf(Body, env) :
            Replay(Target, env) = run.Trace

\* An action under if statements is taken only where control can reach it,
\* whichever of their conditions are parsed ("Visits stuff under an if statement
\* to take conditions into account"). And drops the enclosing condition.
TakenOnlyWhereReached ==
    visitors # <<>> =>
        \A i \in DOMAIN Target.Actions, env \in Environments :
            TakenIn(i, env) =>
                \E run \in RunsOf(Body, env) : Target.Locations[i] \in ToSet(run.Trace)

\* Every statement that can run and that the parsers make an action of is in the
\* block ("All potentially unsafe calls, and variable state changes are added").
\* The else branch of a condition that is not parsed is never visited.
AllActionsAdded ==
    Completed =>
        \A env \in Environments : \A run \in RunsOf(Body, env) :
            ToSet(run.Trace) \subseteq ToSet(Target.Locations)

\* A function's block is built from its definition ("Builds a code block from a
\* function definition"), so no other declaration of it replaces the block.
BlocksComeFromDefinitions ==
    [][\A name \in DOMAIN FunctionBlocks :
            FunctionBlocks'[name] # FunctionBlocks[name] => unit[next].IsDefinition]_traversalVars
=============================================================================
