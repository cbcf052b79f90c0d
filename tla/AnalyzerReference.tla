-------------------------- MODULE AnalyzerReference --------------------------
(***************************************************************************)
(* What the result of an analysis should be, without a queue, a registry   *)
(* of calls or an order: each call that the entry point leads to, executed *)
(* once on its own. TLC compares the analyzer's result with it.            *)
(***************************************************************************)
EXTENDS Analyzer, SequencesExt

\* One action executed in a run: the values it leaves, the problems it reports
\* and the calls it makes.
Perform(blocks, run, action, location) ==
    IF ~Evaluate(action.If, run.state) THEN run
    ELSE CASE action.Kind \in {"VarDeclared", "VarAssigned"} ->
                [run EXCEPT !.state[action.Variable] = Resolve(run.state, action.State)]
           [] action.Kind = "ArrayIndexAccess" ->
                [run EXCEPT !.problems = @ \o AccessProblems(action, run.state, location)]
           [] action.Kind = "FunctionCall" ->
                IF /\ action.Function \in DOMAIN blocks
                   /\ Matches(blocks[action.Function], action.Params)
                THEN [run EXCEPT !.calls = @ \cup {<<action.Function, action.Params>>}]
                ELSE run

\* A call after each of its actions, from its parameters to the last action.
RunUpTo(blocks, call) ==
    LET block == blocks[call[1]]
        run[i \in 0 .. Len(block.Actions)] ==
            IF i = 0
            THEN [state |-> EntryState(block, call[2]), problems |-> <<>>, calls |-> {}]
            ELSE Perform(blocks, run[i - 1], block.Actions[i], <<call[1], i>>)
    IN run
RunOf(call) ==
    RunUpTo(FunctionBlocks, call)[Len(FunctionBlocks[call[1]].Actions)]

\* Calls that main is one of, with every call that one of them makes.
IsClosed(calls) ==
    /\ <<Main, MainParams>> \in calls
    /\ \A call \in calls : RunOf(call).calls \subseteq calls

\* A report is a problem with the call that it is a problem of.
ReportsOf(call) ==
    {<<call, problem>> : problem \in ToSet(RunOf(call).problems)}

\* The analyzer analyses exactly the calls that main leads to, the least that are
\* closed, and returns each problem as often as calls among them report it, however
\* the calls were found, queued and turned away, and however often each was made.
ResultIsComplete ==
    (phase = "returned" /\ called # {}) =>
        LET reports == UNION {ReportsOf(call) : call \in analysed} IN
        /\ IsClosed(analysed)
        /\ \A calls \in SUBSET analysed : IsClosed(calls) => calls = analysed
        /\ \A problem \in ToSet(Problems) \cup {report[2] : report \in reports} :
                Cardinality({i \in DOMAIN Problems : Problems[i] = problem})
                    = Cardinality({report \in reports : report[2] = problem})
=============================================================================
