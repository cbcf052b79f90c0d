# smacpp in TLA+

smacpp is a clang plugin that finds buffer overflows. It walks the syntax tree
of a translation unit, leaves a block of conditional actions per function, and
then executes `main` symbolically, into every call it finds. A wrapper starts the
compiler with the plugin, and a script compares it with other analyzers. The
modules here model these programs from their source, TLC checks them on small
instances, and TLAPS proves the main properties of the plugin for every program
and integer width, and those of the benchmark for every system.

## The system

| component | state it keeps | operations | interacts with |
|---|---|---|---|
| Variable values (`parse/Variable.*`) | none: `VariableState` is a value | resolve, compute, compare, negate a comparison | reads other variables through `VariableValueProvider`, which a `ProgramState` implements |
| Conditions (`parse/Condition.*`) | none: a tree of And and Or over leaves | parse, evaluate, `Negate`, `And`, `Or` | the visitors build them, the analyzer evaluates them |
| Code blocks (`parse/CodeBlock.*`, `ProcessedAction.*`) | parameters and actions of a function | add an action, add a parameter | filled by the visitors, read by the analyzer |
| Visitors (`parse/CodeBlockBuildingVisitor.*`) | a stack of visitors (the recursion over branches and switches), each with its condition; the current cases of a switch | one handler per kind of statement | call the expression parsers, add to a block, add the block to the registry |
| Expression parsers (`ComplexExpressionParser.h`, `LiteralStateVisitor.h`, `ConditionParseVisitor` in `Condition.cpp`) | what they have found so far | visit an expression | called by the visitors |
| Block registry (`analysis/BlockRegistry.*`) | the blocks by name | `AddBlock`, `FindFunction`, `PerformAnalysis` | filled by the visitors, starts the analyzer, answers it |
| Analyzer (`analysis/Analyzer.*`) | a queue of operations, each with a function and the values of its variables; the calls found by the running one; every call ever queued; the problems found | begin, one handler per kind of action, end of an operation, return | the registry, for the blocks of called functions |
| AST consumer (`parse/MainASTConsumer.*`) | none | traverse, analyse, report | clang |
| Compiler wrapper (`main.cpp`, `SMACPPFinder.cpp`) | none | find compiler and plugin, exec | the system |
| Benchmark (`Benchmark.rb`) | results by test; lists of options that the tools of a case share | run tools, classify, combine | the wrapper, clang, Frama-C |
| Plugin glue, analyzer checker, build, tests, third party | none | registration, stubs | clang |

The program is one thread. Each translation unit is traversed to its end, and
then analysed to its end; nothing is persisted and no message can be lost. What
is hard here is not concurrency but long sequences of legal steps:

- **order and staleness in the analyzer**: operations are queued while others
  run, and a call is told from earlier ones by its unresolved parameters only.
  The result must not depend on how a call was found;
- **termination**: functions call each other, and variables are copied from
  each other, in circles;
- **conditions put together by recursion**: the guard of an action is the work
  of all the labels, breaks and branches before it;
- **partial failure**: whatever cannot be parsed is skipped, and the rest goes
  on with what it had;
- **machine integers**: a signed index against an unsigned size, overflow in
  the computation of a value, negation at the ends of a range, literals of other
  widths;
- **visits that end early**: a parser of an expression is handed nodes until a
  handler returns false, so that what it finds first hides what is behind;
- **shared options and silent failures** in the benchmark: tools append to lists
  that others use, so that Frama-C, which is run last and asked for no option, is
  run in the Juliet suite with the two that were meant for smacpp; and exit codes
  are not looked at.

What makes each part correct: a value resolves, and to something that refers to
no variable; a condition and its negation are never both true; a block replays
its function, for every value of what it tests; the analyzer analyses exactly
the calls it executes, each once, from the values its call determines, and
returns; an access is reported exactly when it is outside of its buffer; an
expression is parsed as what it is worth in C; clang is told exactly what
happens when the program runs; the benchmark gives each tool the options of the
file that it is run on, and of those that other tools add no more than is known;
and tools are combined as one tool that says whatever either says.
`PROJECT.json` lists the hazards at their lines, with the properties that would
notice them.

## The modules

| module | models | kind |
|---|---|---|
| `VariableState` | values, resolving, computing, comparing | operators |
| `Condition` | evaluating, negating, combining | operators |
| `CodeBlock` | blocks and their actions | sets |
| `BlockRegistry` | the registry's variable, finding and replacing a block | shared state |
| `Builder` | the visitors and `AddBlock` | state machine |
| `Analyzer` | `PerformAnalysis` and the analyzer | state machine |
| `Pipeline` | `HandleTranslationUnit`: `Builder`, then `Analyzer`, then the reports | composition |
| `ExpressionParsers` | the parsers of expressions and conditions | operators, recursive functions |
| `Frontend` | what the visitors are handed of a syntax tree | operators, recursive |
| `Launcher` | the compiler wrapper | operators |
| `Benchmark` | a test case of the benchmark | state machine |
| `CallWorklist` | what the analyzer's queue and registry of calls promise | abstract specification |
| `SyntaxTree` | the parts of statements, and which functions the visitors follow | operators |
| `BuilderReference` | how C statements run, to compare blocks with | reference |
| `AnalyzerReference` | the result of an analysis, without a queue | reference |
| `ExpressionMeaning`, `ExpressionReference` | what an expression is worth in C | reference |
| `PipelineReference` | how a whole program runs, and which accesses are outside | reference, recursive |
| `DataLemmas`, `ConditionProofs`, `AnalyzerProofs`, `BuilderProofs`, `BuilderReplayProofs`, `ExpressionProofs`, `PipelineProofs`, `BenchmarkProofs` | the proofs | |
| `MCValues`, `MCCalls`, `MCBuilder`, `MCExpressions`, `MCPipeline`, `MCBenchmark` | the instances TLC checks | |

**VariableState.** `ProgramState`'s map from identifiers to values is a total
function in which a variable without entry is `Unknown`; `GetVariableValue`
answers the same for both. `Half` is half the number of integers, 2^63 in the
build. A signed result that does not fit is wrapped: the language leaves it
undefined, and the wrap is what the build's instructions leave; the reference of expressions
(`Arithmetic`) says so without the analyzer's operators. The loop of
`ResolveValue` that follows copies is the smallest closed set of variables it
reads; `Acyclic` says that it, and the recursion into computations, end.
Expressions are nested to a depth of two, in states and in `ExpressionMeaning!Value`;
this is the one bound that is in the modules and not in a configuration.

**Condition.** The tree is kept as the set of its conjunctions, each a set of
leaves. That loses the order of evaluation, which nothing can observe. `And` is
as in the code: a second operand that is always true makes the result always
true. The negation of an always true condition is `Invalid`, a condition with
no parts that must not be evaluated; `Conditions`, the type of every condition
in a state, does not have it.

**Builder.** The recursion over nested statements is a stack, `visitors`. A
statement is a record that says what the parsers make of its expressions:
`NotParsed`, or `Unknown` for a literal, where they make nothing. An if
statement puts the visitors of both branches on the stack at once. The code
makes the second one when the first has returned, from a condition that the
first cannot change. A loop has no handler of its own: its body is visited by
the visitor that is visiting, so its break is taken for the switch's. `unit`
and `next` are the syntax tree and how far the traversal is. Statements that are
not of interest to any handler are left out, and so are methods of classes,
which clang traverses by another way that the code does not override.

**Analyzer.** One step is one iteration of a loop of the code. `toCheck` is the
queue, whose head is running; `step` the action it is at. `called` and
`analysed` are not in the code: they record what was executed and what has
ended, for the properties. An operation carries its `Params`, for the same
reason. The debug output and the source locations of clang are left out: a
location is a function and the number of an action.

**Pipeline.** `Builder` and `Analyzer` share `FunctionBlocks`, as the visitors
and the analysis share the registry. A step of the traversal leaves the analysis
alone; a step of the analysis needs the traversal to be over; a report appends a
problem to `Diagnostics`. Every problem of the code has the severity of an
error, so the other branch of the loop over them is left out.

**ExpressionParsers, Frontend.** An expression is a tree of records, of the kinds
that a parser has a handler for: references, integer literals with the width of
their type, unary and binary operators, casts to bool, element accesses, calls.
`Visit` is how clang hands the nodes to a visitor, one after the other; `Preorder`
is the order, for expressions of up to `MaxNodes` nodes (`IsWithinNodes`), and
`NodesBefore` the nodes before the one at which a handler returns false and
ends the visit. A parser starts a parser of its own on each side of an operator.
`StatesWithin` and `VisitorsWithin` say what those make of all that is within an
expression, when they are nested to a given depth, and the depth that is taken is
one that no expression of `MaxNodes` nodes exceeds. `Frontend` turns the statements of a program into those of
`Builder`, in the order of the visit, with what the parsers make of the
expressions in them. An expression that is only parsed, such as an if
statement's condition, is not searched for accesses; the condition of a loop is.

**Launcher, Benchmark.** A system says which programs are in the path, which
directories hold the plugin, whether `execv` succeeds and whether the files of a
case are there. `Launcher!main` is a function from a system and arguments to
what is executed or returned; `Benchmark` calls it at each run of smacpp. A run
of a tool is a step. What a compiler says is a choice out of `Reports`, since
the benchmark is to be right whatever the tools find; `Counted` is what the
regular expressions find in the last line of it. `good` and `incorrect` are the
lists of options, which stay as one tool left them for the next in a case of
"juliet", and are made anew in one of "jm".

**AnalyzerReference.** `RunOf(call)` is what the operation of a call does, from
the values its call determines to the end of its block: the values it leaves, the
calls it finds, the problems it reports. `ResultIsComplete` says, of an analysis
that has returned, that the analysed calls are the least set that has the first
one and is closed under what the runs of its members find, and that each problem
is told as often as runs of analysed calls report it. No queue, registry or order
occurs in it.

**CallWorklist.** A set of found and a set of analysed calls; a call that is
found may be analysed once, and analysing it finds more; when nothing is left
it returns. `Analyzer!ImplementsWorklist` maps the queue to `found`.

## The runs

| run | checks | shows |
|---|---|---|
| `values` | `TypeOK`, `ResolvingEnds`, `BranchesExclusive`, `ReportsExactly` | what one function's actions do to its values and report |
| `calls` | `AnalysedOnce`, `NoCallLost`, `StartsFresh`, `ResultIsComplete`, `Termination`, `ImplementsWorklist` | how calls are found, queued, turned away and analysed |
| `blocks` | `TraversalTypeOK`, `CoversWhatRuns`, `TakesWhatRuns` | that a block replays its function |
| `unparsed_in_parsed` | `TakenOnlyWhereReached`, violated | a condition that is not parsed takes away those around it |
| `else_of_unparsed` | `AllActionsAdded`, violated | its else branch is lost |
| `redeclared` | `BlocksComeFromDefinitions`, violated | a prototype after the definition empties the block |
| `expressions` | `ResultsAreAccepted`, `AssignedAsWritten`, `ConditionsAsWritten` | that the parsers keep the meaning of what they are meant for |
| `negated_condition` | `TakenWhenConditionHolds`, violated | `if(!x)` is parsed as `if(x)` |
| `pipeline` | `ReportsWhatHappens`, `Handles` | that what clang is told is what happens when the program runs |
| `stale_test` | `ReportsOnlyWhatHappens`, violated | both branches of an if statement are analysed when the first assigns what was tested |
| `benchmark` | `CombinedIsJoint`, `ComparesLikeRuns`, `UnlaunchedFindsNothing`, `LoadsPluginFirst` | which options reach each tool, that its runs are alike, and that tools are judged and combined as they should |
| `combined_failure` | `CombinedFailureIsNamed`, violated | a combined result fails without a kind of failure |

Bounds, and why they are enough:

- `values` (245k states): every `main` of up to four actions out of 13, with
  integers of -8..7, so few that computing `n * 3 + 1` twice overflows, and an
  index of -1 that converts to the largest size. A circle of copies takes two assignments, a
  stale read three, and one action is left to observe them.
- `calls` (64k states): three functions and an undefined one, up to two actions
  in `main` and in `f`, two in `g`: calls of oneself, of each other and of
  `main`, with equal, different and unknown arguments, under conditions on a
  parameter, with a wrong number of arguments; and units without `main`, or
  with one of one to three parameters. Two functions and a third that both call
  are enough for each order of finding and analysing.
- `blocks` (58k states): every switch of up to four labels and statements out
  of eight, and each of up to three inside of a branch; all pairs of 15 kinds of
  statement, and each of them nested in four ways; run with the tested variable
  0, 1 and 2, so that two labels and the default each have a value. `MaxNesting`,
  3, is how deep the reference looks for statements in statements; an assumption
  says that no body of the instance is nested deeper.

- `expressions` (61k states): every expression that grows to at most five nodes (`MaxNodes`)
  by an operator, an operand or a cast at a time, on either side; literals of
  two and of four bits, so that the top bit of a narrow one means something else
  than that of a wide one; 18 environments, with both ends of the range. Five
  nodes are two operators with three operands, enough for one parsed part to
  hide another.
- `pipeline` (48k states): units of a function `f` with a parameter, in two
  forms, and a `main` that declares a string and goes on with up to three
  statements out of 14: assignments, copies of a pointer, accesses, calls,
  branches (also nested, and negated) and a switch; `f` before `main` or behind
  it with a prototype; units without `main`, and with one that has parameters.
  An assignment, a branch that depends on it and an access or call that depends
  on the branch are three.
- `benchmark` (303k states): a case of each suite on 14 systems: with and
  without the files, each of the three programs and the plugin, in four places
  of it, and with an `execv` that fails; three things a compiler may say, so that
  each tool may be right, find too much or too little.

`ComparesLikeRuns` states what is so, and not what should be. In a case of "jm"
each tool starts from a list of its own, and Frama-C is given the options of the
case alone. In one of "juliet" the three tools are handed the same two lists
(`run_test_cases_defines`), to which `extra_opts_for_tool` has appended
`-Wno-return-type` for clang and `-fsyntax-only` for smacpp by the time Frama-C
preprocesses the file with them. No comment or document of the repository says
whether it should be; its results in the two suites are therefore had with
different options. The order in which the tools are run keeps `-fsyntax-only`, with
which it would not analyse, from clang.

`ReportsWhatHappens` speaks of programs that `IsUnderstood` and
`TestsStayTrue` describe: expressions of the forms the parsers are meant for,
switches that are followed exactly, no prototype after a definition, and no test
of a variable that is assigned in what it guards; and of runs in which nothing
else is undefined, no pointer is calculated with and no terminator accessed. The
other programs of the instance go through the pipeline as well, and `Handles`
holds of them. `AssignedAsWritten` and `ConditionsAsWritten` speak of sums,
differences and products of variables and literals, and of a variable that is
tested or compared with a variable or a literal on its right;
`ResultsAreAccepted` holds of every expression, and ties the parsers to the
types that `Builder` assumes of statements.

`CoversWhatRuns` and `TakesWhatRuns` compare with a reference in which the
tested variable is not assigned in the body, and speak of bodies that
`IsFollowed` and `IsFollowedExactly` describe. Those operators name the limits
of the visitors: a default that is not the last label, a label that is no
literal, a label inside of a branch or a loop of the switch's body (as in Duff's
device), a break of a loop inside of a switch (the code marks the first and the
last as still to be done), and, for an exact replay, dead code, loops, returns,
breaks inside of branches, a switch with a default as its only label, and what
is not parsed. `blocks` still runs the bodies outside of them through the
visitors, and `TraversalTypeOK` holds of those too: no visitor ever negates a combined
condition or keeps one that must not be evaluated.

Every property of a passing run has a mutant in `PROJECT.json`: a definition
changed as a plausible mistake in the code would, with which TLC finds the
property violated.

**Fairness.** `Analyzer!Fairness` is weak fairness of `Next`: the analyzer is a
single thread that runs until it returns, and no step of it waits for anything.
`Termination` needs nothing else. `Handles`, of a whole translation unit, has
weak fairness of `HandleTranslationUnit` for the same reason: clang calls it
once and waits. `Builder` and `Benchmark` have no fairness, because no property
of them needs any; a benchmark really may stop, by an exception or at its end.

## The findings

1. `Condition::And` returns an always true condition when its second operand is
   one, and a condition that cannot be parsed is one. Under
   `if(x == 1) { if(g()) ... }` the outer condition is lost, and the analyzer
   takes what is guarded for every `x`. The same happens behind a default that
   is the only label of a switch.
2. The else branch of a condition that cannot be parsed is not visited.
3. `TraverseFunctionDecl` makes a block of every declaration and `AddBlock`
   overwrites, so a prototype after a definition empties the function's block.
4. `ConditionParseVisitor` has no handler for a negation, so `if(!x)` is parsed as
   `if(x)`.
5. A condition is evaluated at each action it guards. In
   `x = 1; if(x == 1) { x = 2; } else { s[4]; }` the else branch is analysed as
   well, and its access reported although it never runs.
6. `create_combined_results` takes `smacpp_failure || clang_failure`, and the
   empty string of a success is true in Ruby. When smacpp succeeds and clang's
   analyzer has a false positive, the combined result fails without a kind of
   failure, and is counted under an empty one.

## The proofs

`ASSUME`d are only `HalfAssumption` (half of the integers is a positive number),
`ProgramAssumption` (argument lists are of literals) and `BuilderAssumption`
(statements have the fields of their kinds, and units are of declarations with
bodies of statements), and, for what compares a block with the runs of its
function, `EnvironmentAssumption` (it runs with numbers), `BodyAssumption` (its
nesting has a bound, `MaxNesting`, whichever; no two of the statements that
leave an action are at one location; and it is what a compiler accepts: no break
is there without a switch or a loop to leave, and no two cases of a switch have
the same value). The theorems on expressions speak of any set of syntax trees
that holds what is inside of its trees (`AreExpressions`: each is one of the seven
kinds of node, and a literal fits its type), and of the trees of it that have at
most `MaxNodes` nodes, whichever number that is. For every such program,
expression and width:

- `TypeCorrect`, `ResolvingAlwaysEnds`, `NeverAnalysedTwice`, `NoCallIsLost`,
  `OperationsStartFresh`, `BranchesAreExclusive`: the invariants of the runs;
- `AccessesReportedExactly`: the action property `ReportsExactly`;
- `ResultIsAlwaysComplete`: what an analysis comes to does not depend on the order
  of the queue or on how a call was found;
- `QueueImplementsWorklist`: the safety part of the refinement of
  `CallWorklist`, which is all that `ImplementsWorklist` states;
- in `ConditionProofs`, lemmas about the operators, of which
  `OverflowCheckIsExact` says that the comparison after the conversion to an
  unsigned type is the right one for every width, because no object is larger
  than `Half - 1`;
- `TraversalTypeCorrect`: `TraversalTypeOK` of the traversal of every unit, with
  statements nested in each other as they like;
- `BlocksCoverWhatRuns`: `CoversWhatRuns` of the traversal of every unit, with
  every nesting of branches, switches and loops and any values to run with;
- `BlocksReplayTheirFunctions`: `TakesWhatRuns` of the traversal of every unit: the
  actions that a completed block takes are what the function does, in its order,
  for every nesting of branches and switches that `IsFollowedExactly` describes
  and any values to run with;
- `AssignmentsMeanWhatIsWritten`: `AssignedAsWritten`: the state that an assignment
  leaves resolves to what its right-hand side is worth;
- `SimpleConditionsMeanWhatIsWritten`: `ConditionsAsWritten`: the leaf of a simple
  condition holds where the condition does, and its negation everywhere else;
- `ParsersReturnWhatIsTaken`: `ResultsAreAccepted` of every expression whose binary
  operators are nested at most two deep (`IsNestedTwice`), which is as deep as
  states are in these modules; calls, casts, minus signs and element accesses are
  nested as they like;
- `PipelineInvariance` and `PipelineCorrect`: from a syntax tree on, the
  analyzer's variables have their types, no call is analysed twice or lost, every
  operation starts in the state its call determines, resolving ends, and of a
  branch and its else at most one is taken;
- `PipelineResult`, `PipelineReportsExactly`, `PipelineImplementsWorklist`: the
  complete result, the exact reports and the refinement, for the analysis of
  whatever the visitors have built rather than of blocks that are given;
- `DiagnosticsAreProblems`: clang is told nothing before the analysis has
  returned, and then the problems in the order in which they were found;
- `CombinedIsAJointTool`: the combined result of the benchmark is that of a tool
  that says whatever clang or smacpp says;
- `RunsAreAlike`, `UnlaunchedIsNoSuccess`, `PluginIsLoadedFirst`: the other
  properties of the benchmark: the runs of a tool are of one command, with the
  options of the case and of the file, followed by exactly those that the tools
  before it have left to it (below); a tool that was never launched finds nothing;
  and a launch by the wrapper loads the plugin before the options of the user. These four are for every
  system and whatever numbers the tools report.

The argument: none of the invariants is inductive alone. `AnalyzerProofs!Inv`
joins `TypeOK`; `PendingKnown` (the function of a pending operation is in the
registry, so its block exists); `Control` (nothing has been done before the
analysis starts, nothing is left when it has returned, and operations are found
only while one runs); `CallsKept` (the recorded calls are the pending and the analysed
ones, and the called ones); `AnalysedOnce`; and `StartsFresh`. `CallsKept` is
what makes both `NoCallLost` and the refinement work: a call that is turned away
is already pending or analysed. `ResolvingEnds` follows from the type alone,
because the type says that a variable's value refers to no other variable, and
`ResolveType` shows that resolving keeps it so.

`AnalyzerProofs!ResultInv` is the argument for the result. It says that the
running operation is where its call's run is: its values and the calls it has
found are those of `RunUpTo` its step (`AsRun`); that analysed calls have found
what their runs find (`AnalysedAsRun`); that the first call is among the called
ones (`EntryCalled`) and no call is there that a closed set can do without
(`OnlyNeeded`); and that there is a bijection between the problems told and the
reports of the analysed calls' runs and of the running one up to its step
(`ProblemsReported`). The bijection is what counts a problem that two runs report
twice. It can be extended by a new report because the running call is not
analysed yet, which is `AnalysedOnce`, and because what its run has reported is
located at earlier actions. At the end the queue is empty, so `CallsKept` makes
the called calls the analysed ones, and the four parts are the definition.

`TraversalTypeOK` is not inductive either: a case label builds its condition
from what the switch asks about, and a default negates the conditions of the
labels before it, which is `Invalid` for one that is always true.
`BuilderProofs!TraversalInv` adds that a visitor of a switch knows what it asks
about and keeps only conditions that ask something, and that a visitor is at
work only inside of a declaration.
`BuilderProofs!CoverInv` is the argument for `CoversWhatRuns`. That the
actions of a block cover the runs so far (`IsCovered`) says nothing of the
statements that are still to be visited, so each visitor at work has to keep what
it will need (`Expects`): whenever a run of the function reaches a location that is in
one of its remaining statements, its own condition holds, a run of that statement
reaches the location too, and, in a switch, control is there already or will come
by one of the labels ahead (`IsLive`). A switch is entered at a label, and control
stays until a break: `IsInside` says that the condition collected so far holds
there, and that no label follows when nothing was collected, because from the next
label on the condition would be that label's alone. `Enters` says which label
control comes by; for a default, that no case matches, neither one collected
(`SwitchCases`) nor one ahead. Each step is then a lemma on what
stays true behind a statement (`BehindCase`, `BehindDefault`, `BehindBreak`,
`BehindLoop`, `BehindOther`) or of the visitor of a part (`BranchVisitor`,
`SwitchVisitor`), and one on the runs, by induction over nesting: what is reached
of a statement is reached in the part, at the entry and behind no break, in which
its location is (`ReachedThere`, `BranchReached`, `SwitchReached`). Without the
limits of `IsFollowed` the invariant does not hold. The attempt to prove it found
the limit on labels in branches, which the bodies that TLC is given do not
have, and that a negated condition is true whenever the condition is false only
if what it compares with is known: conditions parsed from an if statement are of
`ParsedConditions`, and `ParsersReturnWhatIsTaken` is that of the parser.

`BuilderReplayProofs!ReplayInv` is the argument for `TakesWhatRuns`, which also
says the converse, that nothing is taken that does not run, and the order. It
splits each trace of the function in two: what the actions added so far replay
(`Replay`), followed by what the visitors at work still have to do, from the top
of the stack to its bottom (`Follows`). What one visitor has still to do
(`Remains`) is a run of its remaining statements from where control enters them
(`Ways`): nowhere, if its own condition does not hold; at once, if it is no
visitor of a switch or if the condition collected from its labels holds; nowhere
any more, if a case that has been passed matched; and at a label ahead
otherwise. Each step moves a part of the trace from the second half to the
first, or from one visitor to those that it adds, and `Progress` is what has to
be shown of it. That control can be told from the conditions alone needs
`IsStraight`: the current condition of a switch is empty only where a label
follows, which is behind a break or at the beginning; no label ahead has a value
of a case that has been passed, so that a switch that was left is not entered
again; and a default is not followed by another label. A trace says nothing of
how a run ends, so lemmas about runs say first that a run of an exact body falls
through to its end, unless it is that of a break in a switch (`EndsIn`). The
last step is the invariant of a completed block: one visitor is there, with
nothing left, so the rest of every trace is empty. That the cases of a switch have
different values, and that no break is there without something to leave, are
assumptions that this proof needs and that TLC had always been given: at two equal
cases the reference may enter at either, and a block replays one.

`ExpressionProofs` has no invariant: what it says of an expression needs no
earlier state. It first reasons about the visit. A visit loses nothing (`LosesNothing`:
what is inside of a visited node was visited, or is left), so that a finished one
has been to everything inside of its nodes, and the nodes of an expression are a
set of expressions again, with its root, which the visit is handed first
(`WithinAreExpressions`, `RootIsFirst`). Then it shows that what is defined by
recursion satisfies its definition. For the visitors of conditions the values are known to
be of a type, and `Recursion` gives the function; `StatesWithin` has no such type,
since computations of any depth may be made, so `StatesSteps` puts the function
together from its parts up to each number and shows that the parts agree. `OperatorState` and
`AtomState` are what follows for an operator at the root and for a variable or a
literal: the two forms of a literal are told apart by the number of minus signs
before it (`PlainLiteralState`). From there `AssignedAsWritten` is had from the
atoms to the sums of atoms and on to the operators of sums, with the matching depths of
`Resolve`. For `ResultsAreAccepted`, `ParsedForms` says that whatever is written a
parser returns a variable, or a computation of two parsed sides which are within
the expression, or nothing. `VisitConditionEnds` (a handler that returns false ends the visit)
reduces a simple condition to the one handler that sees its root.

`PipelineProofs!PipelineInv` is `TraversalInv`, with `Unstarted` until the
traversal is over and `Inv` with `ResultInv` from then on. A step of the traversal keeps
`Unstarted`, which is all that they need of their beginning besides the type of
the registry, and that is part of `TraversalInv`; a step of the analysis only
happens when the traversal is over, and leaves the registry alone.

`BenchmarkProofs!BenchmarkInv` ties each stored result to its runs: one run of
each file of the case, in the order of the files, judged as `CheckResult` does.
It is needed because the combination reads only the judgements: "a false
negative" says that there is a run of an incorrect program which finds nothing,
and a case has exactly one, so that no other run finds anything.
`ArgumentsInv` adds what the runs were given: the arguments of each stored run are
determined by the tool, the suite, the files and the lists `good` and `incorrect`
as the tools before it left them. Without it nothing is known, when results are
compared, of a list that three tools have appended to.

`DataLemmas` has what the library states only with an operator parameter. A
nonempty set of numbers has a least one (`LeastNumber`), which is had from the
inclusion of finite sets being well founded, and from it follows induction over a
*set* of numbers (`Induction`): where a recursive function is to be reasoned
about, the set is that of the numbers at which the claim holds. `Recursion` says that
a function exists which starts with a value and goes on by a step, so that one
defined by recursion over numbers satisfies its definition. This is why `RunUpTo`,
`StatementsAt`, `RunsNested`, `ReplayUpTo`, `Visit` and `StatesWithin` are recursive
functions over numbers and not recursive operators over trees.

Only model-checked: `Termination`, `Handles` and everything else that needs
fairness, which is out of the prover's reach; and `ReportsWhatHappens`, which
compares with a reference (`RunStatements`, `CallsFrom`) that recurs over the tree and
the calls of a program, and is about a front end that does. What it is put together
from is proved: the parsers of expressions, the blocks, and the analysis of blocks.

## Not modelled

- The debug output, the wording of problems, and the dump of C++ classes.
- The plugin glue, which registers the consumer and reads the debug flag, and
  the checker for clang's own analyzer, whose callbacks print and return.
- Of the benchmark: the times, the summary and the tables over all cases, the
  lists of cases, the preparation of test data.
- `src/thirdparty/catch.hpp` is a vendored test framework of 17,000 lines, five
  sixths of the C++ in the repository, with a test that asks whether the plugin
  loads. The analysis has nothing of it, so that a large part of the repository
  is no part of the map although little of smacpp itself is missing.
- Expressions that no parser has a handler for, other than those named above:
  floating point, strings in expressions, members, overloaded operators.
- Methods of classes, and functions in functions other than their declarations.
- Loops are visited once by the code, and so here.

## What is left

- A unit with functions but no `main`: `BlockRegistry.h` speaks of "other good
  candidate functions" to start from, and there are none; `ReportNoMain` models
  what the code does.
