------------------------------ MODULE Analyzer ------------------------------
(***************************************************************************)
(* The symbolic execution of a translation unit, from "main" into every    *)
(* call it finds (analysis/Analyzer.cpp, started by BlockRegistry.cpp).    *)
(*                                                                         *)
(* One step is one iteration of a loop of the code: an action of the       *)
(* running operation handled or skipped, an operation ended, the analysis  *)
(* started or returned.                                                    *)
(***************************************************************************)
EXTENDS BlockRegistry, FiniteSets

CONSTANT Main   \* "main"

\* The registry, FunctionBlocks, is complete when the analysis starts.
VARIABLES
    phase,                  \* "parsed", "analysing" or "returned"
    toCheck,                \* the queue of operations; the first one is running
    FoundCalls,             \* the operations the running one has found
    step,                   \* the action the running operation is at
    RecordedFunctionCalls,  \* the calls that were ever queued
    Problems,               \* what is reported, in order
    \* The two below are not in the code.
    called,                 \* the calls whose action was executed
    analysed                \* the calls whose operation has ended

vars == <<FunctionBlocks, phase, toCheck, FoundCalls, step,
          RecordedFunctionCalls, Problems, called, analysed>>

----------------------------------------------------------------------------
(* Programs.                                                               *)

\* argc, argv and perhaps envp, of unknown value.
UnknownParams(count) == [i \in 1..count |-> Unknown]

ASSUME ProgramAssumption ==
    /\ Main \in FunctionNames
    /\ ArgumentLists \subseteq Seq(Literals)
    /\ {<<>>, UnknownParams(2), UnknownParams(3)} \subseteq ArgumentLists

----------------------------------------------------------------------------
(* Operations. Params is not in the code: it names the call that an        *)
(* operation analyses.                                                     *)

Calls == FunctionNames \X ArgumentLists
Operations ==
    [CurrentFunction : FunctionNames, Params : ArgumentLists,
     State : [Vars -> ResolvedStates]]

CallOf(operation) == <<operation.CurrentFunction, operation.Params>>

\* ResolveCallParameters, in the state of the new operation itself, which
\* holds nothing yet: only a literal argument has a value there. Of two
\* parameters with one name the last is kept.
EmptyState == [x \in Vars |-> Unknown]
EntryState(block, params) ==
    [x \in Vars |->
        LET at == {i \in 1..Len(params) : block.Parameters[i] = x} IN
        IF at = {} THEN Unknown
        ELSE Resolve(EmptyState, params[CHOOSE i \in at : \A j \in at : j <= i])]

Matches(block, params) == Len(params) = Len(block.Parameters)

\* Mutant: a called function starts in its caller's values.
NewOperationInherits(name, params) ==
    [CurrentFunction |-> name, Params |-> params,
     State |-> IF toCheck = <<>> THEN EmptyState ELSE Head(toCheck).State]

NewOperation(name, params) ==
    [CurrentFunction |-> name, Params |-> params,
     State |-> EntryState(FunctionBlocks[name], params)]

----------------------------------------------------------------------------
(* The start: BlockRegistry::PerformAnalysis and the head of BeginAnalysis. *)

\* A location is an action of a function, or 0 for the function itself.
NoLocation == <<>>
Locations == {NoLocation} \cup (FunctionNames \X Nat)
Messages ==
    {"'main' function was not found", "given parameters count mismatches",
     "Analysis encountered a fatal error", "Write to nullptr array", "Buffer overflow"}
FoundProblems == [Message : Messages, Location : Locations]
Problem(message, location) == [Message |-> message, Location |-> location]

Unstarted ==
    /\ phase = "parsed"
    /\ toCheck = <<>>
    /\ FoundCalls = <<>>
    /\ step = 1
    /\ RecordedFunctionCalls = {}
    /\ Problems = <<>>
    /\ called = {}
    /\ analysed = {}

\* Any program: whatever blocks the visitors have left.
Init == IsRegistry(FunctionBlocks) /\ Unstarted

MainParams ==
    LET count == Len(FunctionBlocks[Main].Parameters) IN
    IF count \in {2, 3} THEN UnknownParams(count) ELSE <<>>

ReportNoMain ==
    /\ phase = "parsed"
    /\ ~FindFunction(Main)
    /\ Problems' = <<Problem("'main' function was not found", NoLocation)>>
    /\ phase' = "returned"
    /\ UNCHANGED <<FunctionBlocks, toCheck, FoundCalls, step,
                   RecordedFunctionCalls, called, analysed>>

RejectEntryPoint ==
    /\ phase = "parsed"
    /\ FindFunction(Main)
    /\ ~Matches(FunctionBlocks[Main], MainParams)
    /\ Problems' = <<Problem("given parameters count mismatches", <<Main, 0>>),
                     Problem("Analysis encountered a fatal error", <<Main, 0>>)>>
    /\ phase' = "returned"
    /\ UNCHANGED <<FunctionBlocks, toCheck, FoundCalls, step,
                   RecordedFunctionCalls, called, analysed>>

BeginAnalysis ==
    /\ phase = "parsed"
    /\ FindFunction(Main)
    /\ Matches(FunctionBlocks[Main], MainParams)
    /\ toCheck' = <<NewOperation(Main, MainParams)>>
    /\ RecordedFunctionCalls' = {<<Main, MainParams>>}
    /\ called' = {<<Main, MainParams>>}
    /\ phase' = "analysing"
    /\ UNCHANGED <<FunctionBlocks, FoundCalls, step, Problems, analysed>>

----------------------------------------------------------------------------
(* The running operation: PerformAnalysisOperation.                        *)

Running == phase = "analysing" /\ toCheck # <<>>

State == Head(toCheck).State
Actions == FunctionBlocks[Head(toCheck).CurrentFunction].Actions
Action == Actions[step]
Here == <<Head(toCheck).CurrentFunction, step>>

\* The loop is at an action of this kind whose condition holds now, in the
\* state the actions before it have left.
Dispatches(kind) ==
    /\ Running
    /\ step <= Len(Actions)
    /\ Action.Kind = kind
    /\ Evaluate(Action.If, State)

SetVariable(x, value) ==
    toCheck' = [toCheck EXCEPT ![1].State[x] = value]

\* Mutant: the registry is not asked before a call is queued.
HandleFunctionCallAgain ==
    /\ Dispatches("FunctionCall")
    /\ LET name == Action.Function
           params == Action.Params
       IN IF FindFunction(name) /\ Matches(FunctionBlocks[name], params)
          THEN /\ FoundCalls' = Append(FoundCalls, NewOperation(name, params))
               /\ RecordedFunctionCalls' = RecordedFunctionCalls \cup {<<name, params>>}
               /\ called' = called \cup {<<name, params>>}
          ELSE UNCHANGED <<FoundCalls, RecordedFunctionCalls, called>>
    /\ step' = step + 1
    /\ UNCHANGED <<FunctionBlocks, phase, toCheck, Problems, analysed>>

\* Mutant: the registry compares the functions, and not their parameters.
HandleFunctionCallByName ==
    /\ Dispatches("FunctionCall")
    /\ LET name == Action.Function
           params == Action.Params
       IN IF /\ FindFunction(name)
             /\ Matches(FunctionBlocks[name], params)
             /\ \A call \in RecordedFunctionCalls : call[1] # name
          THEN /\ FoundCalls' = Append(FoundCalls, NewOperation(name, params))
               /\ RecordedFunctionCalls' = RecordedFunctionCalls \cup {<<name, params>>}
               /\ called' = called \cup {<<name, params>>}
          ELSE UNCHANGED <<FoundCalls, RecordedFunctionCalls, called>>
    /\ step' = step + 1
    /\ UNCHANGED <<FunctionBlocks, phase, toCheck, Problems, analysed>>

\* A call of a function that is known, with the right number of arguments, is
\* queued the first time; any other call is passed over.
HandleFunctionCall ==
    /\ Dispatches("FunctionCall")
    /\ LET name == Action.Function
           params == Action.Params
           analysable == FindFunction(name) /\ Matches(FunctionBlocks[name], params)
       IN
       /\ called' = IF analysable THEN called \cup {<<name, params>>} ELSE called
       /\ IF analysable /\ <<name, params>> \notin RecordedFunctionCalls
          THEN /\ FoundCalls' = Append(FoundCalls, NewOperation(name, params))
               /\ RecordedFunctionCalls' = RecordedFunctionCalls \cup {<<name, params>>}
          ELSE UNCHANGED <<FoundCalls, RecordedFunctionCalls>>
    /\ step' = step + 1
    /\ UNCHANGED <<FunctionBlocks, phase, toCheck, Problems, analysed>>

\* The value is resolved before it is stored, so a later change of a variable
\* it was computed from does not reach it.
HandleVarDeclared ==
    /\ Dispatches("VarDeclared")
    /\ SetVariable(Action.Variable, Resolve(State, Action.State))
    /\ step' = step + 1
    /\ UNCHANGED <<FunctionBlocks, phase, FoundCalls, RecordedFunctionCalls,
                   Problems, called, analysed>>

\* Mutant: the value is stored as it was parsed.
HandleVarAssignedUnresolved ==
    /\ Dispatches("VarAssigned")
    /\ SetVariable(Action.Variable, Action.State)
    /\ step' = step + 1
    /\ UNCHANGED <<FunctionBlocks, phase, FoundCalls, RecordedFunctionCalls,
                   Problems, called, analysed>>

HandleVarAssigned ==
    /\ Dispatches("VarAssigned")
    /\ SetVariable(Action.Variable, Resolve(State, Action.State))
    /\ step' = step + 1
    /\ UNCHANGED <<FunctionBlocks, phase, FoundCalls, RecordedFunctionCalls,
                   Problems, called, analysed>>

\* What an access reports: nothing, or one problem.
AccessProblems(access, state, location) ==
    LET array == GetVariableValue(state, access.Array)
        index == Resolve(state, access.Index)
    IN
    IF array.State # "Buffer" \/ index.State = "Unknown" THEN <<>>
    ELSE IF array.NullPtr
         THEN <<Problem("Write to nullptr array", location)>>
    ELSE IF index.State = "Primitive" /\ OutsideBuffer(array.AllocatedSize, index.Value)
         THEN <<Problem("Buffer overflow", location)>>
    ELSE <<>>

HandleArrayIndexAccess ==
    /\ Dispatches("ArrayIndexAccess")
    /\ Problems' = Problems \o AccessProblems(Action, State, Here)
    /\ step' = step + 1
    /\ UNCHANGED <<FunctionBlocks, phase, toCheck, FoundCalls,
                   RecordedFunctionCalls, called, analysed>>

\* The condition is false, or it asks about a variable of unknown value.
SkipAction ==
    /\ Running
    /\ step <= Len(Actions)
    /\ ~Evaluate(Action.If, State)
    /\ step' = step + 1
    /\ UNCHANGED <<FunctionBlocks, phase, toCheck, FoundCalls,
                   RecordedFunctionCalls, Problems, called, analysed>>

\* Mutant: what the operation found is dropped.
EndOperationDropsFound ==
    /\ Running
    /\ step > Len(Actions)
    /\ toCheck' = Tail(toCheck)
    /\ FoundCalls' = <<>>
    /\ step' = 1
    /\ analysed' = analysed \cup {CallOf(Head(toCheck))}
    /\ UNCHANGED <<FunctionBlocks, phase, RecordedFunctionCalls, Problems, called>>

\* Mutant: a call leaves the registry with its operation.
EndOperationForgets ==
    /\ Running
    /\ step > Len(Actions)
    /\ toCheck' = Tail(toCheck \o FoundCalls)
    /\ FoundCalls' = <<>>
    /\ step' = 1
    /\ analysed' = analysed \cup {CallOf(Head(toCheck))}
    /\ RecordedFunctionCalls' = RecordedFunctionCalls \ {CallOf(Head(toCheck))}
    /\ UNCHANGED <<FunctionBlocks, phase, Problems, called>>

\* The operation is over: what it found goes to the end of the queue.
EndOperation ==
    /\ Running
    /\ step > Len(Actions)
    /\ toCheck' = Tail(toCheck \o FoundCalls)
    /\ FoundCalls' = <<>>
    /\ step' = 1
    /\ analysed' = analysed \cup {CallOf(Head(toCheck))}
    /\ UNCHANGED <<FunctionBlocks, phase, RecordedFunctionCalls, Problems, called>>

\* Mutant: the loop ends with the last operation still in the queue.
ReturnProblemsEarly ==
    /\ phase = "analysing"
    /\ Len(toCheck) <= 1
    /\ phase' = "returned"
    /\ UNCHANGED <<FunctionBlocks, toCheck, FoundCalls, step,
                   RecordedFunctionCalls, Problems, called, analysed>>

ReturnProblems ==
    /\ phase = "analysing"
    /\ toCheck = <<>>
    /\ phase' = "returned"
    /\ UNCHANGED <<FunctionBlocks, toCheck, FoundCalls, step,
                   RecordedFunctionCalls, Problems, called, analysed>>

\* The analyzer has returned, and nothing more happens.
Terminated ==
    /\ phase = "returned"
    /\ UNCHANGED vars

Next ==
    \/ ReportNoMain
    \/ RejectEntryPoint
    \/ BeginAnalysis
    \/ HandleFunctionCall
    \/ HandleVarDeclared
    \/ HandleVarAssigned
    \/ HandleArrayIndexAccess
    \/ SkipAction
    \/ EndOperation
    \/ ReturnProblems
    \/ Terminated

Spec == Init /\ [][Next]_vars

\* The analysis is one thread that runs until it returns.
Fairness == WF_vars(Next)
FairSpec == Spec /\ Fairness

----------------------------------------------------------------------------
(* Properties.                                                             *)

TypeOK ==
    /\ IsRegistry(FunctionBlocks)
    /\ phase \in {"parsed", "analysing", "returned"}
    /\ toCheck \in Seq(Operations)
    /\ FoundCalls \in Seq(Operations)
    /\ step \in Nat \ {0}
    /\ RecordedFunctionCalls \subseteq Calls
    /\ Problems \in Seq(FoundProblems)
    /\ called \subseteq Calls
    /\ analysed \subseteq Calls

Pending == toCheck \o FoundCalls
PendingCalls == {CallOf(Pending[i]) : i \in 1..Len(Pending)}

\* The loop of ResolveValue always ends: in no operation do variables depend on
\* each other in a circle, whatever the program assigns ("x = y; y = x;").
ResolvingEnds == \A i \in 1..Len(Pending) : Acyclic(Pending[i].State)

\* A function is not analysed twice for the same parameters, neither by being
\* queued twice nor by being queued again after its analysis.
AnalysedOnce ==
    /\ \A i, j \in 1..Len(Pending) : CallOf(Pending[i]) = CallOf(Pending[j]) => i = j
    /\ PendingCalls \cap analysed = {}

\* When the analyzer returns it has analysed exactly the calls that were
\* executed: what CheckAndAdd turned away had been queued before, and nothing
\* that was queued is dropped.
NoCallLost == phase = "returned" => called = analysed

\* An operation that is not running yet is in the state its call determines,
\* untouched by the operation that found it and by those that ran since. It is
\* why turning away a second call with the same parameters loses nothing.
IsFresh(operation) ==
    operation.State =
        EntryState(FunctionBlocks[operation.CurrentFunction], operation.Params)
StartsFresh == \A i \in 1..Len(Pending) : i > 1 \/ step = 1 => IsFresh(Pending[i])

\* An if statement's condition and the negated one that guards its else branch
\* never hold together; one of them does when the values are known numbers.
BranchesExclusive ==
    Running =>
        \A i \in 1..Len(Actions) :
            LET condition == Actions[i].If
                leaf == TheLeaf(condition)
                subject == Resolve(State, leaf.Subject)
                known == \/ leaf.Value.Type \in {"Zero", "NotZero"}
                         \/ /\ leaf.Value.Type = "Constant"
                            /\ subject.State = leaf.Value.ComparedConstant.State
                            /\ subject.State = "Primitive"
            IN
            IsSingle(condition) =>
                /\ ~(Evaluate(condition, State) /\ Evaluate(Negate(condition), State))
                /\ subject.State # "Unknown" /\ known =>
                        Evaluate(condition, State) \/ Evaluate(Negate(condition), State)

\* A reached access to a buffer of known size is reported exactly when its
\* index is not one of the buffer's, negative indexes included, although the
\* code compares after a conversion to an unsigned type. No object is larger
\* than half of the address space.
AccessOutside(access) ==
    LET array == GetVariableValue(State, access.Array)
        index == Resolve(State, access.Index)
    IN
    /\ array.State = "Buffer"
    /\ index.State # "Unknown"
    /\ \/ array.NullPtr
       \/ index.State = "Primitive" /\ index.Value \notin 0 .. array.AllocatedSize - 1
ReportsExactly ==
    [][Dispatches("ArrayIndexAccess") =>
            (Len(Problems') = Len(Problems) + 1 <=> AccessOutside(Action))]_vars

\* The analysis ends, also of a program whose functions call each other.
Termination == <>(phase = "returned")

\* The queue of operations is the worklist of calls it is meant to be.
Worklist == INSTANCE CallWorklist
    WITH found <- PendingCalls, returned <- phase = "returned"
ImplementsWorklist == Worklist!Spec
=============================================================================
