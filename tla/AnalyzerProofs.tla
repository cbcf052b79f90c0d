--------------------------- MODULE AnalyzerProofs ---------------------------
(***************************************************************************)
(* The analyzer's invariants for every program, every integer width and    *)
(* every number of functions: its types, that resolving ends, that no call *)
(* is analysed twice or lost, that its queue implements CallWorklist, and  *)
(* what an analysis comes to: the calls it analyses are the least that are *)
(* closed, and each problem is returned as often as calls report it.       *)
(***************************************************************************)
EXTENDS AnalyzerReference, ConditionProofs, SequenceTheorems,
        WellFoundedInduction, DataLemmas

----------------------------------------------------------------------------
(* Operations and the values they hold.                                    *)

LEMMA EmptyStateType == EmptyState \in Values
BY DEF EmptyState, Values, ResolvedStates

\* A non-empty set of positions of a sequence has a last one.
LEMMA LastPosition ==
    ASSUME NEW n \in Nat, NEW at \in SUBSET (1..n), at # {}
    PROVE  \E i \in at : \A j \in at : j <= i
<1> DEFINE distances == {n - i : i \in at}
           less == OpToRel(<, Nat)
<1>1. \A i \in at : i \in 1..n /\ n - i \in Nat
  OBVIOUS
<1>2. distances \subseteq Nat /\ distances # {}
  BY <1>1
<1>3. \E d \in distances : \A e \in distances : <<e, d>> \notin less
  <2> HIDE DEF distances, less
  <2>1. IsWellFoundedOn(less, Nat)
    BY NatLessThanWellFounded DEF less
  <2> QED BY <1>2, <2>1, WFMin
<1>4. PICK i \in at : \A e \in distances : <<e, n - i>> \notin less
  BY <1>3
<1>5. ASSUME NEW j \in at PROVE j <= i
  <2>1. <<n - j, n - i>> \notin less
    BY <1>4
  <2>2. n - j \in Nat /\ n - i \in Nat
    BY <1>1
  <2>3. ~(n - j < n - i)
    BY <2>1, <2>2 DEF OpToRel
  <2> QED BY <1>1, <2>3
<1> QED BY <1>5

LEMMA EntryStateType ==
    ASSUME NEW block, NEW params \in Seq(Literals)
    PROVE  EntryState(block, params) \in Values
<1>1. SUFFICES ASSUME NEW x \in Vars PROVE EntryState(block, params)[x] \in ResolvedStates
  BY DEF EntryState, Values
<1> DEFINE at == {i \in 1..Len(params) : block.Parameters[i] = x}
<1>2. CASE at = {}
  BY <1>2 DEF EntryState, ResolvedStates
<1>3. CASE at # {}
  <2> DEFINE last == CHOOSE i \in at : \A j \in at : j <= i
  <2>1. Len(params) \in Nat
    BY LenProperties
  <2>2. \E i \in at : \A j \in at : j <= i
    BY <1>3, <2>1, LastPosition
  <2>3. last \in 1..Len(params)
    BY <2>2
  <2>4. params[last] \in Literals
    BY <2>3, ElementOfSeq
  <2>5. params[last] \in Expressions
    BY <2>4 DEF Literals, Expressions, Sums, Atoms, ResolvedStates
  <2>6. Resolve(EmptyState, params[last]) \in ResolvedStates
    BY <2>5, ResolveType, EmptyStateType
  <2>7. EntryState(block, params)[x] = Resolve(EmptyState, params[last])
    BY <1>3 DEF EntryState
  <2> QED BY <2>6, <2>7
<1> QED BY <1>2, <1>3

LEMMA NewOperationType ==
    ASSUME NEW name \in FunctionNames, NEW params \in ArgumentLists
    PROVE  /\ NewOperation(name, params) \in Operations
           /\ CallOf(NewOperation(name, params)) = <<name, params>>
<1>1. EntryState(FunctionBlocks[name], params) \in [Vars -> ResolvedStates]
  BY EntryStateType, ProgramAssumption DEF Values
<1> QED BY <1>1 DEF NewOperation, Operations, CallOf

LEMMA MainParamsType == MainParams \in ArgumentLists
BY ProgramAssumption DEF MainParams

----------------------------------------------------------------------------
(* Queues of operations and the calls they hold.                           *)

CallsIn(queue) == {CallOf(queue[i]) : i \in 1..Len(queue)}
Distinct(queue) ==
    \A i, j \in 1..Len(queue) : CallOf(queue[i]) = CallOf(queue[j]) => i = j

LEMMA AppendCall ==
    ASSUME NEW queue \in Seq(Operations), NEW operation \in Operations
    PROVE  /\ CallsIn(Append(queue, operation)) = CallsIn(queue) \cup {CallOf(operation)}
           /\ Distinct(queue) /\ CallOf(operation) \notin CallsIn(queue)
                => Distinct(Append(queue, operation))
<1> DEFINE longer == Append(queue, operation)
<1>1. /\ Len(queue) \in Nat
      /\ Len(longer) = Len(queue) + 1
      /\ \A i \in 1..Len(queue) : longer[i] = queue[i]
      /\ longer[Len(queue) + 1] = operation
  BY AppendProperties, LenProperties
<1> HIDE DEF longer
<1>2. \A i \in 1..Len(longer) : i \in 1..Len(queue) \/ i = Len(queue) + 1
  BY <1>1
<1>3. Len(queue) + 1 \in 1..Len(longer) /\ 1..Len(queue) \subseteq 1..Len(longer)
  BY <1>1
<1>4. CallsIn(longer) = CallsIn(queue) \cup {CallOf(operation)}
  BY <1>1, <1>2, <1>3 DEF CallsIn
<1>5. ASSUME Distinct(queue), CallOf(operation) \notin CallsIn(queue)
      PROVE  Distinct(longer)
  <2> SUFFICES ASSUME NEW i \in 1..Len(longer), NEW j \in 1..Len(longer),
                      CallOf(longer[i]) = CallOf(longer[j])
               PROVE  i = j
    BY DEF Distinct
  <2>1. CASE i \in 1..Len(queue) /\ j \in 1..Len(queue)
    BY <1>1, <1>5, <2>1 DEF Distinct
  <2>2. CASE i \in 1..Len(queue) /\ j = Len(queue) + 1
    BY <1>1, <1>5, <2>2 DEF CallsIn
  <2>3. CASE j \in 1..Len(queue) /\ i = Len(queue) + 1
    BY <1>1, <1>5, <2>3 DEF CallsIn
  <2> QED BY <1>2, <2>1, <2>2, <2>3
<1> QED BY <1>4, <1>5 DEF longer

LEMMA TailCall ==
    ASSUME NEW queue \in Seq(Operations), queue # <<>>, Distinct(queue)
    PROVE  /\ CallsIn(Tail(queue)) = CallsIn(queue) \ {CallOf(Head(queue))}
           /\ CallOf(Head(queue)) \in CallsIn(queue)
           /\ Distinct(Tail(queue))
<1> DEFINE rest == Tail(queue)
<1>1. /\ Len(queue) \in Nat /\ Len(queue) > 0
      /\ Len(rest) = Len(queue) - 1
      /\ \A i \in 1..Len(rest) : rest[i] = queue[i + 1]
      /\ Head(queue) = queue[1]
  BY HeadTailProperties, EmptySeq, LenProperties
<1> HIDE DEF rest
<1>2. \A i \in 1..Len(queue) : i = 1 \/ (i - 1 \in 1..Len(rest) /\ queue[i] = rest[i - 1])
  BY <1>1
<1>3. \A i \in 1..Len(rest) : i + 1 \in 1..Len(queue) /\ i + 1 # 1
  BY <1>1
<1>4. 1 \in 1..Len(queue)
  BY <1>1
<1>5. CallsIn(rest) = CallsIn(queue) \ {CallOf(queue[1])}
  <2>1. ASSUME NEW call \in CallsIn(rest) PROVE call \in CallsIn(queue) \ {CallOf(queue[1])}
    <3>1. PICK i \in 1..Len(rest) : call = CallOf(rest[i])
      BY <2>1 DEF CallsIn
    <3>2. call = CallOf(queue[i + 1]) /\ i + 1 \in 1..Len(queue) /\ i + 1 # 1
      BY <1>1, <1>3, <3>1
    <3>3. call # CallOf(queue[1])
      BY <1>4, <3>2 DEF Distinct
    <3> QED BY <3>2, <3>3 DEF CallsIn
  <2>2. ASSUME NEW call \in CallsIn(queue), call # CallOf(queue[1]) PROVE call \in CallsIn(rest)
    <3>1. PICK i \in 1..Len(queue) : call = CallOf(queue[i])
      BY <2>2 DEF CallsIn
    <3> QED BY <1>2, <2>2, <3>1 DEF CallsIn
  <2> QED BY <2>1, <2>2
<1>6. Distinct(rest)
  <2> SUFFICES ASSUME NEW i \in 1..Len(rest), NEW j \in 1..Len(rest),
                      CallOf(rest[i]) = CallOf(rest[j])
               PROVE  i = j
    BY DEF Distinct
  <2>1. CallOf(queue[i + 1]) = CallOf(queue[j + 1])
    BY <1>1
  <2>2. i + 1 = j + 1
    BY <1>3, <2>1 DEF Distinct
  <2>3. i \in Int /\ j \in Int
    BY <1>1
  <2> QED BY <2>2, <2>3
<1> QED BY <1>1, <1>4, <1>5, <1>6 DEF rest, CallsIn

----------------------------------------------------------------------------
(* What the steps do to the operations that are pending.                   *)

LEMMA PendingType ==
    ASSUME TypeOK
    PROVE  /\ Pending \in Seq(Operations)
           /\ toCheck # <<>> => Pending # <<>> /\ Head(Pending) = Head(toCheck)
                                /\ Pending[1] = Head(toCheck)
           /\ toCheck = <<>> /\ FoundCalls = <<>> => Pending = <<>>
<1>1. toCheck \in Seq(Operations) /\ FoundCalls \in Seq(Operations)
  BY DEF TypeOK
<1>2. Pending \in Seq(Operations)
  BY <1>1, ConcatProperties DEF Pending
<1>3. ASSUME toCheck # <<>>
      PROVE  Pending # <<>> /\ Head(Pending) = Head(toCheck) /\ Pending[1] = Head(toCheck)
  <2>1. /\ Len(toCheck) \in Nat /\ Len(toCheck) > 0
        /\ Len(FoundCalls) \in Nat
        /\ Len(Pending) = Len(toCheck) + Len(FoundCalls)
        /\ \A i \in 1..(Len(toCheck) + Len(FoundCalls)) :
                Pending[i] = IF i <= Len(toCheck) THEN toCheck[i]
                                                  ELSE FoundCalls[i - Len(toCheck)]
    BY <1>1, <1>3, ConcatProperties, EmptySeq, LenProperties DEF Pending
  <2>2. Len(Pending) > 0 /\ 1 \in 1..(Len(toCheck) + Len(FoundCalls))
    BY <2>1
  <2>3. Pending[1] = toCheck[1]
    BY <2>1, <2>2
  <2>4. Pending # <<>>
    BY <2>2, EmptySeq
  <2> QED BY <1>1, <1>2, <1>3, <2>3, <2>4
<1>4. ASSUME toCheck = <<>>, FoundCalls = <<>> PROVE Pending = <<>>
  BY <1>4 DEF Pending
<1> QED BY <1>2, <1>3, <1>4

\* A pending operation is one of a function that is defined.
PendingKnown ==
    \A i \in 1..Len(Pending) : Pending[i].CurrentFunction \in DOMAIN FunctionBlocks

LEMMA ActionsType ==
    ASSUME TypeOK, PendingKnown, Running
    PROVE  /\ Head(toCheck) \in Operations
           /\ State \in Values
           /\ Actions \in Seq(ProcessedActions)
<1>1. Head(toCheck) \in Operations /\ Pending[1] = Head(toCheck) /\ Pending # <<>>
      /\ Pending \in Seq(Operations)
  BY PendingType, HeadTailProperties DEF Running, TypeOK
<1>2. State \in Values
  BY <1>1 DEF State, Operations, Values
<1>3. Head(toCheck).CurrentFunction \in DOMAIN FunctionBlocks
  <2>1. 1 \in 1..Len(Pending)
    BY <1>1, EmptySeq
  <2> QED BY <1>1, <2>1 DEF PendingKnown
<1>4. Actions \in Seq(ProcessedActions)
  <2>1. PICK names \in SUBSET FunctionNames : FunctionBlocks \in [names -> CodeBlocks]
    BY DEF TypeOK, IsRegistry
  <2>2. FunctionBlocks[Head(toCheck).CurrentFunction] \in CodeBlocks
    BY <1>3, <2>1
  <2> QED BY <2>2 DEF Actions, CodeBlocks
<1> QED BY <1>1, <1>2, <1>4

LEMMA ActionType ==
    ASSUME TypeOK, PendingKnown, Running
    PROVE  /\ Head(toCheck) \in Operations
           /\ State \in Values
           /\ step <= Len(Actions) => Action \in ProcessedActions
<1>1. /\ Head(toCheck) \in Operations
      /\ State \in Values
      /\ Actions \in Seq(ProcessedActions)
  BY ActionsType
<1>2. ASSUME step <= Len(Actions) PROVE Action \in ProcessedActions
  <2>1. step \in 1..Len(Actions)
    BY <1>1, <1>2, LenProperties DEF TypeOK
  <2> QED BY <1>1, <2>1, ElementOfSeq DEF Action
<1> QED BY <1>1, <1>2

\* Storing a value in the running operation changes no call.
LEMMA SetVariableStep ==
    ASSUME TypeOK, toCheck # <<>>, NEW x \in Vars, NEW value \in ResolvedStates,
           SetVariable(x, value), FoundCalls' = FoundCalls
    PROVE  /\ toCheck' \in Seq(Operations)
           /\ toCheck' # <<>>
           /\ Len(Pending') = Len(Pending)
           /\ \A i \in 1..Len(Pending) :
                /\ CallOf(Pending'[i]) = CallOf(Pending[i])
                /\ Pending'[i].CurrentFunction = Pending[i].CurrentFunction
                /\ i > 1 => Pending'[i] = Pending[i]
<1> DEFINE first == [Head(toCheck) EXCEPT !.State[x] = value]
<1>1. /\ toCheck \in Seq(Operations) /\ FoundCalls \in Seq(Operations)
      /\ Head(toCheck) \in Operations /\ Head(toCheck) = toCheck[1]
      /\ Len(toCheck) \in Nat /\ Len(toCheck) > 0 /\ Len(FoundCalls) \in Nat
  BY HeadTailProperties, EmptySeq, LenProperties DEF TypeOK
<1>2. first \in Operations /\ CallOf(first) = CallOf(Head(toCheck))
      /\ first.CurrentFunction = Head(toCheck).CurrentFunction
  BY <1>1 DEF Operations, CallOf
<1>3. toCheck' = [toCheck EXCEPT ![1] = first]
  BY <1>1 DEF SetVariable
<1> HIDE DEF first
<1>4. /\ toCheck' \in Seq(Operations)
      /\ Len(toCheck') = Len(toCheck)
      /\ \A i \in 1..Len(toCheck) : toCheck'[i] = IF i = 1 THEN first ELSE toCheck[i]
  BY <1>1, <1>2, <1>3, ExceptSeq
<1>5. /\ Len(Pending) = Len(toCheck) + Len(FoundCalls)
      /\ \A i \in 1..(Len(toCheck) + Len(FoundCalls)) :
            Pending[i] = IF i <= Len(toCheck) THEN toCheck[i]
                                              ELSE FoundCalls[i - Len(toCheck)]
  BY <1>1, ConcatProperties DEF Pending
<1>6. /\ Len(Pending') = Len(toCheck) + Len(FoundCalls)
      /\ \A i \in 1..(Len(toCheck) + Len(FoundCalls)) :
            Pending'[i] = IF i <= Len(toCheck) THEN toCheck'[i]
                                               ELSE FoundCalls[i - Len(toCheck)]
  <2>1. Pending' = toCheck' \o FoundCalls
    BY DEF Pending
  <2>2. /\ Len(toCheck' \o FoundCalls) = Len(toCheck') + Len(FoundCalls)
        /\ \A i \in 1..(Len(toCheck') + Len(FoundCalls)) :
                (toCheck' \o FoundCalls)[i] = IF i <= Len(toCheck') THEN toCheck'[i]
                                              ELSE FoundCalls[i - Len(toCheck')]
    <3>1. toCheck' \in Seq(Operations) /\ FoundCalls \in Seq(Operations)
      BY <1>1, <1>4
    <3> QED BY <3>1, ConcatProperties
  <2> QED BY <1>4, <2>1, <2>2
<1>7. toCheck' # <<>>
  BY <1>1, <1>4, EmptySeq
<1>8. ASSUME NEW i \in 1..Len(Pending)
      PROVE  /\ CallOf(Pending'[i]) = CallOf(Pending[i])
             /\ Pending'[i].CurrentFunction = Pending[i].CurrentFunction
             /\ i > 1 => Pending'[i] = Pending[i]
  <2>1. CASE i = 1
    BY <1>1, <1>2, <1>4, <1>5, <1>6, <2>1
  <2>2. CASE i > 1
    BY <1>1, <1>4, <1>5, <1>6, <2>2
  <2> QED BY <1>1, <1>5, <2>1, <2>2
<1> QED BY <1>4, <1>5, <1>6, <1>7, <1>8

\* An operation that is found is pending, behind all the others.
LEMMA FindStep ==
    ASSUME TypeOK, NEW operation \in Operations,
           FoundCalls' = Append(FoundCalls, operation), toCheck' = toCheck
    PROVE  /\ FoundCalls' \in Seq(Operations)
           /\ Pending' = Append(Pending, operation)
<1>1. toCheck \in Seq(Operations) /\ FoundCalls \in Seq(Operations)
  BY DEF TypeOK
<1>2. FoundCalls' \in Seq(Operations)
  BY <1>1, AppendProperties
<1>3. <<operation>> \in Seq(Operations)
  OBVIOUS
<1>4. Append(FoundCalls, operation) = FoundCalls \o <<operation>>
  BY <1>1, AppendIsConcat
<1>5. Append(Pending, operation) = Pending \o <<operation>>
  BY <1>1, ConcatProperties, AppendIsConcat DEF Pending
<1>6. Pending' = toCheck \o (FoundCalls \o <<operation>>)
  BY <1>4 DEF Pending
<1>7. toCheck \o (FoundCalls \o <<operation>>) = (toCheck \o FoundCalls) \o <<operation>>
  BY <1>1, <1>3, ConcatAssociative
<1> QED BY <1>2, <1>5, <1>6, <1>7 DEF Pending

\* Ending an operation leaves the others pending, in their order.
LEMMA EndStep ==
    ASSUME TypeOK, toCheck # <<>>, EndOperation
    PROVE  /\ toCheck' \in Seq(Operations)
           /\ Pending' = Tail(Pending)
<1>1. Pending \in Seq(Operations) /\ Pending # <<>>
  BY PendingType
<1>2. Tail(Pending) \in Seq(Operations)
  BY <1>1, HeadTailProperties
<1>3. toCheck' = Tail(Pending) /\ FoundCalls' = <<>>
  BY DEF EndOperation, Pending
<1>4. toCheck' \o <<>> = toCheck'
  BY <1>2, <1>3, ConcatEmptySeq
<1> QED BY <1>2, <1>3, <1>4 DEF Pending

----------------------------------------------------------------------------
(* The inductive invariant.                                                *)

\* What is pending in which phase.
Control ==
    /\ phase = "parsed" => /\ toCheck = <<>> /\ step = 1
                           /\ RecordedFunctionCalls = {} /\ called = {} /\ analysed = {}
    /\ phase = "returned" => toCheck = <<>>
    /\ toCheck = <<>> => FoundCalls = <<>>

\* The calls that were executed are those recorded, and each of them is pending
\* or analysed.
CallsKept ==
    /\ called = RecordedFunctionCalls
    /\ RecordedFunctionCalls = PendingCalls \cup analysed

Inv ==
    /\ TypeOK
    /\ PendingKnown
    /\ Control
    /\ CallsKept
    /\ AnalysedOnce
    /\ StartsFresh

LEMMA PendingIn ==
    /\ PendingCalls = CallsIn(Pending)
    /\ AnalysedOnce <=> Distinct(Pending) /\ PendingCalls \cap analysed = {}
BY DEF PendingCalls, CallsIn, AnalysedOnce, Distinct

LEMMA InitInv == Init => Inv
<1> SUFFICES ASSUME Init PROVE Inv
  OBVIOUS
<1>1. Pending = <<>> /\ Len(Pending) = 0
  BY DEF Init, Unstarted, Pending
<1>2. PendingCalls = {}
  BY <1>1 DEF PendingCalls
<1>3. TypeOK
  BY DEF Init, Unstarted, TypeOK
<1> QED BY <1>1, <1>2, <1>3
        DEF Init, Unstarted, Inv, PendingKnown, Control, CallsKept, AnalysedOnce, StartsFresh

\* A step that leaves the queues and the calls alone.
LEMMA QueuesUnchanged ==
    ASSUME Inv, step' = step \/ step' = step + 1,
           UNCHANGED <<FunctionBlocks, toCheck, FoundCalls,
                       RecordedFunctionCalls, called, analysed>>
    PROVE  PendingKnown' /\ CallsKept' /\ AnalysedOnce' /\ StartsFresh'
<1>1. Pending' = Pending /\ PendingCalls' = PendingCalls
  BY DEF Pending, PendingCalls
<1>2. step' = 1 => step = 1
  BY DEF Inv, TypeOK
<1> QED BY <1>1, <1>2
        DEF Inv, PendingKnown, CallsKept, AnalysedOnce, StartsFresh, IsFresh

\* A step that stores a value in the running operation.
LEMMA ValueStep ==
    ASSUME Inv, Running, NEW x \in Vars, NEW value \in ResolvedStates,
           SetVariable(x, value), step' = step + 1,
           UNCHANGED <<FunctionBlocks, phase, FoundCalls,
                       RecordedFunctionCalls, Problems, called, analysed>>
    PROVE  Inv'
<1>1. /\ toCheck' \in Seq(Operations) /\ toCheck' # <<>>
      /\ Len(Pending') = Len(Pending)
      /\ \A i \in 1..Len(Pending) :
            /\ CallOf(Pending'[i]) = CallOf(Pending[i])
            /\ Pending'[i].CurrentFunction = Pending[i].CurrentFunction
            /\ i > 1 => Pending'[i] = Pending[i]
  BY SetVariableStep DEF Inv, Running
<1>2. TypeOK'
  BY <1>1 DEF Inv, TypeOK
<1>3. PendingKnown'
  BY <1>1 DEF Inv, PendingKnown
<1>4. Control'
  BY <1>1 DEF Inv, Control, Running
<1>5. PendingCalls' = PendingCalls
  BY <1>1 DEF PendingCalls
<1>6. CallsKept'
  BY <1>5 DEF Inv, CallsKept
<1>7. AnalysedOnce'
  BY <1>1, <1>5 DEF Inv, AnalysedOnce
<1>8. StartsFresh'
  <2>1. step' # 1
    BY DEF Inv, TypeOK
  <2> QED BY <1>1, <2>1 DEF Inv, StartsFresh, IsFresh
<1> QED BY <1>2, <1>3, <1>4, <1>6, <1>7, <1>8 DEF Inv

LEMMA ShortSequences ==
    ASSUME NEW first \in FoundProblems, NEW second \in FoundProblems
    PROVE  <<first>> \in Seq(FoundProblems) /\ <<first, second>> \in Seq(FoundProblems)
OBVIOUS

LEMMA AccessProblemsType ==
    ASSUME NEW access, NEW state, NEW location \in FunctionNames \X Nat
    PROVE  AccessProblems(access, state, location) \in Seq(FoundProblems)
<1>1. AccessProblems(access, state, location)
        \in {<<>>, <<Problem("Write to nullptr array", location)>>,
             <<Problem("Buffer overflow", location)>>}
  BY DEF AccessProblems
<1>2. \A message \in Messages : Problem(message, location) \in FoundProblems
  BY DEF Problem, FoundProblems, Locations
<1>3. \A problem \in FoundProblems : <<problem>> \in Seq(FoundProblems)
  BY ShortSequences
<1>4. "Write to nullptr array" \in Messages /\ "Buffer overflow" \in Messages
  BY DEF Messages
<1>5. <<>> \in Seq(FoundProblems)
  BY EmptySeq
<1>6. Problem("Write to nullptr array", location) \in FoundProblems
      /\ Problem("Buffer overflow", location) \in FoundProblems
  BY <1>2, <1>4
<1> QED BY <1>1, <1>3, <1>5, <1>6

LEMMA BeginStep == Inv /\ BeginAnalysis => Inv'
<1> SUFFICES ASSUME Inv, BeginAnalysis PROVE Inv'
  OBVIOUS
<1> DEFINE entry == NewOperation(Main, MainParams)
<1>1. /\ entry \in Operations
      /\ CallOf(entry) = <<Main, MainParams>>
      /\ <<Main, MainParams>> \in Calls
  BY ProgramAssumption, MainParamsType, NewOperationType DEF Calls
<1>2. toCheck = <<>> /\ FoundCalls = <<>> /\ analysed = {} /\ step = 1
  BY DEF Inv, Control, BeginAnalysis
<1>3. /\ toCheck' = <<entry>> /\ FoundCalls' = <<>> /\ analysed' = {} /\ step' = 1
      /\ FunctionBlocks' = FunctionBlocks /\ phase' = "analysing" /\ Problems' = Problems
      /\ called' = {<<Main, MainParams>>}
      /\ RecordedFunctionCalls' = {<<Main, MainParams>>}
  BY <1>2 DEF BeginAnalysis
<1>4. entry.CurrentFunction = Main /\ entry.Params = MainParams
      /\ entry.State = EntryState(FunctionBlocks[Main], MainParams)
  BY DEF NewOperation
<1> HIDE DEF entry
<1>5. Pending' = <<entry>> /\ Len(Pending') = 1 /\ Pending'[1] = entry
  BY <1>1, <1>3 DEF Pending
<1>6. TypeOK'
  BY <1>1, <1>3 DEF Inv, TypeOK
<1>7. PendingKnown'
  BY <1>3, <1>4, <1>5 DEF PendingKnown, BeginAnalysis, FindFunction
<1>8. Control'
  BY <1>3 DEF Control
<1>9. PendingCalls' = {<<Main, MainParams>>}
  BY <1>1, <1>5 DEF PendingCalls
<1>10. CallsKept' /\ AnalysedOnce'
  BY <1>3, <1>5, <1>9 DEF CallsKept, AnalysedOnce
<1>11. StartsFresh'
  BY <1>3, <1>4, <1>5 DEF StartsFresh, IsFresh
<1> QED BY <1>6, <1>7, <1>8, <1>10, <1>11 DEF Inv

LEMMA CallStep == Inv /\ HandleFunctionCall => Inv'
<1> SUFFICES ASSUME Inv, HandleFunctionCall PROVE Inv'
  OBVIOUS
<1> DEFINE name == Action.Function
           params == Action.Params
           call == <<name, params>>
           operation == NewOperation(name, params)
           analysable == FindFunction(name) /\ Matches(FunctionBlocks[name], params)
<1>1. Running /\ step <= Len(Actions) /\ Action.Kind = "FunctionCall"
  BY DEF HandleFunctionCall, Dispatches
<1>2. Action \in ProcessedActions
  BY <1>1, ActionType DEF Inv
<1>3. name \in FunctionNames /\ params \in ArgumentLists
  BY <1>1, <1>2 DEF ProcessedActions, FunctionCallActions, VarDeclaredActions,
                    VarAssignedActions, ArrayIndexAccessActions
<1>4. operation \in Operations /\ CallOf(operation) = call /\ call \in Calls
  BY <1>3, NewOperationType DEF Calls
<1>5. operation.CurrentFunction = name /\ operation.Params = params
      /\ operation.State = EntryState(FunctionBlocks[name], params)
  BY DEF NewOperation
<1>6. /\ step' = step + 1
      /\ UNCHANGED <<FunctionBlocks, phase, toCheck, Problems, analysed>>
      /\ called' = IF analysable THEN called \cup {call} ELSE called
      /\ IF analysable /\ call \notin RecordedFunctionCalls
         THEN /\ FoundCalls' = Append(FoundCalls, operation)
              /\ RecordedFunctionCalls' = RecordedFunctionCalls \cup {call}
         ELSE UNCHANGED <<FoundCalls, RecordedFunctionCalls>>
  BY DEF HandleFunctionCall
<1> HIDE DEF name, params, call, operation
<1>7. CASE analysable /\ call \notin RecordedFunctionCalls
  <2>1. /\ FoundCalls' = Append(FoundCalls, operation)
        /\ RecordedFunctionCalls' = RecordedFunctionCalls \cup {call}
        /\ called' = called \cup {call}
    BY <1>6, <1>7
  <2>2. FoundCalls' \in Seq(Operations) /\ Pending' = Append(Pending, operation)
    BY <1>4, <1>6, <2>1, FindStep DEF Inv
  <2>3. Pending \in Seq(Operations)
    BY PendingType DEF Inv
  <2>4. /\ Len(Pending) \in Nat /\ Len(Pending') = Len(Pending) + 1
        /\ \A i \in 1..Len(Pending) : Pending'[i] = Pending[i]
        /\ Pending'[Len(Pending) + 1] = operation
    BY <1>4, <2>2, <2>3, AppendProperties, LenProperties
  <2>5. TypeOK'
    BY <1>4, <1>6, <2>1, <2>2 DEF Inv, TypeOK
  <2>6. PendingKnown'
    BY <1>5, <1>6, <1>7, <2>4 DEF Inv, PendingKnown, FindFunction
  <2>7. Control'
    BY <1>1, <1>6 DEF Inv, Control, Running
  <2>8. call \notin CallsIn(Pending) /\ call \notin analysed
    BY <1>7, PendingIn DEF Inv, CallsKept
  <2>9. PendingCalls' = PendingCalls \cup {call}
    <3>1. PendingCalls' = CallsIn(Append(Pending, operation))
      BY <2>2 DEF PendingCalls, CallsIn
    <3> QED BY <1>4, <2>3, <3>1, AppendCall, PendingIn
  <2>10. CallsKept'
    BY <1>6, <2>1, <2>9 DEF Inv, CallsKept
  <2>11. AnalysedOnce'
    <3>1. Distinct(Append(Pending, operation))
      BY <1>4, <2>3, <2>8, AppendCall, PendingIn DEF Inv
    <3>2. PendingCalls' \cap analysed' = {}
      BY <1>6, <2>8, <2>9 DEF Inv, AnalysedOnce
    <3> QED BY <2>2, <3>1, <3>2 DEF AnalysedOnce, Distinct
  <2>12. StartsFresh'
    <3>1. \A i \in 1..Len(Pending') : i \in 1..Len(Pending) \/ i = Len(Pending) + 1
      BY <2>4
    <3>2. step' # 1
      BY <1>6 DEF Inv, TypeOK
    <3>3. ASSUME NEW i \in 1..Len(Pending'), i > 1 PROVE IsFresh(Pending[i])'
      <4>1. CASE i = Len(Pending) + 1
        BY <1>5, <1>6, <2>4, <4>1 DEF IsFresh
      <4>2. CASE i \in 1..Len(Pending)
        BY <1>6, <2>4, <3>3, <4>2 DEF Inv, StartsFresh, IsFresh
      <4> QED BY <3>1, <4>1, <4>2
    <3> QED BY <3>2, <3>3 DEF StartsFresh
  <2> QED BY <2>5, <2>6, <2>7, <2>10, <2>11, <2>12 DEF Inv
<1>8. CASE ~(analysable /\ call \notin RecordedFunctionCalls)
  <2>1. UNCHANGED <<FoundCalls, RecordedFunctionCalls>> /\ called' = called
    BY <1>6, <1>8 DEF Inv, CallsKept
  <2>2. TypeOK' /\ Control'
    BY <1>1, <1>6, <2>1 DEF Inv, TypeOK, Control, Running
  <2> QED BY <1>6, <2>1, <2>2, QueuesUnchanged DEF Inv
<1> QED BY <1>7, <1>8

LEMMA AccessStep == Inv /\ HandleArrayIndexAccess => Inv'
<1> SUFFICES ASSUME Inv, HandleArrayIndexAccess PROVE Inv'
  OBVIOUS
<1>1. Running /\ step' = step + 1
  BY DEF HandleArrayIndexAccess, Dispatches
<1>2. UNCHANGED <<FunctionBlocks, phase, toCheck, FoundCalls,
                  RecordedFunctionCalls, called, analysed>>
  BY DEF HandleArrayIndexAccess
<1>3. Here \in FunctionNames \X Nat
  BY <1>1, ActionType DEF Inv, TypeOK, Here, Operations
<1>4. Problems' \in Seq(FoundProblems)
  <2>1. Problems \in Seq(FoundProblems)
    BY DEF Inv, TypeOK
  <2>2. AccessProblems(Action, State, Here) \in Seq(FoundProblems)
    BY <1>3, AccessProblemsType
  <2>3. Problems' = Problems \o AccessProblems(Action, State, Here)
    BY DEF HandleArrayIndexAccess
  <2> QED BY <2>1, <2>2, <2>3, ConcatProperties
<1>5. TypeOK' /\ Control'
  BY <1>1, <1>2, <1>4 DEF Inv, TypeOK, Control, Running
<1> QED BY <1>1, <1>2, <1>5, QueuesUnchanged DEF Inv

LEMMA EndingStep == Inv /\ EndOperation => Inv'
<1> SUFFICES ASSUME Inv, EndOperation PROVE Inv'
  OBVIOUS
<1> DEFINE call == CallOf(Head(toCheck))
<1>1. /\ phase = "analysing" /\ toCheck # <<>>
      /\ FoundCalls' = <<>> /\ step' = 1 /\ analysed' = analysed \cup {call}
      /\ UNCHANGED <<FunctionBlocks, phase, RecordedFunctionCalls, Problems, called>>
  BY DEF EndOperation, Running
<1>2. toCheck' \in Seq(Operations) /\ Pending' = Tail(Pending)
  BY <1>1, EndStep DEF Inv
<1>3. Pending \in Seq(Operations) /\ Pending # <<>> /\ Head(Pending) = Head(toCheck)
  BY <1>1, PendingType DEF Inv
<1>4. /\ Len(Pending) \in Nat /\ Len(Tail(Pending)) = Len(Pending) - 1
      /\ \A i \in 1..Len(Tail(Pending)) : Tail(Pending)[i] = Pending[i + 1]
  BY <1>3, HeadTailProperties, LenProperties
<1>5. \A i \in 1..Len(Tail(Pending)) : i + 1 \in 1..Len(Pending) /\ i + 1 > 1
  BY <1>4
<1>6. /\ CallsIn(Tail(Pending)) = CallsIn(Pending) \ {call}
      /\ call \in CallsIn(Pending)
      /\ Distinct(Tail(Pending))
  BY <1>3, TailCall, PendingIn DEF Inv
<1>7. PendingCalls' = PendingCalls \ {call} /\ call \in PendingCalls
  BY <1>2, <1>6, PendingIn DEF PendingCalls, CallsIn
<1> HIDE DEF call
<1>8. TypeOK'
  <2>1. call \in Calls
    BY <1>1, ActionType DEF Inv, Running, Operations, CallOf, Calls, call
  <2> QED BY <1>1, <1>2, <2>1 DEF Inv, TypeOK
<1>9. PendingKnown'
  BY <1>1, <1>2, <1>4, <1>5 DEF Inv, PendingKnown
<1>10. Control'
  BY <1>1 DEF Control
<1>11. CallsKept'
  BY <1>1, <1>7 DEF Inv, CallsKept
<1>12. AnalysedOnce'
  <2>1. PendingCalls' \cap analysed' = {}
    BY <1>1, <1>7 DEF Inv, AnalysedOnce
  <2> QED BY <1>2, <1>6, <2>1 DEF AnalysedOnce, Distinct
<1>13. StartsFresh'
  BY <1>1, <1>2, <1>4, <1>5 DEF Inv, StartsFresh, IsFresh
<1> QED BY <1>8, <1>9, <1>10, <1>11, <1>12, <1>13 DEF Inv

LEMMA NextInv == Inv /\ [Next]_vars => Inv'
<1> SUFFICES ASSUME Inv, [Next]_vars PROVE Inv'
  OBVIOUS
<1>1. CASE ReportNoMain
  <2>1. Problem("'main' function was not found", NoLocation) \in FoundProblems
    BY DEF Problem, FoundProblems, Messages, Locations
  <2>2. Problems' \in Seq(FoundProblems)
    BY <1>1, <2>1, ShortSequences DEF ReportNoMain
  <2>3. TypeOK' /\ Control'
    BY <1>1, <2>2 DEF ReportNoMain, Inv, TypeOK, Control
  <2> QED BY <1>1, <2>3, QueuesUnchanged DEF ReportNoMain, Inv
<1>2. CASE RejectEntryPoint
  <2>1. <<Main, 0>> \in Locations
    BY ProgramAssumption DEF Locations
  <2>2. /\ Problem("given parameters count mismatches", <<Main, 0>>) \in FoundProblems
        /\ Problem("Analysis encountered a fatal error", <<Main, 0>>) \in FoundProblems
    BY <2>1 DEF Problem, FoundProblems, Messages
  <2>3. Problems' \in Seq(FoundProblems)
    BY <1>2, <2>2, ShortSequences DEF RejectEntryPoint
  <2>4. TypeOK' /\ Control'
    BY <1>2, <2>3 DEF RejectEntryPoint, Inv, TypeOK, Control
  <2> QED BY <1>2, <2>4, QueuesUnchanged DEF RejectEntryPoint, Inv
<1>3. CASE BeginAnalysis
  BY <1>3, BeginStep
<1>4. CASE HandleFunctionCall
  BY <1>4, CallStep
<1>5. CASE HandleVarDeclared
  <2>1. Running /\ step <= Len(Actions) /\ Action.Kind = "VarDeclared"
    BY <1>5 DEF HandleVarDeclared, Dispatches
  <2>2. Action \in ProcessedActions /\ State \in Values
    BY <2>1, ActionType DEF Inv
  <2>3. Action.Variable \in Vars /\ Action.State \in Expressions
    BY <2>1, <2>2 DEF ProcessedActions, FunctionCallActions, VarDeclaredActions,
        VarAssignedActions, ArrayIndexAccessActions, Expressions, Sums, Atoms, ResolvedStates
  <2> QED BY <1>5, <2>1, <2>2, <2>3, ResolveType, ValueStep DEF HandleVarDeclared
<1>6. CASE HandleVarAssigned
  <2>1. Running /\ step <= Len(Actions) /\ Action.Kind = "VarAssigned"
    BY <1>6 DEF HandleVarAssigned, Dispatches
  <2>2. Action \in ProcessedActions /\ State \in Values
    BY <2>1, ActionType DEF Inv
  <2>3. Action.Variable \in Vars /\ Action.State \in Expressions
    BY <2>1, <2>2 DEF ProcessedActions, FunctionCallActions, VarDeclaredActions,
        VarAssignedActions, ArrayIndexAccessActions
  <2> QED BY <1>6, <2>1, <2>2, <2>3, ResolveType, ValueStep DEF HandleVarAssigned
<1>7. CASE HandleArrayIndexAccess
  BY <1>7, AccessStep
<1>8. CASE SkipAction
  <2>1. TypeOK' /\ Control'
    BY <1>8 DEF SkipAction, Running, Inv, TypeOK, Control
  <2> QED BY <1>8, <2>1, QueuesUnchanged DEF SkipAction, Inv
<1>9. CASE EndOperation
  BY <1>9, EndingStep
<1>10. CASE ReturnProblems
  <2>1. TypeOK' /\ Control'
    BY <1>10 DEF ReturnProblems, Inv, TypeOK, Control
  <2> QED BY <1>10, <2>1, QueuesUnchanged DEF ReturnProblems, Inv
<1>11. CASE UNCHANGED vars
  <2>1. TypeOK' /\ Control'
    BY <1>11 DEF vars, Inv, TypeOK, Control
  <2> QED BY <1>11, <2>1, QueuesUnchanged DEF vars, Inv
<1> QED BY <1>1, <1>2, <1>3, <1>4, <1>5, <1>6, <1>7, <1>8, <1>9, <1>10, <1>11
        DEF Next, Terminated

\* The inductive invariant holds of every reachable state.
THEOREM Invariance == Spec => []Inv
BY InitInv, NextInv, PTL DEF Spec

----------------------------------------------------------------------------
(* What follows from it.                                                   *)

\* Every variable of the analyzer has its type, whatever the program.
THEOREM TypeCorrect == Spec => []TypeOK
<1>1. Inv => TypeOK
  BY DEF Inv
<1> QED BY <1>1, Invariance, PTL

\* What is stored refers to no variable.
LEMMA NothingRefers == Inv => ResolvingEnds
<1> SUFFICES ASSUME Inv, NEW i \in 1..Len(Pending) PROVE Acyclic(Pending[i].State)
  BY DEF ResolvingEnds
<1>1. Pending[i] \in Operations
  BY PendingType, ElementOfSeq DEF Inv
<1>2. Pending[i].State \in Values
  BY <1>1 DEF Operations, Values
<1> QED BY <1>2, ResolvedIsAcyclic

\* The loop and the recursion of ResolveValue end, in every state of every
\* program: what is stored refers to no variable.
THEOREM ResolvingAlwaysEnds == Spec => []ResolvingEnds
BY NothingRefers, Invariance, PTL

\* No call is queued twice, or again after its analysis.
THEOREM NeverAnalysedTwice == Spec => []AnalysedOnce
<1>1. Inv => AnalysedOnce
  BY DEF Inv
<1> QED BY <1>1, Invariance, PTL

\* Nothing is pending when the analyzer returns.
LEMMA NothingIsPending == Inv => NoCallLost
<1> SUFFICES ASSUME Inv, phase = "returned" PROVE called = analysed
  BY DEF NoCallLost
<1>1. Pending = <<>>
  BY PendingType DEF Inv, Control
<1>2. PendingCalls = {}
  BY <1>1 DEF PendingCalls
<1> QED BY <1>2 DEF Inv, CallsKept

\* Every call that was executed has been analysed when the analyzer returns.
THEOREM NoCallIsLost == Spec => []NoCallLost
BY NothingIsPending, Invariance, PTL

\* An operation starts in the state its call determines, so that of two calls
\* with the same parameters one analysis tells everything.
THEOREM OperationsStartFresh == Spec => []StartsFresh
<1>1. Inv => StartsFresh
  BY DEF Inv
<1> QED BY <1>1, Invariance, PTL

\* Of a condition and its negation one holds at most, and one does of a known number.
LEMMA OneBranch == Inv => BranchesExclusive
<1> SUFFICES ASSUME Inv, Running, NEW i \in 1..Len(Actions), IsSingle(Actions[i].If)
    PROVE  LET condition == Actions[i].If
               leaf == TheLeaf(condition)
               subject == Resolve(State, leaf.Subject)
               known == \/ leaf.Value.Type \in {"Zero", "NotZero"}
                        \/ /\ leaf.Value.Type = "Constant"
                           /\ subject.State = leaf.Value.ComparedConstant.State
                           /\ subject.State = "Primitive"
           IN /\ ~(Evaluate(condition, State) /\ Evaluate(Negate(condition), State))
              /\ subject.State # "Unknown" /\ known =>
                      Evaluate(condition, State) \/ Evaluate(Negate(condition), State)
  BY DEF BranchesExclusive
<1> DEFINE condition == Actions[i].If
           leaf == TheLeaf(condition)
           subject == Resolve(State, leaf.Subject)
<1>1. State \in Values
  BY ActionType DEF Inv
<1>2. condition \in Conditions
  <2>1. Actions[i] \in ProcessedActions
    BY ActionsType, ElementOfSeq DEF Inv
  <2> QED BY <2>1 DEF ProcessedActions, FunctionCallActions, VarDeclaredActions,
                      VarAssignedActions, ArrayIndexAccessActions
<1> HIDE DEF condition
<1>3. condition = When(leaf) /\ leaf \in Leaves
  <2>1. PICK only : condition = When(only)
    BY DEF IsSingle, condition
  <2>2. leaf = only
    BY <2>1, SingleCondition
  <2>3. UNION condition.VariableConditions = {leaf} /\ condition # Always
    BY <2>1, <2>2 DEF When, Always
  <2>4. UNION condition.VariableConditions \subseteq Leaves
    BY <1>2, <2>3 DEF Conditions
  <2> HIDE DEF leaf
  <2> QED BY <2>1, <2>2, <2>3, <2>4
<1> HIDE DEF leaf, subject
<1>4. /\ Evaluate(condition, State) <=> LeafHolds(leaf, State)
      /\ Evaluate(Negate(condition), State) <=> LeafHolds(NegateLeaf(leaf), State)
  BY <1>3, SingleCondition
<1>5. /\ ~(LeafHolds(leaf, State) /\ LeafHolds(NegateLeaf(leaf), State))
      /\ subject.State # "Unknown" /\ leaf.Value.Type \in {"Zero", "NotZero"} =>
              LeafHolds(leaf, State) \/ LeafHolds(NegateLeaf(leaf), State)
      /\ (/\ leaf.Value.Type = "Constant"
          /\ subject.State = "Primitive"
          /\ leaf.Value.ComparedConstant.State = "Primitive") =>
              LeafHolds(leaf, State) \/ LeafHolds(NegateLeaf(leaf), State)
  BY <1>1, <1>3, NegatedLeaf DEF subject
<1> QED BY <1>4, <1>5 DEF condition, leaf, subject

\* A condition and its negation never hold in the same state of an operation.
THEOREM BranchesAreExclusive == Spec => []BranchesExclusive
BY OneBranch, Invariance, PTL

----------------------------------------------------------------------------
(* What a step may do.                                                     *)

\* Only the handler of an access runs when the loop is at one whose condition
\* holds.
LEMMA OneHandler ==
    ASSUME Inv, Next, Dispatches("ArrayIndexAccess")
    PROVE  HandleArrayIndexAccess
<1>1. /\ phase = "analysing" /\ toCheck # <<>>
      /\ step <= Len(Actions)
      /\ Action.Kind = "ArrayIndexAccess"
      /\ Evaluate(Action.If, State)
  BY DEF Dispatches, Running
<1>2. ~ReportNoMain /\ ~RejectEntryPoint /\ ~BeginAnalysis /\ ~ReturnProblems /\ ~Terminated
  BY <1>1 DEF ReportNoMain, RejectEntryPoint, BeginAnalysis, ReturnProblems, Terminated
<1>3. ~HandleFunctionCall /\ ~HandleVarDeclared /\ ~HandleVarAssigned
  BY <1>1 DEF HandleFunctionCall, HandleVarDeclared, HandleVarAssigned, Dispatches
<1>4. ~SkipAction
  BY <1>1 DEF SkipAction
<1>5. ASSUME EndOperation PROVE FALSE
  <2>1. step > Len(Actions)
    BY <1>5 DEF EndOperation
  <2>2. Actions \in Seq(ProcessedActions) /\ step \in Nat
    BY <1>1, ActionsType DEF Inv, TypeOK, Running
  <2>3. Len(Actions) \in Nat
    BY <2>2, LenProperties
  <2> QED BY <1>1, <2>1, <2>2, <2>3
<1> QED BY <1>2, <1>3, <1>4, <1>5 DEF Next

\* A check reports one problem, or none.
LEMMA AccessProblemsCount ==
    ASSUME NEW state \in Values, NEW access \in ArrayIndexAccessActions, NEW location
    PROVE  LET array == GetVariableValue(state, access.Array)
               index == Resolve(state, access.Index)
           IN
           Len(AccessProblems(access, state, location)) =
                IF /\ array.State = "Buffer"
                   /\ index.State # "Unknown"
                   /\ \/ array.NullPtr
                      \/ /\ index.State = "Primitive"
                         /\ index.Value \notin 0 .. array.AllocatedSize - 1
                THEN 1 ELSE 0
<1> DEFINE array == GetVariableValue(state, access.Array)
           index == Resolve(state, access.Index)
<1>1. array \in ResolvedStates /\ index \in ResolvedStates
  <2>1. access.Array \in Vars /\ access.Index \in Expressions
    BY DEF ArrayIndexAccessActions, Literals, Expressions, Sums, Atoms, ResolvedStates
  <2> QED BY <2>1, GetVariableValueType, ResolveType
<1>2. ASSUME array.State = "Buffer", index.State = "Primitive"
      PROVE  OutsideBuffer(array.AllocatedSize, index.Value)
                <=> index.Value \notin 0 .. array.AllocatedSize - 1
  <2>1. array.AllocatedSize \in ObjectSizes /\ index.Value \in Ints
    BY <1>1, <1>2 DEF ResolvedStates, Unknown, Primitives, Buffers
  <2> QED BY <2>1, OverflowCheckIsExact
<1>3. \A problem : Len(<<problem>>) = 1 /\ Len(<<>>) = 0
  OBVIOUS
<1>4. AccessProblems(access, state, location) =
        IF array.State # "Buffer" \/ index.State = "Unknown" THEN <<>>
        ELSE IF array.NullPtr
             THEN <<Problem("Write to nullptr array", location)>>
        ELSE IF index.State = "Primitive" /\ OutsideBuffer(array.AllocatedSize, index.Value)
             THEN <<Problem("Buffer overflow", location)>>
        ELSE <<>>
  BY DEF AccessProblems
<1> HIDE DEF array, index
<1>5. Len(AccessProblems(access, state, location)) =
        IF /\ array.State = "Buffer"
           /\ index.State # "Unknown"
           /\ \/ array.NullPtr
              \/ /\ index.State = "Primitive"
                 /\ index.Value \notin 0 .. array.AllocatedSize - 1
        THEN 1 ELSE 0
  BY <1>2, <1>3, <1>4
<1> QED BY <1>5 DEF array, index

\* A step at a reached access reports it exactly when it is outside its buffer.
LEMMA AccessReported ==
    Inv /\ [Next]_vars =>
        [Dispatches("ArrayIndexAccess") =>
            (Len(Problems') = Len(Problems) + 1 <=> AccessOutside(Action))]_vars
<1> SUFFICES ASSUME Inv, Next, Dispatches("ArrayIndexAccess")
             PROVE  Len(Problems') = Len(Problems) + 1 <=> AccessOutside(Action)
  OBVIOUS
<1>1. Problems' = Problems \o AccessProblems(Action, State, Here)
  BY OneHandler DEF HandleArrayIndexAccess
<1>2. /\ Running /\ step <= Len(Actions) /\ Action.Kind = "ArrayIndexAccess"
      /\ Action \in ProcessedActions /\ State \in Values /\ Head(toCheck) \in Operations
  BY ActionType DEF Dispatches, Inv
<1>3. Action \in ArrayIndexAccessActions
  BY <1>2 DEF ProcessedActions, FunctionCallActions, VarDeclaredActions,
              VarAssignedActions, ArrayIndexAccessActions
<1>4. /\ AccessProblems(Action, State, Here) \in Seq(FoundProblems)
      /\ Problems \in Seq(FoundProblems)
  <2>1. Here \in FunctionNames \X Nat
    BY <1>2 DEF Inv, TypeOK, Here, Operations
  <2> QED BY <2>1, AccessProblemsType DEF Inv, TypeOK
<1>5. Len(Problems') = Len(Problems) + Len(AccessProblems(Action, State, Here))
  BY <1>1, <1>4, ConcatProperties
<1>6. Len(AccessProblems(Action, State, Here)) = IF AccessOutside(Action) THEN 1 ELSE 0
  BY <1>2, <1>3, AccessProblemsCount DEF AccessOutside
<1>7. Len(Problems) \in Nat
  BY <1>4, LenProperties
<1> QED BY <1>5, <1>6, <1>7

\* A reached access is reported exactly when it is outside its buffer.
THEOREM AccessesReportedExactly == Spec => ReportsExactly
BY AccessReported, Invariance, PTL DEF Spec, ReportsExactly

----------------------------------------------------------------------------
(* The queue implements the worklist.                                      *)

\* Steps that leave what is pending alone are invisible in the worklist.
LEMMA WorklistStutters ==
    ASSUME UNCHANGED <<toCheck, FoundCalls, analysed>>, phase' = "returned" <=> phase = "returned"
    PROVE  UNCHANGED Worklist!vars
BY DEF Worklist!vars, PendingCalls, Pending

LEMMA WorklistInit == Init => Worklist!Init
<1> SUFFICES ASSUME Init PROVE Worklist!Init
  OBVIOUS
<1>1. Len(Pending) = 0 /\ analysed = {} /\ phase # "returned"
  BY DEF Init, Unstarted, Pending
<1>2. PendingCalls = {}
  BY <1>1 DEF PendingCalls
<1> QED BY <1>1, <1>2 DEF Worklist!Init

\* Queueing a call that was never recorded finds it in the worklist.
LEMMA WorklistFind == Inv /\ HandleFunctionCall => [Worklist!Next]_(Worklist!vars)
<1> SUFFICES ASSUME Inv, HandleFunctionCall PROVE [Worklist!Next]_(Worklist!vars)
  OBVIOUS
<1> DEFINE name == Action.Function
           params == Action.Params
           call == <<name, params>>
           operation == NewOperation(name, params)
<1>1. /\ Running /\ Action.Kind = "FunctionCall" /\ step <= Len(Actions)
      /\ UNCHANGED <<phase, toCheck, analysed>>
  BY DEF HandleFunctionCall, Dispatches
<1>2. CASE /\ FoundCalls' = Append(FoundCalls, operation)
           /\ call \notin RecordedFunctionCalls
  <2>1. Action \in ProcessedActions
    BY <1>1, ActionType DEF Inv
  <2>2. name \in FunctionNames /\ params \in ArgumentLists
    BY <1>1, <2>1 DEF ProcessedActions, FunctionCallActions, VarDeclaredActions,
        VarAssignedActions, ArrayIndexAccessActions
  <2>3. operation \in Operations /\ CallOf(operation) = call /\ call \in Calls
    BY <2>2, NewOperationType DEF Calls
  <2> HIDE DEF operation, call
  <2>4. Pending' = Append(Pending, operation) /\ Pending \in Seq(Operations)
    BY <1>1, <1>2, <2>3, FindStep, PendingType DEF Inv
  <2>5. PendingCalls' = PendingCalls \cup {call}
    <3>1. PendingCalls' = CallsIn(Append(Pending, operation))
      BY <2>4 DEF PendingCalls, CallsIn
    <3> QED BY <2>3, <2>4, <3>1, AppendCall, PendingIn
  <2>6. PendingCalls # {}
    <3>1. Pending # <<>> /\ Pending \in Seq(Operations)
      BY <1>1, PendingType DEF Inv, Running
    <3>2. 1 \in 1..Len(Pending)
      BY <3>1, EmptySeq
    <3> QED BY <3>2 DEF PendingCalls
  <2>7. call \notin PendingCalls \cup analysed
    BY <1>2 DEF Inv, CallsKept
  <2>8. phase # "returned" /\ phase' # "returned"
    BY <1>1 DEF Running
  <2>9. Worklist!Find(call)
    BY <1>1, <2>5, <2>6, <2>7, <2>8 DEF Worklist!Find
  <2> QED BY <2>3, <2>9 DEF Worklist!Next
<1>3. CASE FoundCalls' = FoundCalls
  BY <1>1, <1>3, WorklistStutters
<1> QED BY <1>2, <1>3 DEF HandleFunctionCall

\* Ending an operation finishes its call in the worklist.
LEMMA WorklistFinish == Inv /\ EndOperation => Worklist!Next
<1> SUFFICES ASSUME Inv, EndOperation PROVE Worklist!Next
  OBVIOUS
<1> DEFINE call == CallOf(Head(toCheck))
<1>1. /\ phase = "analysing" /\ phase' = "analysing" /\ toCheck # <<>>
      /\ analysed' = analysed \cup {call}
  BY DEF EndOperation, Running
<1>2. /\ Pending \in Seq(Operations) /\ Pending # <<>> /\ Head(Pending) = Head(toCheck)
      /\ Pending' = Tail(Pending)
  BY <1>1, PendingType, EndStep DEF Inv
<1>3. CallsIn(Tail(Pending)) = CallsIn(Pending) \ {call} /\ call \in CallsIn(Pending)
  BY <1>2, TailCall, PendingIn DEF Inv
<1>4. PendingCalls' = PendingCalls \ {call} /\ call \in PendingCalls
  BY <1>2, <1>3, PendingIn DEF PendingCalls, CallsIn
<1>5. call \in Calls
  BY <1>1, ActionType DEF Inv, Running, Operations, CallOf, Calls
<1> HIDE DEF call
<1>6. Worklist!Finish(call)
  BY <1>1, <1>4 DEF Worklist!Finish
<1> QED BY <1>5, <1>6 DEF Worklist!Next

\* Every step of the analyzer is one of the worklist, or none.
LEMMA WorklistStep == Inv /\ [Next]_vars => [Worklist!Next]_(Worklist!vars)
<1> SUFFICES ASSUME Inv, [Next]_vars PROVE [Worklist!Next]_(Worklist!vars)
  OBVIOUS
<1>1. \A queue : queue = <<>> => CallsIn(queue) = {}
  BY DEF CallsIn
<1>2. toCheck = <<>> => Pending = <<>> /\ PendingCalls = {}
  BY <1>1, PendingType, PendingIn DEF Inv, Control
<1>3. ASSUME ReportNoMain \/ RejectEntryPoint \/ ReturnProblems PROVE Worklist!Return
  <2>1. /\ phase # "returned" /\ phase' = "returned" /\ toCheck = <<>>
        /\ UNCHANGED <<toCheck, FoundCalls, analysed>>
    BY <1>3 DEF ReportNoMain, RejectEntryPoint, ReturnProblems, Inv, Control
  <2>2. PendingCalls' = PendingCalls
    BY <2>1 DEF PendingCalls, Pending
  <2> QED BY <1>2, <2>1, <2>2 DEF Worklist!Return
<1>4. ASSUME BeginAnalysis PROVE Worklist!Next
  <2> DEFINE call == <<Main, MainParams>>
             entry == NewOperation(Main, MainParams)
  <2>1. /\ phase # "returned" /\ phase' # "returned"
        /\ toCheck = <<>> /\ FoundCalls = <<>> /\ analysed = {}
        /\ toCheck' = <<entry>> /\ FoundCalls' = <<>> /\ analysed' = {}
    BY <1>4 DEF BeginAnalysis, Inv, Control
  <2>2. CallOf(entry) = call /\ call \in Calls
    BY ProgramAssumption, MainParamsType, NewOperationType DEF Calls
  <2> HIDE DEF entry, call
  <2>3. Pending' = <<entry>> \o <<>>
    BY <2>1 DEF Pending
  <2>4. Len(Pending') = 1 /\ Pending'[1] = entry
    BY <2>3
  <2>5. PendingCalls' = {call}
    BY <2>2, <2>4 DEF PendingCalls
  <2>6. Worklist!Begin(call)
    BY <1>2, <2>1, <2>5 DEF Worklist!Begin
  <2> QED BY <2>2, <2>6 DEF Worklist!Next
<1>5. ASSUME HandleVarDeclared \/ HandleVarAssigned PROVE UNCHANGED Worklist!vars
  <2>1. /\ Running /\ step <= Len(Actions)
        /\ Action.Kind \in {"VarDeclared", "VarAssigned"}
        /\ SetVariable(Action.Variable, Resolve(State, Action.State))
        /\ UNCHANGED <<phase, FoundCalls, analysed>>
    BY <1>5 DEF HandleVarDeclared, HandleVarAssigned, Dispatches
  <2>2. Action \in ProcessedActions /\ State \in Values /\ toCheck # <<>>
    BY <2>1, ActionType DEF Inv, Running
  <2>3. Action.Variable \in Vars /\ Action.State \in Expressions
    BY <2>1, <2>2 DEF ProcessedActions, FunctionCallActions, VarDeclaredActions,
        VarAssignedActions, ArrayIndexAccessActions, Expressions, Sums, Atoms, ResolvedStates
  <2>4. Resolve(State, Action.State) \in ResolvedStates
    BY <2>2, <2>3, ResolveType
  <2>5. /\ Len(Pending') = Len(Pending)
        /\ \A i \in 1..Len(Pending) : CallOf(Pending'[i]) = CallOf(Pending[i])
    BY <2>1, <2>2, <2>3, <2>4, SetVariableStep DEF Inv
  <2>6. PendingCalls' = PendingCalls
    BY <2>5 DEF PendingCalls
  <2> QED BY <2>1, <2>6 DEF Worklist!vars
<1>6. ASSUME HandleArrayIndexAccess \/ SkipAction \/ UNCHANGED vars
      PROVE  UNCHANGED Worklist!vars
  BY <1>6, WorklistStutters DEF HandleArrayIndexAccess, SkipAction, vars
<1> QED BY <1>3, <1>4, <1>5, <1>6, WorklistFind, WorklistFinish
        DEF Next, Terminated, Worklist!Next

\* The queue of operations, with its registry of recorded calls, implements the
\* worklist: each call is found once and finished once, and the analyzer
\* returns with none left.
THEOREM QueueImplementsWorklist == Spec => ImplementsWorklist
<1>1. Spec => Worklist!Init /\ [][Worklist!Next]_(Worklist!vars)
  BY Invariance, WorklistInit, WorklistStep, PTL DEF Spec
<1> QED BY <1>1 DEF ImplementsWorklist, Worklist!Spec

----------------------------------------------------------------------------
(* The result of an analysis: each operation, however it is queued, goes   *)
(* through the states, problems and calls of its call's run. First, the    *)
(* run of one call.                                                        *)

Entry(blocks, call) ==
    [state |-> EntryState(blocks[call[1]], call[2]), problems |-> <<>>, calls |-> {}]

IsRun(blocks, call, n, run) ==
    run = [i \in 0 .. n |->
              IF i = 0 THEN Entry(blocks, call)
              ELSE Perform(blocks, run[i - 1], blocks[call[1]].Actions[i], <<call[1], i>>)]

LEMMA RunExists ==
    ASSUME NEW blocks, NEW call
    PROVE  \A n \in Nat : \E run : IsRun(blocks, call, n, run)
<1> DEFINE S == {n \in Nat : \E run : IsRun(blocks, call, n, run)}
           Following(run, i) == Perform(blocks, run, blocks[call[1]].Actions[i], <<call[1], i>>)
<1>1. 0 \in S
  <2> DEFINE run == [i \in 0 .. 0 |-> Entry(blocks, call)]
  <2>1. \A i \in 0 .. 0 : i = 0
    OBVIOUS
  <2>2. IsRun(blocks, call, 0, run)
    BY <2>1 DEF IsRun
  <2> QED BY <2>2
<1>2. ASSUME NEW n \in Nat, n \in S PROVE n + 1 \in S
  <2>1. PICK run : IsRun(blocks, call, n, run)
    BY <1>2
  <2> DEFINE longer == [i \in 0 .. n + 1 |-> IF i \in 0 .. n THEN run[i] ELSE Following(run[n], i)]
  <2>2. \A i \in 0 .. n : run[i] = IF i = 0 THEN Entry(blocks, call) ELSE Following(run[i - 1], i)
    BY <2>1 DEF IsRun
  <2>3. \A i \in 0 .. n + 1 :
            longer[i] = IF i = 0 THEN Entry(blocks, call) ELSE Following(longer[i - 1], i)
    <3> HIDE DEF Following
    <3>1. \A i \in 0 .. n : i # 0 => i - 1 \in 0 .. n + 1 /\ i - 1 \in 0 .. n /\ i \in 0 .. n + 1
      OBVIOUS
    <3>2. \A i \in 0 .. n : longer[i] = run[i]
      OBVIOUS
    <3>3. longer[n + 1] = Following(longer[n], n + 1) /\ n + 1 # 0 /\ (n + 1) - 1 = n
      BY <3>2
    <3>4. \A i \in 0 .. n + 1 : i \in 0 .. n \/ i = n + 1
      OBVIOUS
    <3> HIDE DEF longer
    <3> QED BY <2>2, <3>1, <3>2, <3>3, <3>4
  <2>4. longer = [i \in 0 .. n + 1 |->
                    IF i = 0 THEN Entry(blocks, call) ELSE Following(longer[i - 1], i)]
    <3>1. longer = [i \in 0 .. n + 1 |-> longer[i]]
      OBVIOUS
    <3> HIDE DEF longer, Following
    <3> QED BY <2>3, <3>1
  <2>5. IsRun(blocks, call, n + 1, longer)
    BY <2>4 DEF IsRun
  <2> QED BY <2>5
<1> HIDE DEF S
<1>3. Nat \subseteq S
  BY <1>1, <1>2, Induction
<1> QED BY <1>3 DEF S

\* A call's run begins with its parameters and goes on action by action.
LEMMA RunSteps ==
    ASSUME NEW blocks, NEW call, Len(blocks[call[1]].Actions) \in Nat
    PROVE  /\ RunUpTo(blocks, call)[0] = Entry(blocks, call)
           /\ \A i \in 1 .. Len(blocks[call[1]].Actions) :
                RunUpTo(blocks, call)[i] =
                    Perform(blocks, RunUpTo(blocks, call)[i - 1],
                            blocks[call[1]].Actions[i], <<call[1], i>>)
<1> DEFINE n == Len(blocks[call[1]].Actions)
<1>1. \E run : IsRun(blocks, call, n, run)
  BY RunExists
<1>2. RunUpTo(blocks, call) = CHOOSE run : IsRun(blocks, call, n, run)
  BY DEF RunUpTo, IsRun, Entry
<1>3. IsRun(blocks, call, n, RunUpTo(blocks, call))
  BY <1>1, <1>2
<1>4. /\ \A i \in 0 .. n : RunUpTo(blocks, call)[i] =
                IF i = 0 THEN Entry(blocks, call)
                ELSE Perform(blocks, RunUpTo(blocks, call)[i - 1],
                             blocks[call[1]].Actions[i], <<call[1], i>>)
  BY <1>3 DEF IsRun
<1>5. 0 \in 0 .. n /\ \A i \in 1 .. n : i \in 0 .. n /\ i # 0
  OBVIOUS
<1> QED BY <1>4, <1>5

Runs == [state : Values, problems : Seq(FoundProblems), calls : SUBSET Calls]

\* What an action does to a run, by its kind.
LEMMA PerformSkipped ==
    ASSUME NEW blocks, NEW run, NEW action, NEW location, ~Evaluate(action.If, run.state)
    PROVE  Perform(blocks, run, action, location) = run
BY DEF Perform

LEMMA PerformValue ==
    ASSUME NEW blocks, NEW run \in Runs, NEW action, NEW location,
           Evaluate(action.If, run.state), action.Kind \in {"VarDeclared", "VarAssigned"}
    PROVE  Perform(blocks, run, action, location) =
                [state |-> [run.state EXCEPT ![action.Variable] =
                                Resolve(run.state, action.State)],
                 problems |-> run.problems, calls |-> run.calls]
BY DEF Perform, Runs

Reporting(run, found) ==
    [state |-> run.state, problems |-> run.problems \o found, calls |-> run.calls]

LEMMA PerformAccess ==
    ASSUME NEW blocks, NEW run \in Runs, NEW action, NEW location,
           Evaluate(action.If, run.state), action.Kind = "ArrayIndexAccess"
    PROVE  Perform(blocks, run, action, location) =
                Reporting(run, AccessProblems(action, run.state, location))
BY DEF Perform, Runs, Reporting

Analysable(blocks, action) ==
    /\ action.Function \in DOMAIN blocks
    /\ Matches(blocks[action.Function], action.Params)

LEMMA PerformCall ==
    ASSUME NEW blocks, NEW run \in Runs, NEW action, NEW location,
           Evaluate(action.If, run.state), action.Kind = "FunctionCall"
    PROVE  Perform(blocks, run, action, location) =
                [state |-> run.state, problems |-> run.problems,
                 calls |-> IF Analysable(blocks, action)
                           THEN run.calls \cup {<<action.Function, action.Params>>}
                           ELSE run.calls]
BY DEF Perform, Runs, Analysable

LEMMA AccessReportsHere ==
    ASSUME NEW access, NEW state, NEW location
    PROVE  \/ AccessProblems(access, state, location) = <<>>
           \/ \E problem : /\ AccessProblems(access, state, location) = <<problem>>
                           /\ problem.Location = location
<1>1. AccessProblems(access, state, location)
        \in {<<>>, <<Problem("Write to nullptr array", location)>>,
             <<Problem("Buffer overflow", location)>>}
  BY DEF AccessProblems
<1>2. \A message : Problem(message, location).Location = location
  BY DEF Problem
<1> QED BY <1>1, <1>2

\* The problems of a run are where its call's actions are.
LocatedUpTo(problems, name, i) ==
    \A problem \in ToSet(problems) : problem.Location \in {<<name, j>> : j \in 1 .. i}

LEMMA PerformType ==
    ASSUME NEW blocks, NEW run \in Runs, NEW action \in ProcessedActions,
           NEW name \in FunctionNames, NEW i \in Nat,
           LocatedUpTo(run.problems, name, i)
    PROVE  LET next == Perform(blocks, run, action, <<name, i + 1>>) IN
           /\ next \in Runs
           /\ run.calls \subseteq next.calls
           /\ LocatedUpTo(next.problems, name, i + 1)
<1> DEFINE location == <<name, i + 1>>
           next == Perform(blocks, run, action, location)
<1> SUFFICES next \in Runs /\ run.calls \subseteq next.calls
             /\ LocatedUpTo(next.problems, name, i + 1)
  OBVIOUS
<1>a. ~Evaluate(action.If, run.state) => next = run
  BY PerformSkipped
<1>b. Evaluate(action.If, run.state) /\ action.Kind \in {"VarDeclared", "VarAssigned"} =>
            next = [state |-> [run.state EXCEPT ![action.Variable] =
                                  Resolve(run.state, action.State)],
                    problems |-> run.problems, calls |-> run.calls]
  BY PerformValue
<1>c. Evaluate(action.If, run.state) /\ action.Kind = "ArrayIndexAccess" =>
            next = Reporting(run, AccessProblems(action, run.state, location))
  BY PerformAccess
<1>d. Evaluate(action.If, run.state) /\ action.Kind = "FunctionCall" =>
            next = [state |-> run.state, problems |-> run.problems,
                    calls |-> IF Analysable(blocks, action)
                              THEN run.calls \cup {<<action.Function, action.Params>>}
                              ELSE run.calls]
  BY PerformCall
<1> HIDE DEF next
<1>1. /\ run.state \in Values /\ run.problems \in Seq(FoundProblems)
      /\ run.calls \in SUBSET Calls
      /\ run = [state |-> run.state, problems |-> run.problems, calls |-> run.calls]
  BY DEF Runs
<1>2. \A state \in Values, problems \in Seq(FoundProblems), calls \in SUBSET Calls :
        [state |-> state, problems |-> problems, calls |-> calls] \in Runs
  BY DEF Runs
<1>3. LocatedUpTo(run.problems, name, i + 1)
  BY DEF LocatedUpTo
<1>4. CASE ~Evaluate(action.If, run.state)
  BY <1>a, <1>3, <1>4
<1>5. CASE Evaluate(action.If, run.state) /\ action.Kind \in {"VarDeclared", "VarAssigned"}
  <2>1. action.Variable \in Vars /\ action.State \in Expressions
    BY <1>5 DEF ProcessedActions, FunctionCallActions, VarDeclaredActions, VarAssignedActions,
                ArrayIndexAccessActions, Expressions, Sums, Atoms, ResolvedStates
  <2>2. Resolve(run.state, action.State) \in ResolvedStates
    BY <1>1, <2>1, ResolveType
  <2>3. [run.state EXCEPT ![action.Variable] = Resolve(run.state, action.State)] \in Values
    BY <1>1, <2>1, <2>2 DEF Values
  <2>4. next = [state |-> [run.state EXCEPT ![action.Variable] = Resolve(run.state, action.State)],
                problems |-> run.problems, calls |-> run.calls]
    BY <1>b, <1>5
  <2>5. next.problems = run.problems /\ next.calls = run.calls
    BY <2>4
  <2> QED BY <1>1, <1>2, <1>3, <2>3, <2>4, <2>5
<1>6. CASE Evaluate(action.If, run.state) /\ action.Kind = "ArrayIndexAccess"
  <2> DEFINE found == AccessProblems(action, run.state, location)
  <2>0. next = Reporting(run, found)
    BY <1>c, <1>6
  <2>1. /\ next.problems = run.problems \o found
        /\ next = [state |-> run.state, problems |-> next.problems, calls |-> run.calls]
    <3> HIDE DEF found
    <3> QED BY <2>0 DEF Reporting
  <2>2. location \in FunctionNames \X Nat
    OBVIOUS
  <2>3. found \in Seq(FoundProblems)
    BY <2>2, AccessProblemsType
  <2>4. next.problems \in Seq(FoundProblems) /\ next.calls = run.calls
    BY <1>1, <2>1, <2>3, ConcatProperties
  <2>5. ToSet(next.problems) = ToSet(run.problems) \cup ToSet(found)
    BY <1>1, <2>1, <2>3, ElementsOfConcat
  <2>6. \A problem \in ToSet(found) : problem.Location = location
    <3>1. CASE found = <<>>
      BY <3>1 DEF ToSet
    <3>2. CASE \E problem : found = <<problem>> /\ problem.Location = location
      BY <3>2 DEF ToSet
    <3> HIDE DEF found, location
    <3> QED BY <3>1, <3>2, AccessReportsHere DEF found
  <2>7. location \in {<<name, j>> : j \in 1 .. i + 1}
    OBVIOUS
  <2>8. LocatedUpTo(next.problems, name, i + 1)
    <3> HIDE DEF found, location
    <3> QED BY <1>3, <2>5, <2>6, <2>7 DEF LocatedUpTo
  <2> QED BY <1>1, <1>2, <2>1, <2>4, <2>8
<1>7. CASE Evaluate(action.If, run.state) /\ action.Kind = "FunctionCall"
  <2>1. <<action.Function, action.Params>> \in Calls
    BY <1>7 DEF ProcessedActions, FunctionCallActions, VarDeclaredActions, VarAssignedActions,
                ArrayIndexAccessActions, Calls
  <2>2. /\ next.calls = run.calls
            \/ next.calls = run.calls \cup {<<action.Function, action.Params>>}
        /\ next = [state |-> run.state, problems |-> run.problems, calls |-> next.calls]
    BY <1>d, <1>7
  <2>3. next.calls \in SUBSET Calls /\ run.calls \subseteq next.calls
    BY <1>1, <2>1, <2>2
  <2>4. next.problems = run.problems
    BY <2>2
  <2> QED BY <1>1, <1>2, <1>3, <2>2, <2>3, <2>4
<1>8. action.Kind \in {"VarDeclared", "VarAssigned", "ArrayIndexAccess", "FunctionCall"}
  BY DEF ProcessedActions, FunctionCallActions, VarDeclaredActions, VarAssignedActions,
         ArrayIndexAccessActions
<1> QED BY <1>4, <1>5, <1>6, <1>7, <1>8

\* Every run has its type, reports where its actions are, and forgets no call.
LEMMA RunShape ==
    ASSUME NEW blocks, IsRegistry(blocks), NEW call \in Calls, call[1] \in DOMAIN blocks
    PROVE  LET n == Len(blocks[call[1]].Actions)
               run == RunUpTo(blocks, call)
           IN
           /\ n \in Nat
           /\ \A i \in 0 .. n : run[i] \in Runs /\ LocatedUpTo(run[i].problems, call[1], i)
           /\ \A i \in 0 .. n : run[i].calls \subseteq run[n].calls
<1> DEFINE name == call[1]
           n == Len(blocks[name].Actions)
           run == RunUpTo(blocks, call)
           Shaped(i) == run[i] \in Runs /\ LocatedUpTo(run[i].problems, name, i)
<1>1. /\ name \in FunctionNames /\ call[2] \in ArgumentLists
      /\ blocks[name].Actions \in Seq(ProcessedActions)
  BY DEF IsRegistry, CodeBlocks, Calls
<1>2. n \in Nat /\ \A i \in 1 .. n : blocks[name].Actions[i] \in ProcessedActions
  BY <1>1
<1>3. /\ run[0] = Entry(blocks, call)
      /\ \A i \in 1 .. n : run[i] = Perform(blocks, run[i - 1], blocks[name].Actions[i], <<name, i>>)
  BY <1>2, RunSteps
<1>4. Shaped(0)
  <2>1. EntryState(blocks[name], call[2]) \in Values
    BY <1>1, EntryStateType, ProgramAssumption
  <2>2. ToSet(<<>>) = {} /\ <<>> \in Seq(FoundProblems)
    BY DEF ToSet
  <2>3. Entry(blocks, call) \in Runs
    BY <2>1, <2>2 DEF Entry, Runs
  <2>4. Entry(blocks, call).problems = <<>>
    BY DEF Entry
  <2> HIDE DEF run, name
  <2> QED BY <1>3, <2>2, <2>3, <2>4 DEF LocatedUpTo
<1> HIDE DEF run, name, n
<1>5. \A i \in Nat : i + 1 \in 1 .. n /\ Shaped(i) =>
            Shaped(i + 1) /\ run[i].calls \subseteq run[i + 1].calls
  <2> SUFFICES ASSUME NEW i \in Nat, i + 1 \in 1 .. n, Shaped(i)
               PROVE  Shaped(i + 1) /\ run[i].calls \subseteq run[i + 1].calls
    OBVIOUS
  <2>1. run[i + 1] = Perform(blocks, run[i], blocks[name].Actions[i + 1], <<name, i + 1>>)
    <3>1. (i + 1) - 1 = i
      OBVIOUS
    <3> QED BY <1>3, <3>1
  <2>2. blocks[name].Actions[i + 1] \in ProcessedActions
    BY <1>2
  <2> QED BY <1>1, <2>1, <2>2, PerformType
<1>6. \A i \in 0 .. n : Shaped(i)
  <2> DEFINE S == {i \in Nat : i \in 0 .. n => Shaped(i)}
  <2> HIDE DEF Shaped
  <2>1. 0 \in S
    BY <1>4
  <2>2. ASSUME NEW i \in Nat, i \in S PROVE i + 1 \in S
    <3>1. i + 1 \in 0 .. n => i + 1 \in 1 .. n /\ i \in 0 .. n
      BY <1>2
    <3> QED BY <1>5, <2>2, <3>1
  <2> HIDE DEF S
  <2>3. Nat \subseteq S
    BY <2>1, <2>2, Induction
  <2> QED BY <1>2, <2>3 DEF S
<1>7. \A i \in 0 .. n : run[i].calls \subseteq run[n].calls
  <2> DEFINE S == {k \in Nat : k \in 0 .. n => \A i \in 0 .. k : run[i].calls \subseteq run[k].calls}
  <2> HIDE DEF Shaped
  <2>1. 0 \in S
    OBVIOUS
  <2>2. ASSUME NEW k \in Nat, k \in S PROVE k + 1 \in S
    <3>1. k + 1 \in 0 .. n => k + 1 \in 1 .. n /\ k \in 0 .. n
      BY <1>2
    <3>2. \A i \in 0 .. k + 1 : i = k + 1 \/ i \in 0 .. k
      OBVIOUS
    <3> QED BY <1>5, <1>6, <2>2, <3>1, <3>2
  <2> HIDE DEF S
  <2>3. Nat \subseteq S
    BY <2>1, <2>2, Induction
  <2>4. n \in S /\ n \in 0 .. n
    BY <1>2, <2>3
  <2> QED BY <2>4 DEF S
<1> QED BY <1>2, <1>6, <1>7 DEF run, name, n

----------------------------------------------------------------------------
(* Problems and the reports they come from.                                *)

\* Each problem comes from one report, and each report gives one problem.
Matched(problems, reports) ==
    \E order \in Bijection(1 .. Len(problems), reports) :
        \A k \in 1 .. Len(problems) : order[k][2] = problems[k]

LEMMA MatchedNothing == Matched(<<>>, {})
<1> DEFINE order == [k \in 1 .. 0 |-> {}]
<1>1. order \in Bijection(1 .. 0, {})
  BY DEF Bijection, Injection, Surjection, IsInjective
<1> QED BY <1>1 DEF Matched

LEMMA MatchedMore ==
    ASSUME NEW S, NEW problems \in Seq(S), NEW reports, Matched(problems, reports),
           NEW call, NEW problem, <<call, problem>> \notin reports
    PROVE  Matched(problems \o <<problem>>, reports \cup {<<call, problem>>})
<1> DEFINE n == Len(problems)
           report == <<call, problem>>
           T == S \cup {problem}
           more == problems \o <<problem>>
<1>1. PICK order \in Bijection(1 .. n, reports) : \A k \in 1 .. n : order[k][2] = problems[k]
  BY DEF Matched
<1>2. n \in Nat /\ problems \in Seq(T) /\ <<problem>> \in Seq(T) /\ Len(<<problem>>) = 1
      /\ <<problem>>[1] = problem
  BY SeqMonotonic
<1>3. /\ Len(more) = n + 1
      /\ \A k \in 1 .. n + 1 : more[k] = IF k <= n THEN problems[k] ELSE <<problem>>[k - n]
  <2> HIDE DEF T
  <2> QED BY <1>2, ConcatProperties
<1> DEFINE longer == [k \in 1 .. n + 1 |-> IF k <= n THEN order[k] ELSE report]
<1> HIDE DEF T, more, n, report
<1>4. \A k \in 1 .. n + 1 : k \in 1 .. n \/ (k = n + 1 /\ ~(k <= n) /\ k - n = 1)
  BY <1>2
<1>5. \A k \in 1 .. n : k <= n /\ k \in 1 .. n + 1 /\ k # n + 1
  BY <1>2
<1>6. /\ order \in [1 .. n -> reports]
      /\ \A i, j \in 1 .. n : order[i] = order[j] => i = j
      /\ \A r \in reports : \E k \in 1 .. n : order[k] = r
  BY <1>1 DEF Bijection, Injection, Surjection, IsInjective
<1>7. /\ \A k \in 1 .. n : longer[k] = order[k]
      /\ longer[n + 1] = report /\ n + 1 \in 1 .. n + 1
  BY <1>2, <1>5
<1>8. longer \in [1 .. n + 1 -> reports \cup {report}]
  BY <1>6
<1> HIDE DEF longer
<1>9. \A i, j \in 1 .. n + 1 : longer[i] = longer[j] => i = j
  <2>1. report \notin reports
    BY DEF report
  <2>2. \A k \in 1 .. n : longer[k] \in reports
    BY <1>6, <1>7
  <2> QED BY <1>4, <1>6, <1>7, <2>1, <2>2
<1>10. \A r \in reports \cup {report} : \E k \in 1 .. n + 1 : longer[k] = r
  BY <1>5, <1>6, <1>7
<1>11. longer \in Bijection(1 .. n + 1, reports \cup {report})
  BY <1>8, <1>9, <1>10 DEF Bijection, Injection, Surjection, IsInjective
<1>12. \A k \in 1 .. n + 1 : longer[k][2] = more[k]
  <2>1. report[2] = problem
    BY DEF report
  <2>2. more[n + 1] = problem
    BY <1>2, <1>3, <1>4, <1>7
  <2>3. \A k \in 1 .. n : more[k] = problems[k]
    BY <1>3, <1>5
  <2> QED BY <1>1, <1>4, <1>7, <2>1, <2>2, <2>3 DEF n
<1> QED BY <1>3, <1>11, <1>12 DEF Matched, more, report

Occurrences(problems, problem) == {i \in DOMAIN problems : problems[i] = problem}
ReportsWith(reports, problem) == {report \in reports : report[2] = problem}

\* Matched problems occur as often as they are reported.
LEMMA MatchedCount ==
    ASSUME NEW S, NEW problems \in Seq(S), NEW reports, Matched(problems, reports), NEW problem
    PROVE  Cardinality(Occurrences(problems, problem))
                = Cardinality(ReportsWith(reports, problem))
<1> DEFINE places == {i \in 1 .. Len(problems) : problems[i] = problem}
           those == {report \in reports : report[2] = problem}
<1>1. PICK order \in Bijection(1 .. Len(problems), reports) :
            \A k \in 1 .. Len(problems) : order[k][2] = problems[k]
  BY DEF Matched
<1>2. /\ order \in [1 .. Len(problems) -> reports]
      /\ \A i, j \in 1 .. Len(problems) : order[i] = order[j] => i = j
      /\ \A r \in reports : \E k \in 1 .. Len(problems) : order[k] = r
  BY <1>1 DEF Bijection, Injection, Surjection, IsInjective
<1> DEFINE part == [k \in places |-> order[k]]
<1>3. part \in [places -> those]
  BY <1>1, <1>2
<1>4. \A i, j \in places : part[i] = part[j] => i = j
  BY <1>2
<1>5. \A r \in those : \E k \in places : part[k] = r
  BY <1>1, <1>2
<1>6. part \in Bijection(places, those)
  <2> HIDE DEF part, places, those
  <2> QED BY <1>3, <1>4, <1>5 DEF Bijection, Injection, Surjection, IsInjective
<1>7. IsFiniteSet(places)
  <2>1. Len(problems) \in Nat /\ places \subseteq 1 .. Len(problems)
    OBVIOUS
  <2> HIDE DEF places
  <2>2. IsFiniteSet(1 .. Len(problems))
    BY <2>1, FS_Interval
  <2> QED BY <2>1, <2>2, FS_Subset
<1>8. Cardinality(those) = Cardinality(places)
  <2> HIDE DEF part, places, those
  <2> QED BY <1>6, <1>7, FS_Bijection DEF ExistsBijection
<1>9. DOMAIN problems = 1 .. Len(problems)
  OBVIOUS
<1> QED BY <1>8, <1>9 DEF Occurrences, ReportsWith

----------------------------------------------------------------------------
(* The inductive invariant: the running operation is where its call's run  *)
(* is, and what was called and reported is what the runs call and report.  *)

Current == CallOf(Head(toCheck))
RunHere == RunUpTo(FunctionBlocks, Current)[step - 1]

AsRun ==
    Running =>
        /\ step <= Len(Actions) + 1
        /\ State = RunHere.state
        /\ RunHere.calls \subseteq called
AnalysedAsRun == \A call \in analysed : RunOf(call).calls \subseteq called
EntryCalled ==
    /\ phase = "parsed" => Problems = <<>>
    /\ phase = "analysing" \/ called # {} => <<Main, MainParams>> \in called
OnlyNeeded == \A calls : IsClosed(calls) => called \subseteq calls

Finished == UNION {ReportsOf(call) : call \in analysed}
Reported(call, problems) == {<<call, problem>> : problem \in ToSet(problems)}
Reports == IF Running THEN Finished \cup Reported(Current, RunHere.problems) ELSE Finished
ProblemsReported == called # {} => Matched(Problems, Reports)

ResultInv ==
    /\ AsRun
    /\ AnalysedAsRun
    /\ EntryCalled
    /\ OnlyNeeded
    /\ ProblemsReported

LEMMA CurrentType ==
    ASSUME Inv, Running
    PROVE  /\ Head(toCheck) \in Operations
           /\ Current \in Calls
           /\ Current[1] = Head(toCheck).CurrentFunction
           /\ Current[2] = Head(toCheck).Params
           /\ Current[1] \in DOMAIN FunctionBlocks
           /\ Current \in called
           /\ Current \notin analysed
           /\ Actions = FunctionBlocks[Current[1]].Actions
           /\ Here = <<Current[1], step>>
           /\ Pending[1] = Head(toCheck) /\ 1 \in 1 .. Len(Pending)
<1>1. /\ Head(toCheck) \in Operations /\ toCheck # <<>>
      /\ Pending \in Seq(Operations) /\ Pending # <<>> /\ Pending[1] = Head(toCheck)
  BY ActionType, PendingType DEF Inv, Running
<1>2. 1 \in 1 .. Len(Pending)
  BY <1>1, EmptySeq, LenProperties
<1>3. /\ Current = <<Head(toCheck).CurrentFunction, Head(toCheck).Params>>
      /\ Current \in Calls
      /\ Current \in PendingCalls
  BY <1>1, <1>2 DEF Current, CallOf, Operations, Calls, PendingCalls
<1>4. Head(toCheck).CurrentFunction \in DOMAIN FunctionBlocks
  BY <1>1, <1>2 DEF Inv, PendingKnown
<1>5. Current \in called /\ Current \notin analysed
  BY <1>3 DEF Inv, CallsKept, AnalysedOnce
<1> QED BY <1>1, <1>2, <1>3, <1>4, <1>5 DEF Actions, Here

LEMMA RunHereType ==
    ASSUME Inv, AsRun, Running
    PROVE  /\ Len(Actions) \in Nat /\ step \in 1 .. Len(Actions) + 1
           /\ RunHere \in Runs
           /\ LocatedUpTo(RunHere.problems, Current[1], step - 1)
<1>1. /\ Current \in Calls /\ Current[1] \in DOMAIN FunctionBlocks
      /\ Actions = FunctionBlocks[Current[1]].Actions
  BY CurrentType
<1>2. IsRegistry(FunctionBlocks) /\ step \in Nat \ {0} /\ step <= Len(Actions) + 1
  BY DEF Inv, TypeOK, AsRun
<1> DEFINE n == Len(FunctionBlocks[Current[1]].Actions)
           run == RunUpTo(FunctionBlocks, Current)
<1>3. /\ n \in Nat
      /\ \A i \in 0 .. n : run[i] \in Runs /\ LocatedUpTo(run[i].problems, Current[1], i)
  BY <1>1, <1>2, RunShape
<1> HIDE DEF run
<1>4. step - 1 \in 0 .. n /\ step \in 1 .. n + 1
  BY <1>1, <1>2, <1>3
<1> QED BY <1>1, <1>3, <1>4 DEF RunHere, run

\* The run of the running operation's call goes on with the operation's action.
RunNext == RunUpTo(FunctionBlocks, Current)[step]

LEMMA RunNextType ==
    ASSUME Inv, AsRun, Running, step <= Len(Actions)
    PROVE  /\ RunNext = Perform(FunctionBlocks, RunHere, Action, Here)
           /\ RunNext.calls \subseteq RunOf(Current).calls
           /\ Action \in ProcessedActions
<1>1. /\ Current \in Calls /\ Current[1] \in DOMAIN FunctionBlocks
      /\ Actions = FunctionBlocks[Current[1]].Actions /\ Here = <<Current[1], step>>
  BY CurrentType
<1>2. IsRegistry(FunctionBlocks) /\ step \in Nat \ {0}
  BY DEF Inv, TypeOK
<1> DEFINE n == Len(FunctionBlocks[Current[1]].Actions)
           run == RunUpTo(FunctionBlocks, Current)
<1>3. /\ n \in Nat
      /\ \A i \in 0 .. n : run[i].calls \subseteq run[n].calls
  BY <1>1, <1>2, RunShape
<1>4. \A i \in 1 .. n : run[i] = Perform(FunctionBlocks, run[i - 1],
                                         FunctionBlocks[Current[1]].Actions[i], <<Current[1], i>>)
  BY <1>3, RunSteps
<1> HIDE DEF run
<1>5. step \in 1 .. n /\ step \in 0 .. n
  BY <1>1, <1>2, <1>3
<1>6. Action \in ProcessedActions
  BY ActionType DEF Inv
<1> QED BY <1>1, <1>3, <1>4, <1>5, <1>6 DEF RunHere, RunNext, RunOf, run, Action

\* An operation that starts is at the beginning of its call's run.
LEMMA StartsAsRun ==
    Inv /\ Running /\ step = 1 =>
        /\ step <= Len(Actions) + 1
        /\ State = RunHere.state
        /\ RunHere.calls = {}
        /\ RunHere.problems = <<>>
<1> SUFFICES ASSUME Inv, Running, step = 1
             PROVE  /\ step <= Len(Actions) + 1
                    /\ State = RunHere.state
                    /\ RunHere.calls = {}
                    /\ RunHere.problems = <<>>
  OBVIOUS
<1>1. /\ Current[1] = Head(toCheck).CurrentFunction /\ Current[2] = Head(toCheck).Params
      /\ Actions = FunctionBlocks[Current[1]].Actions
      /\ Pending[1] = Head(toCheck) /\ 1 \in 1 .. Len(Pending)
  BY CurrentType
<1>2. Len(Actions) \in Nat
  BY ActionsType, LenProperties DEF Inv
<1>3. RunHere = Entry(FunctionBlocks, Current)
  <2>1. RunUpTo(FunctionBlocks, Current)[0] = Entry(FunctionBlocks, Current)
    BY <1>1, <1>2, RunSteps
  <2>2. step - 1 = 0
    OBVIOUS
  <2> QED BY <2>1, <2>2 DEF RunHere
<1>4. State = EntryState(FunctionBlocks[Current[1]], Current[2])
  BY <1>1 DEF Inv, StartsFresh, IsFresh, State
<1> QED BY <1>2, <1>3, <1>4 DEF Entry

\* Runs, and what is closed, depend on the program alone.
LEMMA RunsKept ==
    ASSUME FunctionBlocks' = FunctionBlocks
    PROVE  /\ \A call : RunOf(call)' = RunOf(call)
           /\ \A call : ReportsOf(call)' = ReportsOf(call)
           /\ \A calls : IsClosed(calls)' <=> IsClosed(calls)
           /\ MainParams' = MainParams
<1>1. \A call : RunOf(call)' = RunOf(call)
  BY DEF RunOf
<1>2. \A call : ReportsOf(call)' = ReportsOf(call)
  BY DEF ReportsOf, RunOf
<1>3. MainParams' = MainParams
  BY DEF MainParams
<1>4. \A calls : IsClosed(calls)' <=> IsClosed(calls)
  BY <1>3 DEF IsClosed, RunOf
<1> QED BY <1>1, <1>2, <1>3, <1>4

\* An action of an operation that does what the run of its call does next.
LEMMA Onward ==
    ASSUME Inv, ResultInv, Running, step <= Len(Actions), step' = step + 1,
           UNCHANGED <<FunctionBlocks, phase, analysed>>,
           toCheck' # <<>>, CallOf(Head(toCheck')) = Current,
           Head(toCheck').CurrentFunction = Head(toCheck).CurrentFunction,
           State' = RunNext.state,
           called' = called \cup RunNext.calls,
           Matched(Problems', Finished \cup Reported(Current, RunNext.problems))
    PROVE  ResultInv'
<1>1. Running' /\ Current' = Current /\ Actions' = Actions
  BY DEF Running, Current, Actions
<1>2. step \in Nat /\ step' - 1 = step /\ Len(Actions) \in Nat
  BY ActionsType, LenProperties DEF Inv, TypeOK
<1>3. RunHere' = RunNext
  BY <1>1, <1>2 DEF RunHere, RunNext
<1>4. AsRun'
  <2>1. step' <= Len(Actions) + 1
    BY <1>2
  <2>2. RunHere'.calls \subseteq called'
    BY <1>3
  <2> QED BY <1>1, <1>3, <2>1, <2>2 DEF AsRun
<1>5. AnalysedAsRun'
  BY RunsKept DEF ResultInv, AnalysedAsRun, RunOf
<1>6. EntryCalled'
  BY RunsKept DEF ResultInv, EntryCalled, Running
<1>7. OnlyNeeded'
  <2> SUFFICES ASSUME NEW calls, IsClosed(calls)' PROVE called' \subseteq calls
    BY DEF OnlyNeeded
  <2>1. IsClosed(calls)
    BY RunsKept
  <2>2. called \subseteq calls
    BY <2>1 DEF ResultInv, OnlyNeeded
  <2>3. Current \in called
    BY CurrentType
  <2>4. RunNext.calls \subseteq RunOf(Current).calls
    BY RunNextType DEF ResultInv
  <2> QED BY <2>1, <2>2, <2>3, <2>4 DEF IsClosed
<1>8. ProblemsReported'
  <2>1. Finished' = Finished
    BY DEF Finished, ReportsOf, RunOf
  <2>2. Reports' = Finished \cup Reported(Current, RunNext.problems)
    BY <1>1, <1>3, <2>1 DEF Reports, Reported
  <2> QED BY <2>2 DEF ProblemsReported
<1> QED BY <1>4, <1>5, <1>6, <1>7, <1>8 DEF ResultInv

\* What is reported while nothing new is.
LEMMA StillReported ==
    ASSUME Inv, ResultInv, Running, Problems' = Problems, RunNext.problems = RunHere.problems
    PROVE  Matched(Problems', Finished \cup Reported(Current, RunNext.problems))
<1>1. called # {}
  BY DEF ResultInv, EntryCalled, Running
<1> QED BY <1>1 DEF ResultInv, ProblemsReported, Reports

LEMMA SkipResult == Inv /\ ResultInv /\ SkipAction => ResultInv'
<1> SUFFICES ASSUME Inv, ResultInv, SkipAction PROVE ResultInv'
  OBVIOUS
<1>1. /\ Running /\ step <= Len(Actions) /\ ~Evaluate(Action.If, State) /\ step' = step + 1
      /\ UNCHANGED <<FunctionBlocks, phase, toCheck, FoundCalls,
                     RecordedFunctionCalls, Problems, called, analysed>>
  BY DEF SkipAction
<1>2. AsRun /\ State = RunHere.state /\ RunHere.calls \subseteq called
  BY <1>1 DEF ResultInv, AsRun
<1>3. RunNext = RunHere
  BY <1>1, <1>2, RunNextType, PerformSkipped
<1>4. State' = State /\ called' = called \cup RunNext.calls
  BY <1>1, <1>2, <1>3 DEF State
<1>5. Matched(Problems', Finished \cup Reported(Current, RunNext.problems))
  BY <1>1, <1>3, StillReported
<1>6. /\ toCheck' # <<>> /\ CallOf(Head(toCheck')) = Current
      /\ Head(toCheck').CurrentFunction = Head(toCheck).CurrentFunction
  BY <1>1 DEF Running, Current
<1> QED BY <1>1, <1>2, <1>3, <1>4, <1>5, <1>6, Onward

\* A stored value is the one the run has stored.
LEMMA ValueResult ==
    ASSUME Inv, ResultInv, Running, step <= Len(Actions), Evaluate(Action.If, State),
           Action.Kind \in {"VarDeclared", "VarAssigned"},
           SetVariable(Action.Variable, Resolve(State, Action.State)), step' = step + 1,
           UNCHANGED <<FunctionBlocks, phase, FoundCalls, RecordedFunctionCalls,
                       Problems, called, analysed>>
    PROVE  ResultInv'
<1> DEFINE values == [State EXCEPT ![Action.Variable] = Resolve(State, Action.State)]
           first == [Head(toCheck) EXCEPT !.State[Action.Variable] = Resolve(State, Action.State)]
<1>1. AsRun /\ State = RunHere.state /\ RunHere.calls \subseteq called
  BY DEF ResultInv, AsRun
<1>2. RunHere \in Runs /\ RunNext = Perform(FunctionBlocks, RunHere, Action, Here)
  BY <1>1, RunHereType, RunNextType
<1>3. RunNext = [state |-> values, problems |-> RunHere.problems, calls |-> RunHere.calls]
  BY <1>1, <1>2, PerformValue, SMTT(40)
<1>4. /\ toCheck \in Seq(Operations) /\ toCheck # <<>> /\ Head(toCheck) = toCheck[1]
      /\ Len(toCheck) \in Nat /\ Len(toCheck) > 0 /\ Head(toCheck) \in Operations
  BY HeadTailProperties, EmptySeq, LenProperties DEF Inv, TypeOK, Running
<1>5. /\ Action.Variable \in Vars /\ Resolve(State, Action.State) \in ResolvedStates
  <2>1. Action \in ProcessedActions /\ State \in Values
    BY <1>1, RunNextType, ActionType DEF Inv
  <2>2. Action.Variable \in Vars /\ Action.State \in Expressions
    BY <2>1 DEF ProcessedActions, FunctionCallActions, VarDeclaredActions, VarAssignedActions,
                ArrayIndexAccessActions, Expressions, Sums, Atoms, ResolvedStates
  <2> QED BY <2>1, <2>2, ResolveType
<1>6. /\ first \in Operations /\ CallOf(first) = Current /\ first.State = values
      /\ first.CurrentFunction = Head(toCheck).CurrentFunction
  BY <1>4, <1>5 DEF Operations, CallOf, Current, State
<1>7. toCheck' = [toCheck EXCEPT ![1] = first]
  BY <1>4 DEF SetVariable
<1> HIDE DEF first, values
<1>8. toCheck' # <<>> /\ Head(toCheck') = first
  <2>1. toCheck' \in Seq(Operations) /\ Len(toCheck') = Len(toCheck) /\ toCheck'[1] = first
    BY <1>4, <1>6, <1>7, ExceptSeq
  <2>2. toCheck' # <<>>
    BY <1>4, <2>1, EmptySeq
  <2> QED BY <2>1, <2>2, HeadTailProperties
<1>9. State' = RunNext.state /\ RunNext.problems = RunHere.problems
      /\ called' = called \cup RunNext.calls
  BY <1>1, <1>3, <1>6, <1>8 DEF State
<1>10. Matched(Problems', Finished \cup Reported(Current, RunNext.problems))
  BY <1>9, StillReported
<1> QED BY <1>1, <1>6, <1>8, <1>9, <1>10, Onward

LEMMA CallResult == Inv /\ ResultInv /\ HandleFunctionCall => ResultInv'
<1> SUFFICES ASSUME Inv, ResultInv, HandleFunctionCall PROVE ResultInv'
  OBVIOUS
<1> DEFINE call == <<Action.Function, Action.Params>>
<1>1. /\ Running /\ step <= Len(Actions) /\ Action.Kind = "FunctionCall"
      /\ Evaluate(Action.If, State) /\ step' = step + 1
      /\ UNCHANGED <<FunctionBlocks, phase, toCheck, Problems, analysed>>
  BY DEF HandleFunctionCall, Dispatches
<1>2. called' = IF Analysable(FunctionBlocks, Action) THEN called \cup {call} ELSE called
  BY DEF HandleFunctionCall, Analysable, FindFunction
<1>3. AsRun /\ State = RunHere.state /\ RunHere.calls \subseteq called
  BY <1>1 DEF ResultInv, AsRun
<1>4. RunHere \in Runs /\ RunNext = Perform(FunctionBlocks, RunHere, Action, Here)
  BY <1>1, <1>3, RunHereType, RunNextType
<1>5. RunNext = [state |-> RunHere.state, problems |-> RunHere.problems,
                 calls |-> IF Analysable(FunctionBlocks, Action)
                           THEN RunHere.calls \cup {call} ELSE RunHere.calls]
  BY <1>1, <1>3, <1>4, PerformCall
<1>6. State' = RunNext.state /\ RunNext.problems = RunHere.problems
      /\ called' = called \cup RunNext.calls
  BY <1>1, <1>2, <1>3, <1>5 DEF State
<1>7. Matched(Problems', Finished \cup Reported(Current, RunNext.problems))
  BY <1>1, <1>6, StillReported
<1>8. /\ toCheck' # <<>> /\ CallOf(Head(toCheck')) = Current
      /\ Head(toCheck').CurrentFunction = Head(toCheck).CurrentFunction
  BY <1>1 DEF Running, Current
<1> QED BY <1>1, <1>3, <1>6, <1>7, <1>8, Onward

\* A reached access reports what its run reports, and nobody reported before: the
\* call was not analysed yet, and its run has not been at this action.
LEMMA AccessResult == Inv /\ ResultInv /\ HandleArrayIndexAccess => ResultInv'
<1> SUFFICES ASSUME Inv, ResultInv, HandleArrayIndexAccess PROVE ResultInv'
  OBVIOUS
<1> DEFINE found == AccessProblems(Action, State, Here)
<1>1. /\ Running /\ step <= Len(Actions) /\ Action.Kind = "ArrayIndexAccess"
      /\ Evaluate(Action.If, State) /\ step' = step + 1
      /\ Problems' = Problems \o found
      /\ UNCHANGED <<FunctionBlocks, phase, toCheck, called, analysed>>
  BY DEF HandleArrayIndexAccess, Dispatches
<1>2. AsRun /\ State = RunHere.state /\ RunHere.calls \subseteq called
  BY <1>1 DEF ResultInv, AsRun
<1>3. /\ RunHere \in Runs /\ RunNext = Perform(FunctionBlocks, RunHere, Action, Here)
      /\ LocatedUpTo(RunHere.problems, Current[1], step - 1)
      /\ step \in Nat
  BY <1>1, <1>2, RunHereType, RunNextType DEF Inv, TypeOK
<1>4. RunNext = Reporting(RunHere, found)
  BY <1>1, <1>2, <1>3, PerformAccess
<1> HIDE DEF found
<1>5. RunNext.state = RunHere.state /\ RunNext.calls = RunHere.calls
      /\ RunNext.problems = RunHere.problems \o found
  BY <1>4 DEF Reporting
<1>6. State' = RunNext.state /\ called' = called \cup RunNext.calls
  BY <1>1, <1>2, <1>5 DEF State
<1>7. /\ toCheck' # <<>> /\ CallOf(Head(toCheck')) = Current
      /\ Head(toCheck').CurrentFunction = Head(toCheck).CurrentFunction
  BY <1>1 DEF Running, Current
<1>8. Matched(Problems, Finished \cup Reported(Current, RunHere.problems))
  <2>1. called # {}
    BY <1>1 DEF ResultInv, EntryCalled, Running
  <2> QED BY <1>1, <2>1 DEF ResultInv, ProblemsReported, Reports
<1>9. Problems \in Seq(FoundProblems) /\ RunHere.problems \in Seq(FoundProblems)
  BY <1>3 DEF Inv, TypeOK, Runs
<1>10. Matched(Problems', Finished \cup Reported(Current, RunNext.problems))
  <2>1. CASE found = <<>>
    <3>1. Problems' = Problems /\ RunNext.problems = RunHere.problems
      BY <1>1, <1>5, <1>9, <2>1, ConcatEmptySeq
    <3> QED BY <1>1, <3>1, StillReported
  <2>2. ASSUME NEW problem, found = <<problem>>, problem.Location = Here
        PROVE  Matched(Problems', Finished \cup Reported(Current, RunNext.problems))
    <3>1. found \in Seq(FoundProblems)
      <4>1. Here \in FunctionNames \X Nat
        BY <1>1, <1>3, CurrentType DEF Calls
      <4> QED BY <4>1, AccessProblemsType DEF found
    <3>2. ToSet(RunNext.problems) = ToSet(RunHere.problems) \cup ToSet(found)
      BY <1>5, <1>9, <3>1, ElementsOfConcat
    <3>3. ToSet(<<problem>>) = {problem}
      BY DEF ToSet
    <3>4. ToSet(RunNext.problems) = ToSet(RunHere.problems) \cup {problem}
      BY <2>2, <3>2, <3>3
    <3>5. Finished \cup Reported(Current, RunNext.problems) =
            (Finished \cup Reported(Current, RunHere.problems)) \cup {<<Current, problem>>}
      BY <3>4 DEF Reported
    <3>6. problem \notin ToSet(RunHere.problems)
      <4>1. Here = <<Current[1], step>>
        BY <1>1, CurrentType
      <4>2. Here \notin {<<Current[1], j>> : j \in 1 .. step - 1}
        BY <1>3, <4>1
      <4> QED BY <1>3, <2>2, <4>2 DEF LocatedUpTo
    <3>7. <<Current, problem>> \notin Finished
      <4>1. Current \notin analysed
        BY <1>1, CurrentType
      <4> QED BY <4>1 DEF Finished, ReportsOf
    <3>8. <<Current, problem>> \notin Finished \cup Reported(Current, RunHere.problems)
      BY <3>6, <3>7 DEF Reported
    <3> DEFINE reports == Finished \cup Reported(Current, RunHere.problems)
    <3> HIDE DEF reports
    <3>9. Matched(Problems \o <<problem>>, reports \cup {<<Current, problem>>})
      BY <1>8, <1>9, <3>8, MatchedMore DEF reports
    <3>10. Problems' = Problems \o <<problem>>
      BY <1>1, <2>2
    <3> QED BY <3>5, <3>9, <3>10, Zenon DEF reports
  <2>3. found = <<>> \/ \E problem : found = <<problem>> /\ problem.Location = Here
    BY AccessReportsHere DEF found
  <2> QED BY <2>1, <2>2, <2>3
<1> QED BY <1>1, <1>2, <1>6, <1>7, <1>10, Onward

\* The analysis begins with the entry point, of which nothing is done yet.
LEMMA BeginResult == Inv /\ Inv' /\ ResultInv /\ BeginAnalysis => ResultInv'
<1> SUFFICES ASSUME Inv, Inv', ResultInv, BeginAnalysis PROVE ResultInv'
  OBVIOUS
<1>1. /\ phase = "parsed" /\ phase' = "analysing"
      /\ toCheck' = <<NewOperation(Main, MainParams)>>
      /\ called' = {<<Main, MainParams>>}
      /\ UNCHANGED <<FunctionBlocks, FoundCalls, step, Problems, analysed>>
  BY DEF BeginAnalysis
<1>2. /\ step' = 1 /\ analysed' = {} /\ Problems' = <<>>
  BY <1>1 DEF Inv, Control, ResultInv, EntryCalled
<1>3. toCheck' # <<>>
  BY <1>1
<1>4. Running'
  BY <1>1, <1>3 DEF Running
<1>5. (/\ step <= Len(Actions) + 1
       /\ State = RunHere.state
       /\ RunHere.calls = {}
       /\ RunHere.problems = <<>>)'
  <2>1. (Inv /\ Running /\ step = 1 =>
            /\ step <= Len(Actions) + 1
            /\ State = RunHere.state
            /\ RunHere.calls = {}
            /\ RunHere.problems = <<>>)'
    BY StartsAsRun, PTL
  <2> QED BY <1>2, <1>4, <2>1
<1>6. AsRun'
  BY <1>5 DEF AsRun
<1>7. AnalysedAsRun'
  BY <1>2 DEF AnalysedAsRun
<1>8. EntryCalled'
  BY <1>1, RunsKept DEF EntryCalled
<1>9. OnlyNeeded'
  <2> SUFFICES ASSUME NEW calls, IsClosed(calls)' PROVE called' \subseteq calls
    BY DEF OnlyNeeded
  <2>1. IsClosed(calls)
    BY <1>1, RunsKept
  <2> QED BY <1>1, <2>1 DEF IsClosed
<1>10. ProblemsReported'
  <2>1. Finished' = {}
    BY <1>2 DEF Finished
  <2>2. ToSet(RunHere'.problems) = {}
    BY <1>5 DEF ToSet
  <2>3. Reports' = {}
    BY <1>4, <2>1, <2>2 DEF Reports, Reported
  <2> QED BY <1>2, <2>3, MatchedNothing DEF ProblemsReported
<1> QED BY <1>6, <1>7, <1>8, <1>9, <1>10 DEF ResultInv

\* An operation that is over has gone through its call's run, and the next one is at
\* the beginning of its own.
LEMMA EndResult == Inv /\ Inv' /\ ResultInv /\ EndOperation => ResultInv'
<1> SUFFICES ASSUME Inv, Inv', ResultInv, EndOperation PROVE ResultInv'
  OBVIOUS
<1>1. /\ Running /\ ~(step <= Len(Actions)) /\ step' = 1
      /\ analysed' = analysed \cup {Current}
      /\ UNCHANGED <<FunctionBlocks, phase, RecordedFunctionCalls, Problems, called>>
  <2>1. Running /\ step > Len(Actions)
    BY DEF EndOperation
  <2>2. Len(Actions) \in Nat /\ step \in Nat
    BY <2>1, ActionsType, LenProperties DEF Inv, TypeOK
  <2>3. ~(step <= Len(Actions))
    BY <2>1, <2>2
  <2> QED BY <2>1, <2>3 DEF EndOperation, Current
<1>2. /\ AsRun /\ RunHere.calls \subseteq called
      /\ Len(Actions) \in Nat /\ step \in 1 .. Len(Actions) + 1
  BY <1>1, RunHereType DEF ResultInv, AsRun
<1>3. RunHere = RunOf(Current)
  <2>1. step - 1 = Len(Actions)
    BY <1>1, <1>2
  <2>2. Actions = FunctionBlocks[Current[1]].Actions
    BY <1>1, CurrentType
  <2> QED BY <2>1, <2>2 DEF RunHere, RunOf
<1>4. (Running => /\ step <= Len(Actions) + 1
                  /\ State = RunHere.state
                  /\ RunHere.calls = {}
                  /\ RunHere.problems = <<>>)'
  <2>1. (Inv /\ Running /\ step = 1 =>
            /\ step <= Len(Actions) + 1
            /\ State = RunHere.state
            /\ RunHere.calls = {}
            /\ RunHere.problems = <<>>)'
    BY StartsAsRun, PTL
  <2> QED BY <1>1, <2>1
<1>5. AsRun'
  BY <1>4 DEF AsRun
<1>6. AnalysedAsRun'
  <2> SUFFICES ASSUME NEW call \in analysed' PROVE RunOf(call)'.calls \subseteq called'
    BY DEF AnalysedAsRun
  <2>1. RunOf(call)' = RunOf(call)
    BY <1>1, RunsKept
  <2> QED BY <1>1, <1>2, <1>3, <2>1 DEF ResultInv, AnalysedAsRun
<1>7. EntryCalled'
  BY <1>1, RunsKept DEF ResultInv, EntryCalled
<1>8. OnlyNeeded'
  BY <1>1, RunsKept DEF ResultInv, OnlyNeeded
<1>9. ProblemsReported'
  <2>1. Finished' = UNION {ReportsOf(call) : call \in analysed \cup {Current}}
    BY <1>1 DEF Finished, ReportsOf, RunOf
  <2>2. Finished' = Finished \cup Reported(Current, RunHere.problems)
    BY <1>3, <2>1 DEF Finished, ReportsOf, Reported
  <2>3. Running' => ToSet(RunHere'.problems) = {}
    BY <1>4 DEF ToSet
  <2>4. Reports' = Finished'
    BY <2>3 DEF Reports, Reported
  <2> QED BY <1>1, <2>2, <2>4 DEF ResultInv, ProblemsReported, Reports
<1> QED BY <1>5, <1>6, <1>7, <1>8, <1>9 DEF ResultInv

\* The analysis ends, or nothing happens: what was called and reported stays so.
LEMMA IdleResult ==
    ASSUME Inv, ResultInv,
           UNCHANGED <<FunctionBlocks, toCheck, step, called, analysed>>,
           called # {} => Problems' = Problems,
           Running' <=> Running, phase' = "returned" \/ phase' = phase,
           phase' = "parsed" => Problems' = Problems
    PROVE  ResultInv'
<1>1. Current' = Current /\ RunHere' = RunHere /\ Actions' = Actions /\ State' = State
  BY DEF Current, RunHere, Actions, State
<1>2. AsRun'
  BY <1>1 DEF ResultInv, AsRun
<1>3. AnalysedAsRun'
  BY RunsKept DEF ResultInv, AnalysedAsRun, RunOf
<1>4. EntryCalled'
  BY RunsKept DEF ResultInv, EntryCalled
<1>5. OnlyNeeded'
  BY RunsKept DEF ResultInv, OnlyNeeded
<1>6. ProblemsReported'
  <2>1. Finished' = Finished
    BY DEF Finished, ReportsOf, RunOf
  <2>2. Reports' = Reports
    BY <1>1, <2>1 DEF Reports, Reported
  <2> QED BY <2>2 DEF ResultInv, ProblemsReported
<1> QED BY <1>2, <1>3, <1>4, <1>5, <1>6 DEF ResultInv

LEMMA InitResult == Init => ResultInv
<1> SUFFICES ASSUME Init PROVE ResultInv
  OBVIOUS
<1>1. phase = "parsed" /\ called = {} /\ analysed = {} /\ Problems = <<>>
  BY DEF Init, Unstarted
<1> QED BY <1>1 DEF ResultInv, AsRun, Running, AnalysedAsRun, EntryCalled, OnlyNeeded,
                    ProblemsReported

LEMMA NextResult == Inv /\ Inv' /\ ResultInv /\ [Next]_vars => ResultInv'
<1> SUFFICES ASSUME Inv, Inv', ResultInv, [Next]_vars PROVE ResultInv'
  OBVIOUS
<1>1. CASE ReportNoMain \/ RejectEntryPoint
  <2>1. /\ phase = "parsed" /\ phase' = "returned"
        /\ UNCHANGED <<FunctionBlocks, toCheck, step, called, analysed>>
    BY <1>1 DEF ReportNoMain, RejectEntryPoint
  <2>2. called = {} /\ ~Running /\ ~Running'
    BY <2>1 DEF Inv, Control, Running
  <2> QED BY <2>1, <2>2, IdleResult
<1>2. CASE BeginAnalysis
  BY <1>2, BeginResult
<1>3. CASE HandleFunctionCall
  BY <1>3, CallResult
<1>4. CASE HandleVarDeclared
  BY <1>4, ValueResult DEF HandleVarDeclared, Dispatches
<1>5. CASE HandleVarAssigned
  BY <1>5, ValueResult DEF HandleVarAssigned, Dispatches
<1>6. CASE HandleArrayIndexAccess
  BY <1>6, AccessResult
<1>7. CASE SkipAction
  BY <1>7, SkipResult
<1>8. CASE EndOperation
  BY <1>8, EndResult
<1>9. CASE ReturnProblems
  <2>1. /\ toCheck = <<>> /\ phase' = "returned" /\ Problems' = Problems
        /\ UNCHANGED <<FunctionBlocks, toCheck, step, called, analysed>>
    BY <1>9 DEF ReturnProblems
  <2>2. ~Running /\ ~Running'
    BY <2>1 DEF Running
  <2> QED BY <2>1, <2>2, IdleResult
<1>10. CASE UNCHANGED vars
  <2>1. /\ phase' = phase /\ Problems' = Problems
        /\ UNCHANGED <<FunctionBlocks, toCheck, step, called, analysed>>
    BY <1>10 DEF vars
  <2>2. Running' <=> Running
    BY <2>1 DEF Running
  <2> QED BY <2>1, <2>2, IdleResult
<1>11. CASE Terminated
  BY <1>10, <1>11 DEF Terminated
<1> QED BY <1>1, <1>2, <1>3, <1>4, <1>5, <1>6, <1>7, <1>8, <1>9, <1>10, <1>11 DEF Next

----------------------------------------------------------------------------
(* The result.                                                             *)

\* When the analyzer returns, nothing runs, so every call that was made is analysed.
LEMMA ReturnedIsComplete == Inv /\ ResultInv => ResultIsComplete
<1> SUFFICES ASSUME Inv, ResultInv, phase = "returned", called # {}
    PROVE  LET reports == UNION {ReportsOf(call) : call \in analysed} IN
           /\ IsClosed(analysed)
           /\ \A calls \in SUBSET analysed : IsClosed(calls) => calls = analysed
           /\ \A problem \in ToSet(Problems) \cup {report[2] : report \in reports} :
                Cardinality({i \in DOMAIN Problems : Problems[i] = problem})
                    = Cardinality({report \in reports : report[2] = problem})
  BY DEF ResultIsComplete
<1>1. called = analysed
  BY NothingIsPending DEF NoCallLost
<1>2. IsClosed(analysed)
  BY <1>1 DEF ResultInv, AnalysedAsRun, EntryCalled, IsClosed
<1>3. ASSUME NEW calls \in SUBSET analysed, IsClosed(calls) PROVE calls = analysed
  BY <1>1, <1>3 DEF ResultInv, OnlyNeeded
<1>4. Matched(Problems, Finished) /\ Problems \in Seq(FoundProblems)
  BY DEF Inv, TypeOK, ResultInv, ProblemsReported, Reports, Running
<1>5. \A problem :
        Cardinality(Occurrences(Problems, problem))
            = Cardinality(ReportsWith(Finished, problem))
  BY <1>4, MatchedCount
<1> QED BY <1>2, <1>3, <1>5 DEF Finished, Occurrences, ReportsWith

\* The analyzer analyses exactly the calls that main leads to, and returns each
\* problem as often as calls among them report it, for every program.
THEOREM ResultIsAlwaysComplete == Spec => []ResultIsComplete
<1>1. Init => ResultInv
  BY InitResult
<1>2. Inv /\ Inv' /\ ResultInv /\ [Next]_vars => ResultInv'
  BY NextResult
<1> QED BY <1>1, <1>2, ReturnedIsComplete, Invariance, PTL DEF Spec
=============================================================================
