-------------------------- MODULE ExpressionProofs --------------------------
(***************************************************************************)
(* What the parsers of expressions promise, for every expression: that     *)
(* their results are what the visitors take, and mean what is written.     *)
(***************************************************************************)
EXTENDS ExpressionReference, ConditionProofs, DataLemmas

----------------------------------------------------------------------------
(* Visiting a tree.                                                        *)

\* With each tree, those inside of it.
HoldsItsParts(Trees) == \A e \in Trees : e.Children \in Seq(Trees)

\* What is inside of an expression is in the set.
LEMMA ExpressionsHoldTheirParts ==
    ASSUME NEW Trees, AreExpressions(Trees)
    PROVE  HoldsItsParts(Trees)
<1> SUFFICES ASSUME NEW e \in Trees PROVE e.Children \in Seq(Trees)
  BY DEF HoldsItsParts
<1>1. IsExpressionOver(e, Trees)
  BY DEF AreExpressions
<1>2. <<>> \in Seq(Trees)
  BY EmptySeq
<1>3. ASSUME NEW a \in Trees, NEW b \in Trees
      PROVE  <<a>> \in Seq(Trees) /\ <<a, b>> \in Seq(Trees)
  OBVIOUS
<1>4. CASE e = DeclRefExpr(e.Name) \/ e = IntegerLiteral(e.Bits, e.HalfRange)
  <2>1. e.Children = <<>>
    BY <1>4 DEF DeclRefExpr, IntegerLiteral
  <2> QED BY <1>2, <2>1
<1>5. CASE \E operand \in Trees : e = ToBoolean(operand) \/ e = UnaryOperator(e.Opcode, operand)
  <2>1. PICK operand \in Trees : e = ToBoolean(operand) \/ e = UnaryOperator(e.Opcode, operand)
    BY <1>5
  <2>2. e.Children = <<operand>>
    BY <2>1 DEF ToBoolean, UnaryOperator, Operator, Node
  <2> QED BY <1>3, <2>2
<1>6. CASE \E lhs, rhs \in Trees :
                e = ArraySubscriptExpr(lhs, rhs) \/ e = BinaryOperator(lhs, e.Opcode, rhs)
  <2>1. PICK lhs \in Trees, rhs \in Trees :
                e = ArraySubscriptExpr(lhs, rhs) \/ e = BinaryOperator(lhs, e.Opcode, rhs)
    BY <1>6
  <2>2. e.Children = <<lhs, rhs>>
    BY <2>1 DEF ArraySubscriptExpr, BinaryOperator, Operator, Node
  <2> QED BY <1>3, <2>2
<1> QED BY <1>1, <1>4, <1>5, <1>6 DEF IsExpressionOver

Visits(Trees) == [Nodes : Seq(Trees), Left : Seq(Trees)]
FirstVisit(e) == [Nodes |-> <<>>, Left |-> <<e>>]

\* A node at a time.
LEMMA NextVisitType ==
    ASSUME NEW Trees, HoldsItsParts(Trees), NEW visit \in Visits(Trees)
    PROVE  HandNext(visit) \in Visits(Trees)
<1>1. visit.Nodes \in Seq(Trees) /\ visit.Left \in Seq(Trees)
  BY DEF Visits
<1>2. CASE visit.Left = <<>>
  BY <1>2 DEF HandNext
<1>3. CASE visit.Left # <<>>
  <2> DEFINE first == Head(visit.Left)
             rest == Tail(visit.Left)
  <2>1. first \in Trees /\ rest \in Seq(Trees)
    BY <1>1, <1>3, HeadTailProperties
  <2>2. first.Children \in Seq(Trees)
    BY <2>1 DEF HoldsItsParts
  <2>3. first.Children \o rest \in Seq(Trees)
    <3> HIDE DEF first, rest
    <3> QED BY <2>1, <2>2, ConcatProperties
  <2>4. Append(visit.Nodes, first) \in Seq(Trees)
    <3> HIDE DEF first, rest
    <3> QED BY <1>1, <2>1, AppendProperties
  <2>5. HandNext(visit) = [Nodes |-> Append(visit.Nodes, first), Left |-> first.Children \o rest]
    BY <1>3 DEF HandNext
  <2> HIDE DEF first, rest
  <2> QED BY <2>3, <2>4, <2>5 DEF Visits
<1> QED BY <1>2, <1>3

\* What the recursive definition of a visit says.
LEMMA VisitSteps ==
    ASSUME NEW Trees, HoldsItsParts(Trees), NEW e \in Trees
    PROVE  /\ Visit(e)[0] = FirstVisit(e)
           /\ \A n \in Nat : Visit(e)[n] \in Visits(Trees)
           /\ \A n \in Nat : Visit(e)[n + 1] = HandNext(Visit(e)[n])
<1> DEFINE X == Visits(Trees)
           base == FirstVisit(e)
           step == [m \in Nat |-> [visit \in X |-> HandNext(visit)]]
           IsAfter(after) ==
                after = [n \in Nat |-> IF n = 0 THEN [Nodes |-> <<>>, Left |-> <<e>>]
                                       ELSE HandNext(after[n - 1])]
<1>1. base \in X
  <2>1. <<>> \in Seq(Trees) /\ <<e>> \in Seq(Trees)
    OBVIOUS
  <2> QED BY <2>1 DEF FirstVisit, Visits
<1> HIDE DEF X
<1>2. step \in [Nat -> [X -> X]]
  BY NextVisitType DEF X
<1>3. \A m \in Nat : \A visit \in X : step[m][visit] = HandNext(visit)
  OBVIOUS
<1>4. base = [Nodes |-> <<>>, Left |-> <<e>>]
  BY DEF FirstVisit
<1> HIDE DEF base, step, IsAfter
<1>5. PICK f \in [Nat -> X] : IsRecursiveOver(f, base, step)
  BY <1>1, <1>2, Recursion
<1>6. f[0] = base /\ \A m \in Nat : f[m + 1] = HandNext(f[m])
  BY <1>3, <1>5 DEF IsRecursiveOver
<1>7. IsAfter(f)
  <2>1. ASSUME NEW n \in Nat, n # 0 PROVE f[n] = HandNext(f[n - 1])
    <3>1. n - 1 \in Nat /\ (n - 1) + 1 = n
      BY <2>1
    <3> QED BY <1>6, <3>1
  <2>2. DOMAIN f = Nat
    BY <1>5
  <2> QED BY <1>4, <1>5, <1>6, <2>1, <2>2 DEF IsAfter
<1>8. Visit(e) = CHOOSE after : IsAfter(after)
  BY DEF Visit, IsAfter
<1>9. IsAfter(Visit(e))
  BY <1>7, <1>8
<1> DEFINE g == Visit(e)
<1>10. g = [n \in Nat |-> IF n = 0 THEN [Nodes |-> <<>>, Left |-> <<e>>]
                          ELSE HandNext(g[n - 1])]
  BY <1>9 DEF IsAfter
<1> HIDE DEF g
<1>11. g[0] = base
  BY <1>4, <1>10
<1>12. \A n \in Nat : g[n + 1] = HandNext(g[n])
  <2> SUFFICES ASSUME NEW n \in Nat PROVE g[n + 1] = HandNext(g[n])
    OBVIOUS
  <2>1. n + 1 \in Nat /\ n + 1 # 0 /\ (n + 1) - 1 = n
    OBVIOUS
  <2> QED BY <1>10, <2>1
<1>13. \A n \in Nat : g[n] \in X
  <2> DEFINE S == {n \in Nat : g[n] \in X}
  <2>1. 0 \in S
    BY <1>1, <1>11
  <2>2. \A n \in Nat : n \in S => n + 1 \in S
    BY <1>12, NextVisitType DEF X
  <2> HIDE DEF S
  <2>3. Nat \subseteq S
    BY <2>1, <2>2, Induction
  <2> QED BY <2>3 DEF S
<1> QED BY <1>11, <1>12, <1>13 DEF g, X, base

\* A visit that has nothing left is over.
LEMMA VisitEnds ==
    ASSUME NEW Trees, HoldsItsParts(Trees), NEW e \in Trees,
           NEW n \in Nat, Visit(e)[n].Left = <<>>, NEW m \in Nat, n <= m
    PROVE  Visit(e)[m] = Visit(e)[n]
<1> DEFINE S == {k \in Nat : Visit(e)[n + k] = Visit(e)[n]}
<1>1. 0 \in S
  OBVIOUS
<1>2. ASSUME NEW k \in Nat, k \in S PROVE k + 1 \in S
  <2>1. n + k \in Nat /\ n + (k + 1) = (n + k) + 1
    OBVIOUS
  <2>2. Visit(e)[(n + k) + 1] = HandNext(Visit(e)[n + k])
    BY <2>1, VisitSteps
  <2>3. Visit(e)[n + k] = Visit(e)[n]
    BY <1>2
  <2>4. HandNext(Visit(e)[n]) = Visit(e)[n]
    BY DEF HandNext
  <2> QED BY <2>1, <2>2, <2>3, <2>4
<1> HIDE DEF S
<1>3. Nat \subseteq S
  BY <1>1, <1>2, Induction
<1>4. m - n \in Nat /\ n + (m - n) = m
  OBVIOUS
<1> QED BY <1>3, <1>4 DEF S

\* The first node is the root.
LEMMA RootIsFirst ==
    ASSUME NEW Trees, HoldsItsParts(Trees), NEW e \in Trees, NEW n \in Nat \ {0}
    PROVE  /\ Visit(e)[n].Nodes \in Seq(Trees)
           /\ Len(Visit(e)[n].Nodes) >= 1
           /\ Visit(e)[n].Nodes[1] = e
<1> DEFINE IsRooted(nodes) == Len(nodes) >= 1 /\ nodes[1] = e
           S == {k \in Nat : IsRooted(Visit(e)[k + 1].Nodes)}
<1>1. \A k \in Nat : Visit(e)[k].Nodes \in Seq(Trees) /\ Visit(e)[k].Left \in Seq(Trees)
  BY VisitSteps DEF Visits
<1>2. 0 \in S
  <2>1. Visit(e)[0] = FirstVisit(e) /\ Visit(e)[0 + 1] = HandNext(Visit(e)[0])
    BY VisitSteps
  <2>2. HandNext(FirstVisit(e)).Nodes = <<e>>
    BY DEF FirstVisit, HandNext
  <2> QED BY <2>1, <2>2
<1>3. ASSUME NEW k \in Nat, k \in S PROVE k + 1 \in S
  <2> DEFINE visit == Visit(e)[k + 1]
  <2>1. k + 1 \in Nat /\ IsRooted(visit.Nodes)
    BY <1>3
  <2>2. visit.Nodes \in Seq(Trees) /\ visit.Left \in Seq(Trees)
    BY <1>1, <2>1
  <2>3. Visit(e)[(k + 1) + 1] = HandNext(visit)
    BY <2>1, VisitSteps
  <2> HIDE DEF visit
  <2>4. HandNext(visit).Nodes = visit.Nodes
            \/ HandNext(visit).Nodes = Append(visit.Nodes, Head(visit.Left))
    BY DEF HandNext
  <2>5. ASSUME NEW t PROVE IsRooted(Append(visit.Nodes, t))
    BY <2>1, <2>2
  <2>6. IsRooted(HandNext(visit).Nodes)
    BY <2>1, <2>4, <2>5
  <2> QED BY <2>3, <2>6
<1>4. n - 1 \in Nat /\ (n - 1) + 1 = n
  OBVIOUS
<1> HIDE DEF S
<1>5. n - 1 \in S
  BY <1>2, <1>3, <1>4, Induction
<1> HIDE DEF IsRooted
<1>6. IsRooted(Visit(e)[n].Nodes)
  BY <1>4, <1>5 DEF S
<1> QED BY <1>1, <1>6 DEF IsRooted

\* A sequence of two.
LEMMA PairAppend ==
    ASSUME NEW Trees, NEW first \in Trees, NEW second \in Trees
    PROVE  Append(<<first>>, second) = <<first, second>>
<1>1. <<first>> \in Seq(Trees) /\ Len(<<first>>) = 1
  OBVIOUS
<1>2. Append(<<first>>, second) = <<first>> \o <<second>>
  BY <1>1, AppendIsConcat
<1> QED BY <1>2, PairConcat

\* What is left after the first node, and after the second one.
LEMMA FirstStep ==
    ASSUME NEW Trees, HoldsItsParts(Trees), NEW e \in Trees
    PROVE  Visit(e)[1] = [Nodes |-> <<e>>, Left |-> e.Children]
<1>1. e.Children \in Seq(Trees)
  BY DEF HoldsItsParts
<1>2. Visit(e)[0] = FirstVisit(e) /\ Visit(e)[0 + 1] = HandNext(Visit(e)[0])
  BY VisitSteps
<1>3. e.Children \o <<>> = e.Children
  BY <1>1, ConcatEmptySeq
<1>4. <<e>> # <<>> /\ Head(<<e>>) = e /\ Tail(<<e>>) = <<>> /\ Append(<<>>, e) = <<e>>
  OBVIOUS
<1>5. HandNext(FirstVisit(e)) = [Nodes |-> <<e>>, Left |-> e.Children]
  BY <1>3, <1>4 DEF HandNext, FirstVisit
<1> QED BY <1>2, <1>5

LEMMA SecondStep ==
    ASSUME NEW Trees, HoldsItsParts(Trees), NEW e \in Trees, NEW c \in Trees,
           NEW rest \in Seq(Trees), e.Children # <<>>,
           Head(e.Children) = c, Tail(e.Children) = rest
    PROVE  Visit(e)[2] = [Nodes |-> <<e, c>>, Left |-> c.Children \o rest]
<1>1. Visit(e)[1 + 1] = HandNext(Visit(e)[1])
  BY VisitSteps
<1>2. Visit(e)[2] = HandNext([Nodes |-> <<e>>, Left |-> e.Children])
  BY <1>1, FirstStep
<1>3. Append(<<e>>, c) = <<e, c>>
  BY PairAppend
<1> QED BY <1>2, <1>3 DEF HandNext

\* How many nodes there must be room for.
LEMMA RoomForNodes ==
    ASSUME NEW Trees, HoldsItsParts(Trees), NEW e \in Trees, IsWithinNodes(e)
    PROVE  /\ MaxNodes \in Nat \ {0}
           /\ e.Children # <<>> => MaxNodes >= 2
           /\ \A c, d \in Trees : e.Children = <<c, d>> => MaxNodes >= 3
<1>1. MaxNodes \in Nat /\ Visit(e)[MaxNodes].Left = <<>>
  BY MaxNodesAssumption DEF IsWithinNodes
<1>2. MaxNodes # 0
  <2>1. Visit(e)[0] = FirstVisit(e)
    BY VisitSteps
  <2>2. FirstVisit(e).Left = <<e>> /\ <<e>> # <<>>
    BY DEF FirstVisit
  <2> QED BY <1>1, <2>1, <2>2
<1>3. e.Children # <<>> => MaxNodes # 1
  <2>1. Visit(e)[1] = [Nodes |-> <<e>>, Left |-> e.Children]
    BY FirstStep
  <2>2. Visit(e)[1].Left = e.Children
    BY <2>1
  <2> QED BY <1>1, <2>2
<1>4. ASSUME NEW c \in Trees, NEW d \in Trees, e.Children = <<c, d>> PROVE MaxNodes # 2
  <2>1. Visit(e)[2].Left = c.Children \o <<d>>
    <3>1. e.Children # <<>> /\ Head(e.Children) = c /\ Tail(e.Children) = <<d>>
      BY <1>4
    <3>2. <<d>> \in Seq(Trees)
      OBVIOUS
    <3>3. Visit(e)[2] = [Nodes |-> <<e, c>>, Left |-> c.Children \o <<d>>]
      BY <3>1, <3>2, SecondStep
    <3> QED BY <3>3
  <2>2. c.Children \in Seq(Trees) /\ <<d>> \in Seq(Trees) /\ <<d>> # <<>>
    BY DEF HoldsItsParts
  <2>3. c.Children \o <<d>> # <<>>
    BY <2>2, ConcatEqualIffEmpty
  <2> QED BY <1>1, <2>1, <2>3
<1>5. \A c, d \in Trees : e.Children = <<c, d>> => e.Children # <<>>
  OBVIOUS
<1> QED BY <1>1, <1>2, <1>3, <1>4, <1>5

\* The nodes of a visit, the root first.
LEMMA PreorderType ==
    ASSUME NEW Trees, HoldsItsParts(Trees), NEW e \in Trees
    PROVE  /\ Preorder(e) \in Seq(Trees)
           /\ Within(e) \subseteq Trees
           /\ MaxNodes # 0 => /\ Len(Preorder(e)) >= 1 /\ Preorder(e)[1] = e
                              /\ e \in Within(e)
<1>1. Preorder(e) \in Seq(Trees)
  BY VisitSteps, MaxNodesAssumption DEF Preorder, Visits
<1>2. MaxNodes # 0 => Len(Preorder(e)) >= 1 /\ Preorder(e)[1] = e
  BY RootIsFirst, MaxNodesAssumption DEF Preorder
<1> DEFINE nodes == Preorder(e)
<1> HIDE DEF nodes
<1>3. ASSUME nodes \in Seq(Trees)
      PROVE  /\ ToSet(nodes) \subseteq Trees
             /\ Len(nodes) >= 1 => nodes[1] \in ToSet(nodes)
  BY <1>3 DEF ToSet
<1> QED BY <1>1, <1>2, <1>3 DEF nodes, Within

\* Small trees.
LEMMA PreorderOfLeaf ==
    ASSUME NEW Trees, HoldsItsParts(Trees), NEW e \in Trees, e.Children = <<>>,
           MaxNodes # 0
    PROVE  Preorder(e) = <<e>>
<1>1. Visit(e)[1] = [Nodes |-> <<e>>, Left |-> <<>>]
  BY FirstStep
<1>2. MaxNodes \in Nat /\ 1 <= MaxNodes
  BY MaxNodesAssumption
<1>3. Visit(e)[MaxNodes] = Visit(e)[1]
  BY <1>1, <1>2, VisitEnds
<1> QED BY <1>1, <1>3 DEF Preorder

LEMMA PreorderOfTwo ==
    ASSUME NEW Trees, HoldsItsParts(Trees), NEW e \in Trees, NEW c \in Trees,
           e.Children = <<c>>, c.Children = <<>>, MaxNodes >= 2
    PROVE  Preorder(e) = <<e, c>>
<1>1. Visit(e)[2] = [Nodes |-> <<e, c>>, Left |-> <<>>]
  <2> DEFINE rest == Tail(e.Children)
  <2>1. e.Children # <<>> /\ Head(e.Children) = c /\ Tail(e.Children) = rest /\ rest = <<>>
    OBVIOUS
  <2>2. <<>> \in Seq(Trees)
    OBVIOUS
  <2> HIDE DEF rest
  <2>3. Visit(e)[2] = [Nodes |-> <<e, c>>, Left |-> <<>> \o <<>>]
    <3>1. rest \in Seq(Trees)
      BY <2>1, <2>2
    <3>2. Visit(e)[2] = [Nodes |-> <<e, c>>, Left |-> c.Children \o rest]
      BY <2>1, <3>1, SecondStep
    <3> QED BY <2>1, <3>2
  <2>4. <<>> \o <<>> = <<>>
    BY <2>2, ConcatEmptySeq
  <2> QED BY <2>3, <2>4
<1>2. MaxNodes \in Nat
  BY MaxNodesAssumption
<1>3. Visit(e)[MaxNodes] = Visit(e)[2]
  BY <1>1, <1>2, VisitEnds
<1> QED BY <1>1, <1>3 DEF Preorder

\* A visit loses nothing: what is inside of a node that was handed over was handed
\* over as well, or is left.
LosesNothing(visit) ==
    \A node \in ToSet(visit.Nodes) :
        ToSet(node.Children) \subseteq ToSet(visit.Nodes) \cup ToSet(visit.Left)

\* What is inside of a node that was visited, was visited or is left.
LEMMA NextLosesNothing ==
    ASSUME NEW Trees, HoldsItsParts(Trees), NEW visit \in Visits(Trees), LosesNothing(visit)
    PROVE  LosesNothing(HandNext(visit))
<1>1. visit.Nodes \in Seq(Trees) /\ visit.Left \in Seq(Trees)
  BY DEF Visits
<1>2. CASE visit.Left = <<>>
  BY <1>2 DEF HandNext
<1>3. CASE visit.Left # <<>>
  <2> DEFINE first == Head(visit.Left)
             rest == Tail(visit.Left)
             inside == first.Children
             nodes == visit.Nodes
  <2>1. first \in Trees /\ rest \in Seq(Trees) /\ visit.Left = <<first>> \o rest
    <3>1. first \in Trees /\ rest \in Seq(Trees) /\ Len(rest) = Len(visit.Left) - 1
            /\ \A i \in 1 .. Len(rest) : rest[i] = visit.Left[i + 1]
      BY <1>1, <1>3, HeadTailProperties
    <3>2. first = visit.Left[1]
      BY <1>1, <1>3
    <3> DEFINE left == visit.Left
    <3> HIDE DEF first, rest, left
    <3>3. <<first>> \in Seq(Trees) /\ Len(<<first>>) = 1 /\ <<first>>[1] = first
      BY <3>1
    <3>4. /\ <<first>> \o rest \in Seq(Trees)
          /\ Len(<<first>> \o rest) = 1 + Len(rest)
          /\ \A i \in 1 .. 1 + Len(rest) :
                (<<first>> \o rest)[i] = IF i <= 1 THEN <<first>>[i] ELSE rest[i - 1]
      BY <3>1, <3>3, ConcatProperties
    <3>5. Len(rest) \in Nat /\ Len(left) = 1 + Len(rest) /\ left \in Seq(Trees)
      BY <1>1, <1>3, <3>1 DEF left
    <3>6. \A i \in 1 .. 1 + Len(rest) : left[i] = (<<first>> \o rest)[i]
      <4> SUFFICES ASSUME NEW i \in 1 .. 1 + Len(rest) PROVE left[i] = (<<first>> \o rest)[i]
        OBVIOUS
      <4>1. CASE i = 1
        BY <3>2, <3>3, <3>4, <3>5, <4>1 DEF left
      <4>2. CASE i # 1
        <5>1. i - 1 \in 1 .. Len(rest) /\ (i - 1) + 1 = i /\ ~(i <= 1)
          BY <3>5, <4>2
        <5>2. rest[i - 1] = left[i]
          BY <3>1, <5>1 DEF left
        <5> QED BY <3>4, <5>1, <5>2
      <4> QED BY <4>1, <4>2
    <3>7. left = <<first>> \o rest
      BY <3>4, <3>5, <3>6, SeqEqual
    <3> QED BY <3>1, <3>7 DEF left
  <2>2. inside \in Seq(Trees)
    BY <2>1 DEF HoldsItsParts
  <2>3. HandNext(visit) = [Nodes |-> Append(nodes, first), Left |-> inside \o rest]
    BY <1>3 DEF HandNext
  <2> HIDE DEF first, rest, inside, nodes
  <2>4. /\ ToSet(Append(nodes, first)) = ToSet(nodes) \cup {first}
        /\ ToSet(inside \o rest) = ToSet(inside) \cup ToSet(rest)
        /\ ToSet(<<first>> \o rest) = ToSet(<<first>>) \cup ToSet(rest)
    <3>1. nodes \in Seq(Trees) /\ <<first>> \in Seq(Trees)
      BY <1>1, <2>1 DEF nodes
    <3>2. ToSet(Append(nodes, first)) = ToSet(nodes) \cup {first}
      BY <3>1, ElementsOfAppend
    <3>3. ToSet(inside \o rest) = ToSet(inside) \cup ToSet(rest)
      BY <2>1, <2>2, ElementsOfConcat
    <3>4. ToSet(<<first>> \o rest) = ToSet(<<first>>) \cup ToSet(rest)
      <4> DEFINE front == <<first>>
      <4>1. front \in Seq(Trees)
        BY <3>1
      <4> HIDE DEF front
      <4>2. ToSet(front \o rest) = ToSet(front) \cup ToSet(rest)
        BY <2>1, <4>1, ElementsOfConcat
      <4> QED BY <4>2 DEF front
    <3> QED BY <3>2, <3>3, <3>4
  <2>5. ToSet(<<first>>) = {first}
    BY DEF ToSet
  <2>6. ToSet(visit.Left) = {first} \cup ToSet(rest)
    BY <2>1, <2>4, <2>5
  <2>7. first.Children = inside
    BY DEF inside
  <2>8. \A node \in ToSet(nodes) :
            ToSet(node.Children) \subseteq ToSet(nodes) \cup {first} \cup ToSet(rest)
    BY <2>6 DEF LosesNothing, nodes
  <2> QED BY <2>3, <2>4, <2>7, <2>8 DEF LosesNothing
<1> QED BY <1>2, <1>3

\* So a visit that is over has been to everything inside of its nodes.
LEMMA WithinHoldsItsParts ==
    ASSUME NEW Trees, HoldsItsParts(Trees), NEW e \in Trees, IsWithinNodes(e)
    PROVE  HoldsItsParts(Within(e)) /\ e \in Within(e)
<1> DEFINE S == {n \in Nat : LosesNothing(Visit(e)[n])}
<1>1. 0 \in S
  <2>1. Visit(e)[0].Nodes = <<>>
    <3>1. Visit(e)[0] = FirstVisit(e)
      BY VisitSteps
    <3> QED BY <3>1 DEF FirstVisit
  <2>2. ToSet(Visit(e)[0].Nodes) = {}
    BY <2>1 DEF ToSet
  <2> QED BY <2>2 DEF LosesNothing
<1>2. ASSUME NEW n \in Nat, n \in S PROVE n + 1 \in S
  <2> DEFINE visit == Visit(e)[n]
  <2>1. visit \in Visits(Trees) /\ LosesNothing(visit) /\ Visit(e)[n + 1] = HandNext(visit)
    BY <1>2, VisitSteps
  <2> HIDE DEF visit
  <2>2. LosesNothing(HandNext(visit))
    BY <2>1, NextLosesNothing
  <2> QED BY <2>1, <2>2
<1> HIDE DEF S
<1>3. Nat \subseteq S
  BY <1>1, <1>2, Induction
<1> DEFINE visit == Visit(e)[MaxNodes]
<1>4. LosesNothing(visit) /\ visit \in Visits(Trees) /\ visit.Left = <<>>
  BY <1>3, MaxNodesAssumption, VisitSteps DEF S, IsWithinNodes
<1>5. Within(e) = ToSet(visit.Nodes)
  BY DEF Within, Preorder
<1> HIDE DEF visit
<1>6. ToSet(visit.Left) = {}
  BY <1>4 DEF ToSet
<1>7. ASSUME NEW node \in Within(e) PROVE node.Children \in Seq(Within(e))
  <2>1. node \in Trees
    BY <1>7, PreorderType
  <2> DEFINE inside == node.Children
  <2>2. inside \in Seq(Trees)
    BY <2>1 DEF HoldsItsParts
  <2>3. ToSet(inside) \subseteq Within(e)
    BY <1>4, <1>5, <1>6 DEF LosesNothing
  <2> HIDE DEF inside
  <2>4. ASSUME NEW W, ToSet(inside) \subseteq W PROVE inside \in Seq(W)
    <3>1. inside = [i \in 1 .. Len(inside) |-> inside[i]] /\ Len(inside) \in Nat
      BY <2>2
    <3>2. \A i \in 1 .. Len(inside) : inside[i] \in W
      BY <2>2, <2>4 DEF ToSet
    <3> QED BY <3>1, <3>2, IsASeq
  <2> QED BY <2>3, <2>4 DEF inside
<1>8. e \in Within(e)
  <2>1. MaxNodes # 0
    BY RoomForNodes
  <2> QED BY <2>1, PreorderType
<1> QED BY <1>7, <1>8 DEF HoldsItsParts

\* What is within an expression are expressions again.
LEMMA WithinAreExpressions ==
    ASSUME NEW Trees, AreExpressions(Trees), NEW root \in Trees, IsWithinNodes(root)
    PROVE  AreExpressions(Within(root)) /\ HoldsItsParts(Within(root)) /\ root \in Within(root)
<1>1. HoldsItsParts(Trees)
  BY ExpressionsHoldTheirParts
<1> DEFINE W == Within(root)
<1>2. HoldsItsParts(W) /\ root \in W
  BY <1>1, WithinHoldsItsParts
<1>3. W \subseteq Trees
  BY <1>1, PreorderType
<1> HIDE DEF W
<1>4. ASSUME NEW e \in W PROVE IsExpressionOver(e, W)
  <2>1. e \in Trees /\ IsExpressionOver(e, Trees) /\ e.Children \in Seq(W)
    BY <1>2, <1>3 DEF AreExpressions, HoldsItsParts
  <2>2. ASSUME NEW a, e.Children = <<a>> PROVE a \in W
    BY <2>1, <2>2
  <2>3. ASSUME NEW a, NEW b, e.Children = <<a, b>> PROVE a \in W /\ b \in W
    BY <2>1, <2>3
  <2>4. ASSUME NEW operand \in Trees, e = ToBoolean(operand) \/ e = UnaryOperator(e.Opcode, operand)
        PROVE  operand \in W
    <3>1. e.Children = <<operand>>
      BY <2>4 DEF ToBoolean, UnaryOperator, Operator, Node
    <3> QED BY <2>2, <3>1
  <2>5. ASSUME NEW lhs \in Trees, NEW rhs \in Trees,
               e = ArraySubscriptExpr(lhs, rhs) \/ e = BinaryOperator(lhs, e.Opcode, rhs)
        PROVE  lhs \in W /\ rhs \in W
    <3>1. e.Children = <<lhs, rhs>>
      BY <2>5 DEF ArraySubscriptExpr, BinaryOperator, Operator, Node
    <3> QED BY <2>3, <3>1
  <2> QED BY <2>1, <2>4, <2>5 DEF IsExpressionOver
<1> QED BY <1>2, <1>4 DEF AreExpressions, W

----------------------------------------------------------------------------
(* Literals and variables.                                                 *)

\* The first and the last position of some.
LEMMA LeastOf ==
    ASSUME NEW S \in SUBSET Nat, S # {}
    PROVE  Min(S) \in S /\ \A i \in S : Min(S) <= i
BY LeastNumber DEF Min

LEMMA GreatestOf ==
    ASSUME NEW n \in Nat, NEW S \in SUBSET (1 .. n), S # {}
    PROVE  Max(S) \in S
<1> DEFINE T == {k \in Nat : \E i \in S : k = n - i}
<1>1. T \in SUBSET Nat /\ T # {}
  <2>1. PICK i \in S : TRUE
    OBVIOUS
  <2>2. n - i \in T
    BY <2>1
  <2> QED BY <2>2
<1>2. PICK k \in T : \A m \in T : k <= m
  BY <1>1, LeastNumber
<1>3. PICK i \in S : k = n - i
  BY <1>2
<1>4. \A j \in S : i >= j
  <2> SUFFICES ASSUME NEW j \in S PROVE i >= j
    OBVIOUS
  <2>1. n - i <= n - j
    <3>1. n - j \in T
      OBVIOUS
    <3> QED BY <1>2, <1>3, <3>1
  <2> QED BY <2>1
<1> QED BY <1>4 DEF Max

\* What is before the first node of a kind.
EndsBefore(nodes, before, kind) ==
    \/ before = nodes /\ \A i \in DOMAIN nodes : nodes[i].Kind # kind
    \/ /\ before # nodes
       /\ Len(before) + 1 \in DOMAIN nodes
       /\ nodes[Len(before) + 1].Kind = kind

\* The nodes before the first of a kind.
LEMMA NodesBeforeKind ==
    ASSUME NEW Trees, HoldsItsParts(Trees), NEW e \in Trees, NEW kind
    PROVE  /\ NodesBefore(e, kind) \in Seq(Trees)
           /\ EndsBefore(Preorder(e), NodesBefore(e, kind), kind)
<1> DEFINE nodes == Preorder(e)
           before == NodesBefore(e, kind)
           found == {i \in DOMAIN nodes : nodes[i].Kind = kind}
<1>1. nodes \in Seq(Trees)
  BY PreorderType
<1>2. before = IF found = {} THEN nodes ELSE SubSeq(nodes, 1, Min(found) - 1)
  BY DEF NodesBefore, IsOfKind
<1> HIDE DEF nodes, before
<1> SUFFICES before \in Seq(Trees) /\ EndsBefore(nodes, before, kind)
  BY DEF nodes, before
<1>3. CASE found = {}
  BY <1>1, <1>2, <1>3 DEF EndsBefore
<1>4. CASE found # {}
  <2> DEFINE n == Min(found)
  <2>1. n \in found
    <3>1. found \in SUBSET Nat
      BY <1>1
    <3> HIDE DEF found
    <3> QED BY <1>4, <3>1, LeastOf
  <2> HIDE DEF n
  <2>2. n \in 1 .. Len(nodes) /\ nodes[n].Kind = kind /\ Len(nodes) \in Nat
    BY <1>1, <2>1
  <2>3. n - 1 \in 0 .. Len(nodes) /\ 1 \in 1 .. Len(nodes) + 1
    BY <2>2
  <2> DEFINE first == SubSeq(nodes, 1, n - 1)
  <2>4. first \in Seq(Trees) /\ Len(first) = n - 1
    BY <1>1, <2>2, <2>3
  <2>5. before = first
    BY <1>2, <1>4 DEF n
  <2> HIDE DEF first
  <2>6. Len(first) + 1 = n /\ Len(first) # Len(nodes)
    BY <2>2, <2>4
  <2>7. Len(first) + 1 \in DOMAIN nodes
    BY <1>1, <2>2, <2>6
  <2> QED BY <2>2, <2>4, <2>5, <2>6, <2>7 DEF EndsBefore
<1> QED BY <1>3, <1>4

\* Nothing is before a root of the kind.
LEMMA NothingBeforeTheRoot ==
    ASSUME NEW Trees, HoldsItsParts(Trees), NEW e \in Trees, MaxNodes # 0
    PROVE  /\ NodesBefore(e, e.Kind) = <<>>
           /\ Preorder(e) # <<>>
           /\ Preorder(e)[Len(NodesBefore(e, e.Kind)) + 1] = e
<1> DEFINE nodes == Preorder(e)
           before == NodesBefore(e, e.Kind)
           found == {i \in DOMAIN nodes : nodes[i].Kind = e.Kind}
<1>1. nodes \in Seq(Trees) /\ Len(nodes) >= 1 /\ nodes[1] = e
  BY PreorderType
<1>2. before = IF found = {} THEN nodes ELSE SubSeq(nodes, 1, Min(found) - 1)
  BY DEF NodesBefore, IsOfKind
<1> HIDE DEF nodes, before
<1>3. 1 \in found /\ found \in SUBSET Nat /\ \A i \in found : i >= 1
  BY <1>1
<1>4. Min(found) = 1
  <2> HIDE DEF found
  <2>1. Min(found) \in found /\ Min(found) <= 1
    BY <1>3, LeastOf
  <2>2. Min(found) \in Nat /\ Min(found) >= 1
    BY <1>3, <2>1
  <2> QED BY <2>1, <2>2
<1>5. before = <<>>
  <2>1. before = SubSeq(nodes, 1, 0)
    <3>1. found # {} /\ Min(found) - 1 = 0
      <4> HIDE DEF found
      <4> QED BY <1>3, <1>4
    <3> QED BY <1>2, <3>1
  <2> QED BY <1>1, <2>1
<1>6. Len(before) + 1 = 1
  BY <1>5
<1>7. nodes # <<>>
  BY <1>1
<1> QED BY <1>1, <1>5, <1>6, <1>7 DEF nodes, before

\* NotParsed is no value.
LEMMA NotParsedIsApart ==
    /\ NotParsed \notin Expressions
    /\ \A name : CopyVar(name) # NotParsed
    /\ \A n : Primitive(n) # NotParsed
    /\ \A a, op, b : Compute(a, op, b) # NotParsed
BY DEF NotParsed, Expressions, Sums, Atoms, ComputesOver, ResolvedStates, Copies, Unknown,
       Primitives, Buffers, CopyVar, Primitive, Compute

\* What the last variable of some nodes is copied as.
LEMMA LastVariableType ==
    ASSUME NEW Trees, NEW nodes \in Seq(Trees)
    PROVE  LastVariable(nodes) \in Copies \cup {NotParsed}
<1> DEFINE found == {i \in DOMAIN nodes : IsVariable(nodes[i])}
<1>1. CASE found = {}
  BY <1>1 DEF LastVariable
<1>2. CASE found # {}
  <2>1. Max(found) \in found
    <3>1. Len(nodes) \in Nat /\ found \in SUBSET (1 .. Len(nodes))
      OBVIOUS
    <3> HIDE DEF found
    <3> QED BY <1>2, <3>1, GreatestOf
  <2> DEFINE last == nodes[Max(found)]
  <2>2. IsVariable(last) /\ LastVariable(nodes) = CopyVar(last.Name)
    BY <1>2, <2>1 DEF LastVariable
  <2> HIDE DEF last
  <2> QED BY <2>2 DEF IsVariable, CopyVar, Copies
<1> QED BY <1>1, <1>2

LEMMA OneVariable ==
    ASSUME NEW e, IsVariable(e)
    PROVE  LastVariable(<<e>>) = CopyVar(e.Name)
<1> DEFINE nodes == <<e>>
           found == {i \in DOMAIN nodes : IsVariable(nodes[i])}
<1>1. DOMAIN nodes = {1} /\ nodes[1] = e
  OBVIOUS
<1>2. found = {1}
  BY <1>1
<1>3. Max({1}) = 1
  BY DEF Max
<1> HIDE DEF nodes
<1>4. LastVariable(nodes) = CopyVar(nodes[Max(found)].Name)
  BY <1>2 DEF LastVariable
<1>5. LastVariable(nodes) = CopyVar(nodes[1].Name)
  BY <1>2, <1>3, <1>4
<1> QED BY <1>1, <1>5 DEF nodes

LEMMA NoVariable ==
    ASSUME NEW nodes, \A i \in DOMAIN nodes : nodes[i].Kind # "DeclRefExpr"
    PROVE  LastVariable(nodes) = NotParsed
BY DEF LastVariable, IsVariable

\* A literal fits the largest integers.
LEMMA LiteralType ==
    ASSUME NEW Trees, AreExpressions(Trees), NEW e \in Trees, e.Kind = "IntegerLiteral"
    PROVE  /\ SignExtended(e) \in Ints
           /\ e.Bits < e.HalfRange => SignExtended(e) = e.Bits
           /\ e.Children = <<>>
<1>1. IsExpressionOver(e, Trees)
  BY DEF AreExpressions
<1>2. /\ e = IntegerLiteral(e.Bits, e.HalfRange)
      /\ e.HalfRange \in 1 .. Half /\ e.Bits \in 0 .. 2 * e.HalfRange - 1
  BY <1>1 DEF IsExpressionOver, ToBoolean, UnaryOperator, BinaryOperator, Operator, Node,
              ArraySubscriptExpr
<1>3. e.Children = <<>>
  BY <1>2 DEF IntegerLiteral
<1>4. Half \in Nat \ {0}
  BY HalfAssumption
<1> QED BY <1>2, <1>3, <1>4 DEF SignExtended, Ints

\* A literal is found, or none is there.
LEMMA LiteralStateType ==
    ASSUME NEW Trees, AreExpressions(Trees), NEW e \in Trees
    PROVE  LiteralState(e) \in Primitives \cup {NotParsed}
<1> DEFINE before == NodesBefore(e, "IntegerLiteral")
           nodes == Preorder(e)
           literal == nodes[Len(before) + 1]
           value == SignExtended(literal)
           minuses == {i \in DOMAIN before :
                            IsOfKind(before[i], "UnaryOperator") /\ before[i].Opcode = "-"}
<1>1. HoldsItsParts(Trees)
  BY ExpressionsHoldTheirParts
<1>2. nodes \in Seq(Trees) /\ EndsBefore(nodes, before, "IntegerLiteral")
  BY <1>1, PreorderType, NodesBeforeKind
<1>3. LiteralState(e) = IF before = nodes THEN NotParsed
                        ELSE Primitive(IF Cardinality(minuses) % 2 = 1 THEN Wrap(-value) ELSE value)
  BY DEF LiteralState
<1> HIDE DEF before, nodes, minuses
<1>4. CASE before = nodes
  BY <1>3, <1>4
<1>5. CASE before # nodes
  <2>1. literal \in Trees /\ literal.Kind = "IntegerLiteral"
    BY <1>2, <1>5 DEF EndsBefore
  <2> HIDE DEF literal
  <2>2. value \in Ints
    BY <2>1, LiteralType
  <2>3. Wrap(-value) \in Ints
    BY <2>2, WrapType, HalfAssumption DEF Ints
  <2> HIDE DEF value
  <2> QED BY <1>3, <1>5, <2>2, <2>3 DEF Primitive, Primitives
<1> QED BY <1>4, <1>5

\* Room for the nodes of a variable or a literal, with a minus or without.
HasRoom(e) == MaxNodes \in Nat \ {0} /\ (e.Children # <<>> => MaxNodes >= 2)

\* A visit that meets no node of the kind.
LEMMA NoneOfAKind ==
    ASSUME NEW Trees, HoldsItsParts(Trees), NEW e \in Trees, NEW kind,
           \A i \in DOMAIN Preorder(e) : Preorder(e)[i].Kind # kind
    PROVE  NodesBefore(e, kind) = Preorder(e)
BY NodesBeforeKind DEF EndsBefore

\* A reference to a variable is a node of its own.
LEMMA VariableAlone ==
    ASSUME NEW Trees, AreExpressions(Trees), NEW e \in Trees, IsVariable(e), MaxNodes # 0
    PROVE  /\ e.Name \in Vars
           /\ Preorder(e) = <<e>>
           /\ NodesBefore(e, "BinaryOperator") = <<e>>
<1>1. HoldsItsParts(Trees)
  BY ExpressionsHoldTheirParts
<1>2. e.Kind = "DeclRefExpr" /\ e.Name \in Vars
  BY DEF IsVariable
<1>3. IsExpressionOver(e, Trees)
  BY DEF AreExpressions
<1>4. e = DeclRefExpr(e.Name)
  BY <1>2, <1>3 DEF IsExpressionOver, ToBoolean, UnaryOperator, BinaryOperator, Operator, Node,
                    ArraySubscriptExpr
<1>5. e.Children = <<>>
  BY <1>4 DEF DeclRefExpr
<1>6. Preorder(e) = <<e>>
  BY <1>1, <1>5, PreorderOfLeaf
<1>7. \A i \in DOMAIN <<e>> : <<e>>[i].Kind # "BinaryOperator"
  BY <1>2
<1>8. NodesBefore(e, "BinaryOperator") = <<e>>
  BY <1>1, <1>6, <1>7, NoneOfAKind
<1> QED BY <1>2, <1>6, <1>8

\* The two forms of a plain literal.
LEMMA PlainLiteralForms ==
    ASSUME NEW Trees, AreExpressions(Trees), NEW e \in Trees, IsPlainLiteral(e)
    PROVE  \/ /\ e.Kind = "IntegerLiteral" /\ e.Children = <<>>
              /\ SignExtended(e) = e.Bits /\ e.Bits \in Ints
           \/ /\ e.Kind = "UnaryOperator" /\ e.Opcode = "-"
              /\ \E c \in Trees :
                    /\ e.Children = <<c>> /\ c.Children = <<>> /\ c.Kind = "IntegerLiteral"
                    /\ SignExtended(c) = c.Bits /\ c.Bits \in Ints
<1>1. CASE e.Kind = "IntegerLiteral" /\ e.Bits < e.HalfRange
  <2>1. SignExtended(e) \in Ints /\ SignExtended(e) = e.Bits /\ e.Children = <<>>
    BY <1>1, LiteralType
  <2> QED BY <1>1, <2>1
<1>2. CASE /\ e.Kind = "UnaryOperator" /\ e.Opcode = "-"
           /\ e.Children[1].Kind = "IntegerLiteral"
           /\ e.Children[1].Bits < e.Children[1].HalfRange
  <2>1. IsExpressionOver(e, Trees)
    BY DEF AreExpressions
  <2>2. PICK c \in Trees : e = UnaryOperator(e.Opcode, c)
    BY <1>2, <2>1 DEF IsExpressionOver, ToBoolean, BinaryOperator, Operator, Node,
                      ArraySubscriptExpr
  <2>3. e.Children = <<c>>
    BY <2>2 DEF UnaryOperator, Operator
  <2>4. c.Kind = "IntegerLiteral" /\ c.Bits < c.HalfRange
    BY <1>2, <2>3
  <2>5. SignExtended(c) \in Ints /\ SignExtended(c) = c.Bits /\ c.Children = <<>>
    BY <2>4, LiteralType
  <2> QED BY <1>2, <2>3, <2>4, <2>5
<1> QED BY <1>1, <1>2 DEF IsPlainLiteral

\* The value of a variable or a literal.
AtomValue(e, env) ==
    IF e.Kind = "DeclRefExpr" THEN env[e.Name].Value
    ELSE IF e.Kind = "IntegerLiteral" THEN e.Bits ELSE Wrap(-e.Children[1].Bits)

\* What a literal is parsed as, and that it is no variable.
LEMMA PlainLiteralState ==
    ASSUME NEW Trees, AreExpressions(Trees), NEW e \in Trees, IsPlainLiteral(e), HasRoom(e)
    PROVE  /\ \A env : LiteralState(e) = Primitive(AtomValue(e, env))
           /\ LastVariable(Preorder(e)) = NotParsed
           /\ NodesBefore(e, "BinaryOperator") = Preorder(e)
           /\ \A i \in DOMAIN Preorder(e) :
                Preorder(e)[i].Kind \in {"IntegerLiteral", "UnaryOperator"}
<1>1. HoldsItsParts(Trees)
  BY ExpressionsHoldTheirParts
<1> DEFINE before == NodesBefore(e, "IntegerLiteral")
           nodes == Preorder(e)
           minuses == {i \in DOMAIN before :
                            IsOfKind(before[i], "UnaryOperator") /\ before[i].Opcode = "-"}
           value == SignExtended(nodes[Len(before) + 1])
<1>2. LiteralState(e) = IF before = nodes THEN NotParsed
                        ELSE Primitive(IF Cardinality(minuses) % 2 = 1 THEN Wrap(-value) ELSE value)
  BY DEF LiteralState
<1>3. CASE e.Kind = "IntegerLiteral" /\ e.Children = <<>> /\ SignExtended(e) = e.Bits
  <2>1. before = <<>> /\ nodes # <<>> /\ nodes[Len(before) + 1] = e
    BY <1>1, <1>3, NothingBeforeTheRoot DEF HasRoom
  <2>2. nodes = <<e>>
    BY <1>1, <1>3, PreorderOfLeaf DEF HasRoom
  <2> HIDE DEF before, nodes
  <2>3. minuses = {}
    BY <2>1
  <2>4. Cardinality(minuses) = 0
    BY <2>3, FS_EmptySet
  <2> HIDE DEF minuses
  <2>5. LiteralState(e) = Primitive(e.Bits)
    BY <1>2, <1>3, <2>1, <2>4
  <2>6. \A i \in DOMAIN nodes : nodes[i].Kind = "IntegerLiteral"
    BY <1>3, <2>2
  <2> QED BY <1>1, <1>3, <2>5, <2>6, NoVariable, NoneOfAKind DEF AtomValue, nodes
<1>4. CASE /\ e.Kind = "UnaryOperator" /\ e.Opcode = "-"
           /\ \E c \in Trees :
                /\ e.Children = <<c>> /\ c.Children = <<>> /\ c.Kind = "IntegerLiteral"
                /\ SignExtended(c) = c.Bits
  <2>1. PICK c \in Trees : /\ e.Children = <<c>> /\ c.Children = <<>>
                           /\ c.Kind = "IntegerLiteral" /\ SignExtended(c) = c.Bits
    BY <1>4
  <2>2. MaxNodes >= 2
    BY <2>1 DEF HasRoom
  <2>3. nodes = <<e, c>>
    BY <1>1, <2>1, <2>2, PreorderOfTwo
  <2>4. EndsBefore(nodes, before, "IntegerLiteral") /\ before \in Seq(Trees)
    BY <1>1, NodesBeforeKind
  <2> DEFINE found == {i \in DOMAIN nodes : nodes[i].Kind = "IntegerLiteral"}
  <2>5. before = IF found = {} THEN nodes ELSE SubSeq(nodes, 1, Min(found) - 1)
    BY DEF NodesBefore, IsOfKind
  <2>6. found = {2}
    <3>1. {i \in DOMAIN <<e, c>> : <<e, c>>[i].Kind = "IntegerLiteral"} = {2}
      BY <1>4, <2>1
    <3> QED BY <2>3, <3>1
  <2>7. Min({2}) = 2
    BY DEF Min
  <2> HIDE DEF before, nodes, found
  <2>8. before = SubSeq(<<e, c>>, 1, 1)
    <3>1. found # {} /\ Min(found) - 1 = 1
      BY <2>6, <2>7
    <3> QED BY <2>3, <2>5, <3>1
  <2>9. SubSeq(<<e, c>>, 1, 1) = <<e>>
    <3>1. <<e>> \in Seq(Trees) /\ <<c>> \in Seq(Trees) /\ Len(<<e>>) = 1
      OBVIOUS
    <3>2. SubSeq(<<e>> \o <<c>>, 1, 1) = <<e>>
      BY <3>1, FirstOfConcat
    <3> QED BY <3>2, PairConcat
  <2>10. minuses = {1}
    <3>1. before = <<e>>
      BY <2>8, <2>9
    <3>2. DOMAIN <<e>> = {1} /\ <<e>>[1] = e
      OBVIOUS
    <3> QED BY <1>4, <3>1, <3>2 DEF IsOfKind
  <2>11. Cardinality(minuses) = 1
    BY <2>10, FS_Singleton
  <2>12. before # nodes /\ nodes[Len(before) + 1] = c
    BY <2>3, <2>8, <2>9
  <2> HIDE DEF minuses
  <2>13. LiteralState(e) = Primitive(Wrap(-c.Bits))
    BY <1>2, <2>1, <2>11, <2>12
  <2>14. \A i \in DOMAIN nodes : nodes[i].Kind \in {"IntegerLiteral", "UnaryOperator"}
    BY <1>4, <2>1, <2>3
  <2>15. \A env : AtomValue(e, env) = Wrap(-c.Bits)
    BY <1>4, <2>1 DEF AtomValue
  <2> QED BY <1>1, <2>13, <2>14, <2>15, NoVariable, NoneOfAKind DEF nodes
<1> HIDE DEF before, nodes, minuses
<1> QED BY <1>3, <1>4, PlainLiteralForms

\* A variable or a literal is worth the same at every depth.
LEMMA AtomValueIs ==
    ASSUME NEW Trees, AreExpressions(Trees), NEW e \in Trees, IsAtom(e),
           NEW env \in [Vars -> Primitives]
    PROVE  /\ AtomValue(e, env) \in Ints
           /\ ValueOfFactor(e, env) = AtomValue(e, env)
           /\ ValueOfSum(e, env) = AtomValue(e, env)
           /\ Value(e, env) = AtomValue(e, env)
<1>1. CASE IsVariable(e)
  <2>1. e.Kind = "DeclRefExpr" /\ e.Name \in Vars
    BY <1>1 DEF IsVariable
  <2>2. env[e.Name].Value \in Ints
    BY <2>1 DEF Primitives
  <2> QED BY <2>1, <2>2 DEF AtomValue, ValueOfFactor, ValueOfSum, Value, ValueOf
<1>2. CASE IsPlainLiteral(e)
  <2>1. CASE e.Kind = "IntegerLiteral" /\ e.Bits \in Ints
    BY <2>1, ZenonT(40) DEF AtomValue, ValueOfFactor, ValueOfSum, Value, ValueOf
  <2>2. CASE /\ e.Kind = "UnaryOperator" /\ e.Opcode = "-"
             /\ \E c \in Trees : e.Children = <<c>> /\ c.Kind = "IntegerLiteral" /\ c.Bits \in Ints
    <3>1. PICK c \in Trees : e.Children = <<c>> /\ c.Kind = "IntegerLiteral" /\ c.Bits \in Ints
      BY <2>2
    <3>2. e.Children[1] = c
      BY <3>1
    <3>3. AtomValue(e, env) = Wrap(-c.Bits)
      BY <2>2, <3>2 DEF AtomValue
    <3>4. Wrap(-c.Bits) \in Ints
      BY <3>1, WrapType, HalfAssumption DEF Ints
    <3>5. /\ ValueOfAtom(c, env) = c.Bits
          /\ ValueOfFactor(c, env) = c.Bits
          /\ ValueOfSum(c, env) = c.Bits
      BY <3>1 DEF ValueOfAtom, ValueOfFactor, ValueOfSum, ValueOf
    <3>6. ValueOfFactor(e, env) = Wrap(-c.Bits)
      BY <2>2, <3>2, <3>5 DEF ValueOfFactor, ValueOf
    <3>7. ValueOfSum(e, env) = Wrap(-c.Bits)
      BY <2>2, <3>2, <3>5 DEF ValueOfSum, ValueOf
    <3>8. Value(e, env) = Wrap(-c.Bits)
      BY <2>2, <3>2, <3>5 DEF Value, ValueOf
    <3> QED BY <3>3, <3>4, <3>6, <3>7, <3>8
  <2> QED BY <1>2, <2>1, <2>2, PlainLiteralForms
<1> QED BY <1>1, <1>2 DEF IsAtom

----------------------------------------------------------------------------
(* The states of nested operators.                                         *)

NestedStates(root, n, inner) ==
    [e \in Within(root) |-> IF n = 0 THEN NotParsed ELSE ParseExpression(inner, e)]

\* A function that is defined by recursion exists, whatever its values are: the parts of
\* it up to each number do, and agree with each other.
LEMMA StatesSteps ==
    ASSUME NEW root, NEW n \in Nat
    PROVE  StatesWithin(root)[n] = NestedStates(root, n, StatesWithin(root)[n - 1])
<1> DEFINE Step(i, inner) == NestedStates(root, i, inner)
           IsUpTo(f, m) == /\ f = [i \in 0 .. m |-> f[i]]
                           /\ \A i \in 0 .. m : f[i] = Step(i, f[i - 1])
           Found == {m \in Nat : \E f : IsUpTo(f, m)}
           Part(m) == CHOOSE f : IsUpTo(f, m)
           whole == [m \in Nat |-> Part(m)[m]]
           IsWhole(f) == f = [m \in Nat |-> [e \in Within(root) |->
                                IF m = 0 THEN NotParsed ELSE ParseExpression(f[m - 1], e)]]
<1>1. \A a, b : Step(0, a) = Step(0, b)
  BY DEF NestedStates
<1>2. \A f : IsWhole(f) <=> f = [m \in Nat |-> Step(m, f[m - 1])]
  BY DEF NestedStates
<1>3. StatesWithin(root) = CHOOSE f : IsWhole(f)
  BY DEF StatesWithin
<1> HIDE DEF Step, IsWhole
<1>4. Nat \subseteq Found
  <2>1. 0 \in Found
    <3> DEFINE f == [i \in 0 .. 0 |-> Step(0, {})]
    <3>1. f[0] = Step(0, {}) /\ f = [i \in 0 .. 0 |-> f[i]]
      OBVIOUS
    <3>2. \A i \in 0 .. 0 : i = 0
      OBVIOUS
    <3> HIDE DEF f
    <3>3. f[0] = Step(0, f[0 - 1])
      BY <1>1, <3>1
    <3> QED BY <3>1, <3>2, <3>3
  <2>2. ASSUME NEW m \in Nat, m \in Found PROVE m + 1 \in Found
    <3>1. PICK f : IsUpTo(f, m)
      BY <2>2
    <3> DEFINE next == Step(m + 1, f[m])
               g == [i \in 0 .. m + 1 |-> IF i = m + 1 THEN next ELSE f[i]]
    <3>2. g[m + 1] = next /\ g = [i \in 0 .. m + 1 |-> g[i]]
      OBVIOUS
    <3>3. \A i \in 0 .. m : g[i] = f[i]
      OBVIOUS
    <3> HIDE DEF g
    <3>4. ASSUME NEW i \in 0 .. m + 1 PROVE g[i] = Step(i, g[i - 1])
      <4>1. CASE i = 0
        <5>1. 0 \in 0 .. m
          OBVIOUS
        <5>2. g[0] = f[0]
          BY <3>3, <5>1
        <5>3. f[0] = Step(0, f[0 - 1])
          BY <3>1, <5>1
        <5>4. Step(0, f[0 - 1]) = Step(0, g[0 - 1])
          BY <1>1
        <5> QED BY <4>1, <5>2, <5>3, <5>4
      <4>2. CASE i \in 1 .. m
        <5>1. i \in 0 .. m /\ i - 1 \in 0 .. m
          BY <4>2
        <5>2. g[i] = f[i] /\ g[i - 1] = f[i - 1] /\ f[i] = Step(i, f[i - 1])
          BY <3>1, <3>3, <5>1
        <5> QED BY <5>2
      <4>3. CASE i = m + 1
        <5>1. i - 1 = m /\ m \in 0 .. m
          BY <4>3
        <5> QED BY <3>2, <3>3, <4>3, <5>1
      <4> QED BY <4>1, <4>2, <4>3
    <3>5. IsUpTo(g, m + 1)
      BY <3>2, <3>4
    <3> HIDE DEF IsUpTo
    <3> QED BY <3>5
  <2> HIDE DEF Found
  <2> QED BY <2>1, <2>2, Induction
<1>5. ASSUME NEW m \in Nat PROVE IsUpTo(Part(m), m)
  <2>1. \E f : IsUpTo(f, m)
    BY <1>4
  <2> QED BY <2>1
<1> HIDE DEF Part, Found
<1>6. ASSUME NEW m \in Nat, NEW i \in 0 .. m
      PROVE  Part(m)[i] = Step(i, Part(m)[i - 1])
  BY <1>5
<1>7. \A i \in Nat : \A m, k \in Nat : i <= m /\ i <= k => Part(m)[i] = Part(k)[i]
  <2> DEFINE Same == {i \in Nat : \A m, k \in Nat : i <= m /\ i <= k => Part(m)[i] = Part(k)[i]}
  <2>1. 0 \in Same
    <3> SUFFICES ASSUME NEW m \in Nat, NEW k \in Nat PROVE Part(m)[0] = Part(k)[0]
      OBVIOUS
    <3>1. Part(m)[0] = Step(0, Part(m)[0 - 1]) /\ Part(k)[0] = Step(0, Part(k)[0 - 1])
      BY <1>6
    <3> QED BY <1>1, <3>1
  <2>2. ASSUME NEW i \in Nat, i \in Same PROVE i + 1 \in Same
    <3> SUFFICES ASSUME NEW m \in Nat, NEW k \in Nat, i + 1 <= m, i + 1 <= k
                 PROVE  Part(m)[i + 1] = Part(k)[i + 1]
      OBVIOUS
    <3>1. i + 1 \in 0 .. m /\ i + 1 \in 0 .. k /\ (i + 1) - 1 = i /\ i <= m /\ i <= k
      OBVIOUS
    <3>2. Part(m)[i + 1] = Step(i + 1, Part(m)[i]) /\ Part(k)[i + 1] = Step(i + 1, Part(k)[i])
      BY <1>6, <3>1
    <3>3. Part(m)[i] = Part(k)[i]
      BY <2>2, <3>1
    <3> QED BY <3>2, <3>3
  <2> HIDE DEF Same
  <2>3. Nat \subseteq Same
    BY <2>1, <2>2, Induction
  <2> QED BY <2>3 DEF Same
<1>8. IsWhole(whole)
  <2>1. ASSUME NEW m \in Nat PROVE whole[m] = Step(m, whole[m - 1])
    <3>1. m \in 0 .. m
      OBVIOUS
    <3>2. Part(m)[m] = Step(m, Part(m)[m - 1])
      BY <1>6, <3>1
    <3>3. CASE m = 0
      BY <1>1, <3>2, <3>3
    <3>4. CASE m # 0
      <4>1. m - 1 \in Nat /\ m - 1 <= m /\ m - 1 <= m - 1
        BY <3>4
      <4>2. Part(m)[m - 1] = Part(m - 1)[m - 1]
        BY <1>7, <4>1
      <4> QED BY <3>2, <4>1, <4>2
    <3> QED BY <3>3, <3>4
  <2>2. whole = [m \in Nat |-> whole[m]]
    OBVIOUS
  <2> HIDE DEF whole
  <2> QED BY <1>2, <2>1, <2>2
<1>9. IsWhole(StatesWithin(root))
  BY <1>3, <1>8
<1> DEFINE states == StatesWithin(root)
<1>10. states = [m \in Nat |-> Step(m, states[m - 1])]
  BY <1>2, <1>9
<1> HIDE DEF states
<1>11. states[n] = Step(n, states[n - 1])
  BY <1>10
<1> QED BY <1>11 DEF states, Step

\* The sides of an operator are within it.
LEMMA OperatorSides ==
    ASSUME NEW Trees, AreExpressions(Trees), NEW op \in Trees, op.Kind = "BinaryOperator"
    PROVE  \E lhs, rhs \in Trees :
                op.Children = <<lhs, rhs>> /\ op.Children[1] = lhs /\ op.Children[2] = rhs
<1>1. IsExpressionOver(op, Trees)
  BY DEF AreExpressions
<1>2. PICK lhs \in Trees, rhs \in Trees : op = BinaryOperator(lhs, op.Opcode, rhs)
  BY <1>1 DEF IsExpressionOver, ToBoolean, UnaryOperator, Operator, Node, ArraySubscriptExpr,
              DeclRefExpr, IntegerLiteral
<1>3. op.Children = <<lhs, rhs>>
  BY <1>2 DEF BinaryOperator, Operator
<1> QED BY <1>3

StateWithin(root, n, e) == StatesWithin(root)[n][e]
SideState(root, n, e) == FirstParsed(StateWithin(root, n, e), LiteralState(e))

\* What is within a root is parsed from the states one level down.
LEMMA StateSteps ==
    ASSUME NEW root, NEW n \in Nat \ {0}, NEW e \in Within(root)
    PROVE  StateWithin(root, n, e) = ParseExpression(StatesWithin(root)[n - 1], e)
<1>1. StatesWithin(root)[n] = NestedStates(root, n, StatesWithin(root)[n - 1])
  BY StatesSteps
<1> QED BY <1>1 DEF StateWithin, NestedStates

\* What is made of an operator at the root.
LEMMA OperatorState ==
    ASSUME NEW Trees, AreExpressions(Trees), NEW root \in Trees, IsWithinNodes(root),
           NEW n \in Nat \ {0}, NEW e \in Within(root), e.Kind = "BinaryOperator"
    PROVE  StateWithin(root, n, e)
                = FirstParsed(Combine(e.Opcode, SideState(root, n - 1, e.Children[1]),
                                      SideState(root, n - 1, e.Children[2])), LastVariable(<<>>))
<1> DEFINE states == StatesWithin(root)[n - 1]
<1>1. MaxNodes # 0
  BY ExpressionsHoldTheirParts, RoomForNodes
<1>2. e \in Trees /\ HoldsItsParts(Trees)
  BY ExpressionsHoldTheirParts, PreorderType
<1>3. /\ NodesBefore(e, "BinaryOperator") = <<>>
      /\ Preorder(e) # <<>>
      /\ Preorder(e)[Len(NodesBefore(e, "BinaryOperator")) + 1] = e
  BY <1>1, <1>2, NothingBeforeTheRoot
<1>4. StateWithin(root, n, e) = ParseExpression(states, e)
  BY StateSteps
<1> HIDE DEF states
<1>5. ParseExpression(states, e)
        = FirstParsed(Combine(e.Opcode, FirstParsed(states[e.Children[1]], LiteralState(e.Children[1])),
                              FirstParsed(states[e.Children[2]], LiteralState(e.Children[2]))),
                      LastVariable(<<>>))
  BY <1>3 DEF ParseExpression
<1> QED BY <1>4, <1>5 DEF states, SideState, StateWithin

\* What is made of an atom that stands on its own or on a side.
LEMMA AtomState ==
    ASSUME NEW Trees, AreExpressions(Trees), NEW root \in Trees, IsWithinNodes(root),
           NEW n \in Nat \ {0}, NEW e \in Within(root), IsAtom(e), HasRoom(e)
    PROVE  \/ IsVariable(e) /\ e.Name \in Vars /\ SideState(root, n, e) = CopyVar(e.Name)
           \/ \A env : SideState(root, n, e) = Primitive(AtomValue(e, env))
<1> DEFINE states == StatesWithin(root)[n - 1]
<1>1. e \in Trees
  BY ExpressionsHoldTheirParts, PreorderType
<1>2. StateWithin(root, n, e) = ParseExpression(states, e)
  BY StateSteps
<1> HIDE DEF states
<1>3. CASE IsVariable(e)
  <2>1. /\ e.Name \in Vars /\ Preorder(e) = <<e>>
        /\ NodesBefore(e, "BinaryOperator") = <<e>>
    BY <1>1, <1>3, VariableAlone DEF HasRoom
  <2>2. ParseExpression(states, e) = LastVariable(<<e>>)
    BY <2>1 DEF ParseExpression
  <2>3. StateWithin(root, n, e) = CopyVar(e.Name)
    BY <1>2, <1>3, <2>2, OneVariable
  <2>4. CopyVar(e.Name) # NotParsed
    BY NotParsedIsApart
  <2> QED BY <1>3, <2>1, <2>3, <2>4 DEF SideState, FirstParsed
<1>4. CASE IsPlainLiteral(e)
  <2>1. /\ \A env : LiteralState(e) = Primitive(AtomValue(e, env))
        /\ LastVariable(Preorder(e)) = NotParsed
        /\ NodesBefore(e, "BinaryOperator") = Preorder(e)
    BY <1>1, <1>4, PlainLiteralState
  <2>2. ParseExpression(states, e) = NotParsed
    BY <2>1 DEF ParseExpression
  <2> QED BY <1>2, <2>1, <2>2 DEF SideState, FirstParsed
<1> QED BY <1>3, <1>4 DEF IsAtom

\* Reading and computing what was parsed.
LEMMA ResolvedCopy ==
    ASSUME NEW env \in [Vars -> Primitives], NEW x \in Vars
    PROVE  FollowCopies(env, CopyVar(x)) = Primitive(env[x].Value)
<1>1. env \in Values
  BY DEF Values, ResolvedStates
<1>2. FollowCopies(env, CopyVar(x)) = env[x]
  BY <1>1, ChainEndsAtOnce DEF FollowCopies, CopyVar
<1>3. env[x] = Primitive(env[x].Value)
  BY DEF Primitives, Primitive
<1> QED BY <1>2, <1>3

\* Whether a state resolves, at each depth, to a number.
MeansAtom(env, s, n) == FollowCopies(env, s) = Primitive(n)
MeansSum(env, s, n) == ResolveSum(env, s) = Primitive(n)
Means(env, s, n) == Resolve(env, s) = Primitive(n)

\* A value that refers to nothing resolves to itself at every depth.
LEMMA MeansAtEveryDepth ==
    ASSUME NEW env, NEW s, NEW n, MeansAtom(env, s, n)
    PROVE  MeansSum(env, s, n) /\ Means(env, s, n)
BY DEF MeansAtom, MeansSum, Means, ResolveSum, Resolve, ResolveValue, Primitive

\* A variable or a literal is parsed as what it is worth.
LEMMA AtomMeans ==
    ASSUME NEW Trees, AreExpressions(Trees), NEW root \in Trees, IsWithinNodes(root),
           NEW n \in Nat \ {0}, NEW e \in Within(root), IsAtom(e), HasRoom(e),
           NEW env \in [Vars -> Primitives]
    PROVE  /\ MeansAtom(env, SideState(root, n, e), AtomValue(e, env))
           /\ SideState(root, n, e) # NotParsed
<1>1. CASE IsVariable(e) /\ e.Name \in Vars /\ SideState(root, n, e) = CopyVar(e.Name)
  <2>1. AtomValue(e, env) = env[e.Name].Value
    BY <1>1 DEF AtomValue, IsVariable
  <2> QED BY <1>1, <2>1, ResolvedCopy, NotParsedIsApart DEF MeansAtom
<1>2. CASE \A any : SideState(root, n, e) = Primitive(AtomValue(e, any))
  <2>1. SideState(root, n, e) = Primitive(AtomValue(e, env))
    BY <1>2
  <2>2. FollowCopies(env, Primitive(AtomValue(e, env))) = Primitive(AtomValue(e, env))
    BY DEF FollowCopies, Primitive
  <2> QED BY <2>1, <2>2, NotParsedIsApart DEF MeansAtom
<1> QED BY <1>1, <1>2, AtomState

\* An operator of two sides that were parsed.
LEMMA CombinedState ==
    ASSUME NEW e, IsOperator(e), NEW lhs, lhs # NotParsed, NEW rhs, rhs # NotParsed, NEW other
    PROVE  /\ FirstParsed(Combine(e.Opcode, lhs, rhs), other)
                = Compute(lhs, OperatorOf(e.Opcode), rhs)
           /\ Compute(lhs, OperatorOf(e.Opcode), rhs) # NotParsed
BY NotParsedIsApart DEF IsOperator, Combine, FirstParsed

\* A computation resolves to the operator's value of what its sides resolve to.
LEMMA ComputedMeans ==
    ASSUME NEW env, NEW lhs, NEW rhs, NEW op, NEW a, NEW b
    PROVE  /\ MeansAtom(env, lhs, a) /\ MeansAtom(env, rhs, b) =>
                MeansSum(env, Compute(lhs, op, rhs), ApplyOperator(op, a, b))
           /\ MeansSum(env, lhs, a) /\ MeansSum(env, rhs, b) =>
                Means(env, Compute(lhs, op, rhs), ApplyOperator(op, a, b))
<1> DEFINE s == Compute(lhs, op, rhs)
<1>1. FollowCopies(env, s) = s /\ s.State = "Compute"
        /\ s.Operation = op /\ s.LHS = lhs /\ s.RHS = rhs
  BY DEF FollowCopies, Compute
<1> HIDE DEF s
<1>2. /\ Primitive(a).State = "Primitive" /\ Primitive(a).Value = a
      /\ Primitive(b).State = "Primitive" /\ Primitive(b).Value = b
  BY DEF Primitive
<1>3. PerformComputation(op, Primitive(a), Primitive(b)) = Primitive(ApplyOperator(op, a, b))
  BY <1>2 DEF PerformComputation
<1>4. ResolveSum(env, s) = PerformComputation(op, FollowCopies(env, lhs), FollowCopies(env, rhs))
  BY <1>1 DEF ResolveSum, ResolveValue, ResolveAtom
<1>5. Resolve(env, s) = PerformComputation(op, ResolveSum(env, lhs), ResolveSum(env, rhs))
  BY <1>1 DEF Resolve, ResolveValue
<1> QED BY <1>3, <1>4, <1>5 DEF MeansAtom, MeansSum, Means, s

\* The value of an operator, with those of its sides.
LEMMA OperatorValue ==
    ASSUME NEW e, IsOperator(e), NEW env
    PROVE  /\ ValueOfSum(e, env) = ApplyOperator(OperatorOf(e.Opcode),
                ValueOfFactor(e.Children[1], env), ValueOfFactor(e.Children[2], env))
           /\ Value(e, env) = ApplyOperator(OperatorOf(e.Opcode),
                ValueOfSum(e.Children[1], env), ValueOfSum(e.Children[2], env))
<1>1. e.Kind = "BinaryOperator" /\ e.Opcode \in {"+", "-", "*"}
  BY DEF IsOperator
<1>2. \A a, b : Arithmetic(e.Opcode, a, b) = ApplyOperator(OperatorOf(e.Opcode), a, b)
  BY <1>1 DEF Arithmetic, ApplyOperator, OperatorOf
<1>3. /\ ValueOfSum(e, env) = Arithmetic(e.Opcode,
                ValueOfFactor(e.Children[1], env), ValueOfFactor(e.Children[2], env))
      /\ Value(e, env) = Arithmetic(e.Opcode,
                ValueOfSum(e.Children[1], env), ValueOfSum(e.Children[2], env))
  BY <1>1 DEF ValueOfSum, Value, ValueOf, Comparisons
<1> QED BY <1>2, <1>3

\* An operator of variables and literals is parsed as what it is worth.
LEMMA SumMeans ==
    ASSUME NEW Trees, AreExpressions(Trees), NEW root \in Trees, IsWithinNodes(root),
           NEW n \in Nat, n >= 2, NEW e \in Within(root), IsSum(e), MaxNodes >= 2,
           NEW env \in [Vars -> Primitives]
    PROVE  /\ MeansSum(env, SideState(root, n, e), ValueOfSum(e, env))
           /\ SideState(root, n, e) # NotParsed
<1>1. MaxNodes \in Nat \ {0} /\ n \in Nat \ {0} /\ n - 1 \in Nat \ {0}
  BY MaxNodesAssumption
<1>2. \A any : HasRoom(any)
  BY <1>1 DEF HasRoom
<1>3. AreExpressions(Within(root)) /\ Within(root) \subseteq Trees
  BY WithinAreExpressions, PreorderType, ExpressionsHoldTheirParts
<1>4. CASE IsAtom(e)
  <2>1. MeansAtom(env, SideState(root, n, e), AtomValue(e, env)) /\ SideState(root, n, e) # NotParsed
    BY <1>1, <1>2, <1>4, AtomMeans
  <2>2. ValueOfSum(e, env) = AtomValue(e, env)
    BY <1>3, <1>4, AtomValueIs
  <2> QED BY <2>1, <2>2, MeansAtEveryDepth
<1>5. CASE IsOperator(e) /\ IsAtom(e.Children[1]) /\ IsAtom(e.Children[2])
  <2>1. e.Kind = "BinaryOperator"
    BY <1>5 DEF IsOperator
  <2>2. PICK lhs \in Within(root), rhs \in Within(root) :
                e.Children[1] = lhs /\ e.Children[2] = rhs
    BY <1>3, <2>1, OperatorSides
  <2> DEFINE left == SideState(root, n - 1, lhs)
             right == SideState(root, n - 1, rhs)
             op == OperatorOf(e.Opcode)
  <2>3. StateWithin(root, n, e) = FirstParsed(Combine(e.Opcode, left, right), LastVariable(<<>>))
    BY <1>1, <2>1, <2>2, OperatorState
  <2>4. MeansAtom(env, left, AtomValue(lhs, env)) /\ left # NotParsed
    BY <1>1, <1>2, <1>5, <2>2, AtomMeans
  <2>5. MeansAtom(env, right, AtomValue(rhs, env)) /\ right # NotParsed
    BY <1>1, <1>2, <1>5, <2>2, AtomMeans
  <2>6. ValueOfFactor(lhs, env) = AtomValue(lhs, env) /\ ValueOfFactor(rhs, env) = AtomValue(rhs, env)
    BY <1>3, <1>5, <2>2, AtomValueIs
  <2> HIDE DEF left, right, op
  <2>7. StateWithin(root, n, e) = Compute(left, op, right) /\ Compute(left, op, right) # NotParsed
    BY <1>5, <2>3, <2>4, <2>5, CombinedState DEF op
  <2>8. SideState(root, n, e) = Compute(left, op, right)
    BY <2>7 DEF SideState, FirstParsed
  <2>9. ValueOfSum(e, env) = ApplyOperator(op, AtomValue(lhs, env), AtomValue(rhs, env))
    BY <1>5, <2>2, <2>6, OperatorValue DEF op
  <2>10. MeansSum(env, Compute(left, op, right), ApplyOperator(op, AtomValue(lhs, env), AtomValue(rhs, env)))
    BY <2>4, <2>5, ComputedMeans
  <2> QED BY <2>7, <2>8, <2>9, <2>10
<1> QED BY <1>4, <1>5 DEF IsSum

\* Of an expression of variables and literals, the parser of assignments makes a state
\* that resolves to what the expression is worth (ComplexExpressionParser.h, lines 18
\* to 87), minus signs, nesting and overflow included, for every width of the integers.
THEOREM AssignmentsMeanWhatIsWritten ==
    ASSUME NEW Trees, AreExpressions(Trees), expression \in Trees, IsWithinNodes(expression)
    PROVE  AssignedAsWritten
<1> DEFINE e == expression
           n == MaxNodes
<1> SUFFICES ASSUME IsArithmetic(e), NEW env \in Environments
             PROVE  Means(env, Assigned(e), Value(e, env))
  BY DEF AssignedAsWritten, Means
<1>1. env \in [Vars -> Primitives]
  BY EnvironmentAssumption
<1>2. /\ e \in Trees /\ IsWithinNodes(e)
      /\ HoldsItsParts(Trees)
      /\ AreExpressions(Within(e)) /\ Within(e) \subseteq Trees /\ e \in Within(e)
  BY WithinAreExpressions, PreorderType, ExpressionsHoldTheirParts
<1>3. /\ n \in Nat \ {0}
      /\ e.Children # <<>> => n >= 2
      /\ \A c, d \in Trees : e.Children = <<c, d>> => n >= 3
  <2>1. HoldsItsParts(Trees) /\ e \in Trees /\ IsWithinNodes(e)
    BY <1>2
  <2> HIDE DEF e
  <2> QED BY <2>1, RoomForNodes
<1>4. Assigned(e) = SideState(e, n, e)
  BY DEF Assigned, ComplexExpression, SideState, StateWithin
<1> HIDE DEF e, n
<1>5. CASE IsAtom(e)
  <2>1. HasRoom(e)
    BY <1>3 DEF HasRoom, n
  <2>2. MeansAtom(env, SideState(e, n, e), AtomValue(e, env))
    BY <1>1, <1>2, <1>3, <1>5, <2>1, AtomMeans
  <2>3. Value(e, env) = AtomValue(e, env)
    BY <1>1, <1>2, <1>5, AtomValueIs
  <2> QED BY <1>4, <2>2, <2>3, MeansAtEveryDepth
<1>6. CASE IsOperator(e) /\ IsSum(e.Children[1]) /\ IsSum(e.Children[2])
  <2>1. e.Kind = "BinaryOperator"
    BY <1>6 DEF IsOperator
  <2>2. PICK lhs \in Within(e), rhs \in Within(e) :
                e.Children = <<lhs, rhs>> /\ e.Children[1] = lhs /\ e.Children[2] = rhs
    BY <1>2, <2>1, OperatorSides
  <2>3. n >= 3 /\ n - 1 \in Nat /\ n - 1 >= 2 /\ MaxNodes >= 2
    <3>1. lhs \in Trees /\ rhs \in Trees
      BY <1>2
    <3>2. n >= 3
      BY <1>3, <2>2, <3>1
    <3> QED BY <1>3, <3>2 DEF n
  <2> DEFINE left == SideState(e, n - 1, lhs)
             right == SideState(e, n - 1, rhs)
             op == OperatorOf(e.Opcode)
  <2>4. StateWithin(e, n, e) = FirstParsed(Combine(e.Opcode, left, right), LastVariable(<<>>))
    BY <1>2, <1>3, <2>1, <2>2, OperatorState
  <2>5. MeansSum(env, left, ValueOfSum(lhs, env)) /\ left # NotParsed
    BY <1>1, <1>2, <1>6, <2>2, <2>3, SumMeans
  <2>6. MeansSum(env, right, ValueOfSum(rhs, env)) /\ right # NotParsed
    BY <1>1, <1>2, <1>6, <2>2, <2>3, SumMeans
  <2> HIDE DEF left, right, op
  <2>7. StateWithin(e, n, e) = Compute(left, op, right) /\ Compute(left, op, right) # NotParsed
    BY <1>6, <2>4, <2>5, <2>6, CombinedState DEF op
  <2>8. SideState(e, n, e) = Compute(left, op, right)
    BY <2>7 DEF SideState, FirstParsed
  <2>9. Value(e, env) = ApplyOperator(op, ValueOfSum(lhs, env), ValueOfSum(rhs, env))
    BY <1>6, <2>2, OperatorValue DEF op
  <2>10. Means(env, Compute(left, op, right),
               ApplyOperator(op, ValueOfSum(lhs, env), ValueOfSum(rhs, env)))
    BY <2>5, <2>6, ComputedMeans
  <2> QED BY <1>4, <2>8, <2>9, <2>10
<1> QED BY <1>5, <1>6 DEF IsArithmetic

----------------------------------------------------------------------------
(* The visitors of conditions.                                             *)

FoundVariables == Copies \cup {NotParsed}
ConditionVisitorStates ==
    [Variable : FoundVariables, Parts : ParsedConditions \cup {NotParsed}, Done : BOOLEAN]

\* The leaves that are made of a variable and what it is compared with.
LEMMA ComparedConstantType ==
    ASSUME NEW opcode \in Comparisons, NEW subject \in Copies, NEW other \in Copies \cup Primitives
    PROVE  /\ other \in Copies =>
                Leaf(subject, ComparedTo(ComparisonOf(opcode), other.Source)) \in ParsedConditions
           /\ other \in Primitives =>
                Leaf(subject, ComparedConstant(ComparisonOf(opcode), other)) \in ParsedConditions
<1>1. ComparisonOf(opcode) \in COMPARISON
  BY DEF Comparisons, ComparisonOf, COMPARISON
<1> DEFINE op == ComparisonOf(opcode)
<1> HIDE DEF op
<1>2. ASSUME other \in Copies PROVE Leaf(subject, ComparedTo(op, other.Source)) \in ParsedConditions
  <2>1. other.Source \in Vars
    BY <1>2 DEF Copies
  <2>2. ComparedTo(op, other.Source) \in ValueRanges
    BY <1>1, <2>1 DEF op, ComparedTo, ValueRanges
  <2>3. ComparedTo(op, other.Source).Type = "Comparison"
    BY DEF ComparedTo
  <2> QED BY <2>2, <2>3 DEF Leaf, Leaves, ParsedConditions
<1>3. ASSUME other \in Primitives PROVE Leaf(subject, ComparedConstant(op, other)) \in ParsedConditions
  <2>1. ComparedConstant(op, other) \in ValueRanges
    BY <1>1, <1>3 DEF op, ComparedConstant, ValueRanges, Literals
  <2>2. ComparedConstant(op, other).ComparedConstant = other
    BY DEF ComparedConstant
  <2> QED BY <1>3, <2>1, <2>2 DEF Leaf, Leaves, ParsedConditions
<1> QED BY <1>2, <1>3 DEF op

LEMMA NotZeroLeafType ==
    ASSUME NEW subject \in Copies
    PROVE  Leaf(subject, NotZero) \in ParsedConditions
BY DEF Leaf, NotZero, Leaves, ValueRanges, ParsedConditions

\* A node leaves a visitor of conditions in one of its states.
LEMMA VisitedNodeType ==
    ASSUME NEW Trees, AreExpressions(Trees), NEW visitor \in ConditionVisitorStates,
           NEW node \in Trees, NEW visitors \in [Trees -> ConditionVisitorStates]
    PROVE  VisitConditionNode(visitor, node, visitors) \in ConditionVisitorStates
<1> DEFINE Ended(parts) == [visitor EXCEPT !.Done = TRUE, !.Parts = parts]
<1>1. ASSUME NEW parts \in ParsedConditions \cup {NotParsed}
      PROVE  Ended(parts) \in ConditionVisitorStates
  BY DEF ConditionVisitorStates
<1>2. CASE node.Kind = "BinaryOperator"
  <2>1. PICK lhs \in Trees, rhs \in Trees : node.Children[1] = lhs /\ node.Children[2] = rhs
    BY <1>2, OperatorSides
  <2> DEFINE left == visitors[lhs].Variable
             right == visitors[rhs].Variable
             leftConstant == LiteralState(lhs)
             rightConstant == LiteralState(rhs)
  <2>2. left \in FoundVariables /\ right \in FoundVariables
    BY DEF ConditionVisitorStates
  <2>3. rightConstant \in Primitives \cup {NotParsed}
    BY LiteralStateType
  <2> HIDE DEF left, right, leftConstant, rightConstant
  <2>4. VisitConditionOperator(visitor, node, visitors)
            \in {visitor, [visitor EXCEPT !.Done = TRUE],
                 Ended(ComparisonLeaf(node.Opcode, left, right, rightConstant))}
    BY <2>1 DEF VisitConditionOperator, left, right, leftConstant, rightConstant
  <2>5. CASE /\ node.Opcode \in Comparisons /\ left # NotParsed
             /\ {right, rightConstant} # {NotParsed}
    <3>1. left \in Copies /\ (right # NotParsed => right \in Copies)
            /\ (right = NotParsed => rightConstant \in Primitives)
      BY <2>2, <2>3, <2>5 DEF FoundVariables
    <3>2. ComparisonLeaf(node.Opcode, left, right, rightConstant) \in ParsedConditions
      <4>1. CASE right # NotParsed
        BY <2>5, <3>1, <4>1, ComparedConstantType DEF ComparisonLeaf
      <4>2. CASE right = NotParsed
        BY <2>5, <3>1, <4>2, ComparedConstantType DEF ComparisonLeaf
      <4> QED BY <4>1, <4>2
    <3>3. [visitor EXCEPT !.Done = TRUE] \in ConditionVisitorStates
      BY DEF ConditionVisitorStates
    <3>4. VisitConditionOperator(visitor, node, visitors) \in ConditionVisitorStates
      BY <1>1, <2>4, <3>2, <3>3
    <3> QED BY <1>2, <3>4 DEF VisitConditionNode, IsOfKind
  <2>6. CASE ~(/\ node.Opcode \in Comparisons /\ left # NotParsed
               /\ {right, rightConstant} # {NotParsed})
    <3>1. VisitConditionOperator(visitor, node, visitors)
            \in {visitor, [visitor EXCEPT !.Done = TRUE]}
      BY <2>1, <2>6 DEF VisitConditionOperator, left, right, leftConstant, rightConstant
    <3>2. [visitor EXCEPT !.Done = TRUE] \in ConditionVisitorStates
      BY DEF ConditionVisitorStates
    <3> QED BY <1>2, <3>1, <3>2 DEF VisitConditionNode, IsOfKind
  <2> QED BY <2>5, <2>6
<1>3. CASE node.Kind = "ImplicitCastToBoolean"
  <2>1. IsExpressionOver(node, Trees)
    BY DEF AreExpressions
  <2>2. PICK operand \in Trees : node = ToBoolean(operand)
    BY <1>3, <2>1 DEF IsExpressionOver, ArraySubscriptExpr, Node
  <2>3. node.Children[1] = operand
    BY <2>2 DEF ToBoolean, Node
  <2> DEFINE variable == visitors[operand].Variable
  <2>4. variable \in FoundVariables
    BY DEF ConditionVisitorStates
  <2> HIDE DEF variable
  <2>5. VisitConditionCast(visitor, variable) \in ConditionVisitorStates
    <3>1. CASE variable = NotParsed
      BY <3>1 DEF VisitConditionCast, ConditionVisitorStates
    <3>2. CASE variable # NotParsed
      <4>1. Leaf(variable, NotZero) \in ParsedConditions
        BY <2>4, <3>2, NotZeroLeafType DEF FoundVariables
      <4> QED BY <3>2, <4>1 DEF VisitConditionCast, ConditionVisitorStates
    <3> QED BY <3>1, <3>2
  <2> QED BY <1>3, <2>3, <2>5 DEF VisitConditionNode, IsOfKind, variable
<1>4. CASE node.Kind \notin {"BinaryOperator", "ImplicitCastToBoolean"}
  <2>1. IsVariable(node) => CopyVar(node.Name) \in FoundVariables
    BY DEF IsVariable, CopyVar, Copies, FoundVariables
  <2>2. VisitConditionNode(visitor, node, visitors) = visitor
            \/ /\ IsVariable(node)
               /\ VisitConditionNode(visitor, node, visitors)
                    = [visitor EXCEPT !.Variable = CopyVar(node.Name)]
    BY <1>4 DEF VisitConditionNode, IsOfKind
  <2> QED BY <2>1, <2>2 DEF ConditionVisitorStates
<1> QED BY <1>2, <1>3, <1>4

\* What the recursive definition of the visitors says.
LEMMA ConditionVisitorSteps ==
    ASSUME NEW Trees, AreExpressions(Trees), NEW nodes \in Seq(Trees),
           NEW visitors \in [Trees -> ConditionVisitorStates]
    PROVE  /\ ConditionVisitors(nodes, visitors)[0] = ConditionVisitor
           /\ \A i \in 1 .. Len(nodes) :
                ConditionVisitors(nodes, visitors)[i]
                    = VisitConditionNode(ConditionVisitors(nodes, visitors)[i - 1], nodes[i], visitors)
           /\ \A i \in 0 .. Len(nodes) :
                ConditionVisitors(nodes, visitors)[i] \in ConditionVisitorStates
<1> DEFINE X == ConditionVisitorStates
           n == Len(nodes)
           base == ConditionVisitor
           Next(i, visitor) == VisitConditionNode(visitor, nodes[i], visitors)
           step == [m \in Nat |-> [visitor \in X |->
                        IF m + 1 <= n THEN Next(m + 1, visitor) ELSE visitor]]
           IsUpTo(upTo) ==
                upTo = [i \in 0 .. n |-> IF i = 0 THEN ConditionVisitor
                            ELSE VisitConditionNode(upTo[i - 1], nodes[i], visitors)]
<1>1. n \in Nat /\ \A i \in 1 .. n : nodes[i] \in Trees
  OBVIOUS
<1>2. base \in X
  BY DEF ConditionVisitor, ConditionVisitorStates, FoundVariables
<1> HIDE DEF n, base, X
<1>3. ASSUME NEW i \in 1 .. n, NEW visitor \in X PROVE Next(i, visitor) \in X
  BY <1>1, VisitedNodeType DEF X
<1>4. \A upTo : IsUpTo(upTo) <=>
            upTo = [i \in 0 .. n |-> IF i = 0 THEN base ELSE Next(i, upTo[i - 1])]
  BY DEF base
<1>5. ConditionVisitors(nodes, visitors) = CHOOSE upTo : IsUpTo(upTo)
  BY DEF ConditionVisitors, IsUpTo, n
<1> HIDE DEF Next, IsUpTo
<1>6. step \in [Nat -> [X -> X]]
  <2> SUFFICES ASSUME NEW m \in Nat, NEW visitor \in X, m + 1 <= n
               PROVE  Next(m + 1, visitor) \in X
    OBVIOUS
  <2>1. m + 1 \in 1 .. n
    BY <1>1
  <2> QED BY <1>3, <2>1
<1>7. \A m \in Nat : \A visitor \in X : m + 1 <= n => step[m][visitor] = Next(m + 1, visitor)
  OBVIOUS
<1> HIDE DEF step
<1>8. PICK f \in [Nat -> X] : IsRecursiveOver(f, base, step)
  BY <1>2, <1>6, Recursion
<1>9. f[0] = base /\ \A m \in Nat : f[m + 1] = step[m][f[m]]
  BY <1>8 DEF IsRecursiveOver
<1> DEFINE g == [i \in 0 .. n |-> f[i]]
<1>10. ASSUME NEW i \in 1 .. n PROVE f[i] = Next(i, f[i - 1])
  <2>1. i - 1 \in Nat /\ (i - 1) + 1 = i /\ i <= n
    BY <1>1
  <2>2. f[i - 1] \in X
    BY <2>1
  <2>3. step[i - 1][f[i - 1]] = Next((i - 1) + 1, f[i - 1])
    BY <1>7, <2>1, <2>2
  <2>4. f[(i - 1) + 1] = step[i - 1][f[i - 1]]
    BY <1>9, <2>1
  <2> QED BY <2>1, <2>3, <2>4
<1>11. \A i \in 0 .. n : i # 0 => i \in 1 .. n /\ i - 1 \in 0 .. n
  BY <1>1
<1>12. IsUpTo(g)
  <2>1. ASSUME NEW i \in 0 .. n PROVE g[i] = IF i = 0 THEN base ELSE Next(i, g[i - 1])
    <3>1. CASE i = 0
      BY <1>9, <3>1
    <3>2. CASE i # 0
      BY <1>10, <1>11, <3>2
    <3> QED BY <3>1, <3>2
  <2>2. g = [i \in 0 .. n |-> g[i]]
    OBVIOUS
  <2> HIDE DEF g
  <2> QED BY <1>4, <2>1, <2>2
<1> DEFINE h == ConditionVisitors(nodes, visitors)
<1>13. h = [i \in 0 .. n |-> IF i = 0 THEN base ELSE Next(i, h[i - 1])]
  BY <1>4, <1>5, <1>12
<1> HIDE DEF h
<1>14. h[0] = base /\ \A i \in 1 .. n : h[i] = Next(i, h[i - 1])
  BY <1>1, <1>13
<1>15. \A i \in 0 .. n : h[i] \in X
  <2> DEFINE S == {i \in Nat : i <= n => h[i] \in X}
  <2>1. 0 \in S
    BY <1>2, <1>14
  <2>2. ASSUME NEW i \in Nat, i \in S PROVE i + 1 \in S
    <3> SUFFICES ASSUME i + 1 <= n PROVE h[i + 1] \in X
      OBVIOUS
    <3>1. i + 1 \in 1 .. n /\ (i + 1) - 1 = i /\ i <= n
      BY <1>1
    <3>2. h[i] \in X
      BY <2>2, <3>1
    <3> QED BY <1>3, <1>14, <3>1, <3>2
  <2> HIDE DEF S
  <2>3. Nat \subseteq S
    BY <2>1, <2>2, Induction
  <2> QED BY <2>3 DEF S
<1> QED BY <1>14, <1>15 DEF h, n, base, Next, X

\* So does a whole visit.
LEMMA VisitConditionType ==
    ASSUME NEW Trees, AreExpressions(Trees), NEW e \in Trees,
           NEW visitors \in [Trees -> ConditionVisitorStates]
    PROVE  VisitCondition(e, visitors) \in ConditionVisitorStates
<1> DEFINE nodes == Preorder(e)
<1>1. nodes \in Seq(Trees)
  BY ExpressionsHoldTheirParts, PreorderType
<1>2. Len(nodes) \in 0 .. Len(nodes)
  BY <1>1
<1> HIDE DEF nodes
<1>3. ConditionVisitors(nodes, visitors)[Len(nodes)] \in ConditionVisitorStates
  BY <1>1, <1>2, ConditionVisitorSteps
<1> QED BY <1>3 DEF VisitCondition, nodes

NestedVisitors(root, n, inner) ==
    [e \in Within(root) |->
        IF n = 0 THEN ConditionVisitor ELSE VisitCondition(e, inner)]

\* What the recursive definition of nested visitors says.
LEMMA NestedVisitorsSteps ==
    ASSUME NEW root, AreExpressions(Within(root))
    PROVE  /\ \A n \in Nat : VisitorsWithin(root)[n] \in [Within(root) -> ConditionVisitorStates]
           /\ \A n \in Nat : VisitorsWithin(root)[n + 1]
                                = NestedVisitors(root, 1, VisitorsWithin(root)[n])
<1> DEFINE W == Within(root)
           X == [W -> ConditionVisitorStates]
           base == NestedVisitors(root, 0, {})
           Next(inner) == NestedVisitors(root, 1, inner)
           step == [m \in Nat |-> [inner \in X |-> Next(inner)]]
           IsNested(nested) ==
                nested = [n \in Nat |-> [e \in Within(root) |->
                            IF n = 0 THEN ConditionVisitor ELSE VisitCondition(e, nested[n - 1])]]
<1>1. base \in X
  BY DEF NestedVisitors, ConditionVisitor, ConditionVisitorStates, FoundVariables
<1>2. ASSUME NEW inner \in X PROVE Next(inner) \in X
  <2>1. ASSUME NEW e \in W PROVE VisitCondition(e, inner) \in ConditionVisitorStates
    BY VisitConditionType
  <2> QED BY <2>1 DEF NestedVisitors
<1>3. \A nested : IsNested(nested) <=>
            nested = [n \in Nat |-> IF n = 0 THEN base ELSE Next(nested[n - 1])]
  BY DEF NestedVisitors
<1>4. VisitorsWithin(root) = CHOOSE nested : IsNested(nested)
  BY DEF VisitorsWithin
<1> HIDE DEF W, X, base, Next, IsNested
<1>5. step \in [Nat -> [X -> X]]
  BY <1>2
<1>6. \A m \in Nat : \A inner \in X : step[m][inner] = Next(inner)
  OBVIOUS
<1> HIDE DEF step
<1>7. PICK f \in [Nat -> X] : IsRecursiveOver(f, base, step)
  BY <1>1, <1>5, Recursion
<1>8. f[0] = base /\ \A m \in Nat : f[m + 1] = Next(f[m])
  BY <1>6, <1>7 DEF IsRecursiveOver
<1>9. IsNested(f)
  <2>1. ASSUME NEW n \in Nat PROVE f[n] = IF n = 0 THEN base ELSE Next(f[n - 1])
    <3>1. CASE n = 0
      BY <1>8, <3>1
    <3>2. CASE n # 0
      <4>1. n - 1 \in Nat /\ (n - 1) + 1 = n
        BY <3>2
      <4> QED BY <1>8, <3>2, <4>1
    <3> QED BY <3>1, <3>2
  <2>2. f = [n \in Nat |-> f[n]]
    BY <1>7
  <2> QED BY <1>3, <2>1, <2>2
<1> DEFINE h == VisitorsWithin(root)
<1>10. h = [n \in Nat |-> IF n = 0 THEN base ELSE Next(h[n - 1])]
  BY <1>3, <1>4, <1>9
<1> HIDE DEF h
<1>11. h[0] = base
  BY <1>10
<1>12. ASSUME NEW n \in Nat PROVE h[n + 1] = Next(h[n])
  <2>1. n + 1 \in Nat /\ n + 1 # 0 /\ (n + 1) - 1 = n
    OBVIOUS
  <2> QED BY <1>10, <2>1
<1>13. \A n \in Nat : h[n] \in X
  <2> DEFINE S == {n \in Nat : h[n] \in X}
  <2>1. 0 \in S
    BY <1>1, <1>11
  <2>2. \A n \in Nat : n \in S => n + 1 \in S
    BY <1>2, <1>12
  <2> HIDE DEF S
  <2>3. Nat \subseteq S
    BY <2>1, <2>2, Induction
  <2> QED BY <2>3 DEF S
<1> QED BY <1>12, <1>13 DEF h, W, X, Next

\* The visitors of the operands, and what is made with them.
OperandVisitors(root) == VisitorsWithin(root)[MaxNodes - 1]

LEMMA VisitorOfNode ==
    ASSUME NEW Trees, AreExpressions(Trees), NEW root \in Trees, IsWithinNodes(root)
    PROVE  /\ OperandVisitors(root) \in [Within(root) -> ConditionVisitorStates]
           /\ \A e \in Within(root) :
                VisitorsWithin(root)[MaxNodes][e] = VisitCondition(e, OperandVisitors(root))
<1> DEFINE n == MaxNodes - 1
           inner == VisitorsWithin(root)[n]
<1>1. n \in Nat /\ n + 1 = MaxNodes
  BY ExpressionsHoldTheirParts, RoomForNodes
<1>2. AreExpressions(Within(root))
  BY WithinAreExpressions
<1>3. inner \in [Within(root) -> ConditionVisitorStates]
        /\ VisitorsWithin(root)[n + 1] = NestedVisitors(root, 1, inner)
  BY <1>1, <1>2, NestedVisitorsSteps
<1>4. inner = OperandVisitors(root)
  BY DEF OperandVisitors
<1> HIDE DEF inner
<1>5. VisitorsWithin(root)[MaxNodes] = NestedVisitors(root, 1, inner)
  BY <1>1, <1>3
<1> QED BY <1>3, <1>4, <1>5 DEF NestedVisitors

\* Whatever the condition of an if statement is, it is parsed as a leaf or not at all.
LEMMA ParsedConditionType ==
    ASSUME NEW Trees, AreExpressions(Trees), NEW e \in Trees, IsWithinNodes(e)
    PROVE  ParsedCondition(e) \in ParsedConditions \cup {NotParsed}
<1> DEFINE W == Within(e)
           visitor == VisitorsWithin(e)[MaxNodes][e]
<1>1. AreExpressions(W) /\ e \in W
  BY WithinAreExpressions
<1>2. OperandVisitors(e) \in [W -> ConditionVisitorStates]
        /\ visitor = VisitCondition(e, OperandVisitors(e))
  BY <1>1, VisitorOfNode
<1> HIDE DEF W
<1>3. VisitCondition(e, OperandVisitors(e)) \in ConditionVisitorStates
  BY <1>1, <1>2, VisitConditionType
<1>4. ParsedCondition(e) = IF visitor.Parts # NotParsed THEN visitor.Parts
                           ELSE IF visitor.Variable # NotParsed THEN Leaf(visitor.Variable, NotZero)
                           ELSE NotParsed
  BY DEF ParsedCondition
<1> HIDE DEF visitor
<1> QED BY <1>2, <1>3, <1>4, NotZeroLeafType DEF ConditionVisitorStates, FoundVariables

----------------------------------------------------------------------------
(* What the visitors are handed.                                           *)

\* Operators nested to the depth of the states that they make (Expressions).
HasNoOperator(e) == \A node \in Within(e) : node.Kind # "BinaryOperator"
HasOperatorsOver(e, IsSide(_)) ==
    \A node \in Within(e) : node.Kind = "BinaryOperator" =>
        IsSide(node.Children[1]) /\ IsSide(node.Children[2])
HasPlainOperators(e) == HasOperatorsOver(e, HasNoOperator)
IsNestedTwice(e) == HasOperatorsOver(e, HasPlainOperators)

ParsedStates(S) == S \cup {NotParsed}

\* A side that is not parsed may have a literal.
LEMMA ParsedSide ==
    ASSUME NEW Trees, AreExpressions(Trees), NEW e \in Trees, NEW root, NEW n,
           NEW S, Primitives \subseteq S, StateWithin(root, n, e) \in ParsedStates(S)
    PROVE  SideState(root, n, e) \in ParsedStates(S)
<1>1. LiteralState(e) \in ParsedStates(S)
  BY LiteralStateType DEF ParsedStates
<1> QED BY <1>1 DEF SideState, FirstParsed

\* The sides of an operator within an expression are within it; what an expression is
\* parsed as is the last variable, or what is made of its first operator.
LEMMA ParsedForms ==
    ASSUME NEW Trees, AreExpressions(Trees), NEW root \in Trees, IsWithinNodes(root),
           NEW n \in Nat, NEW e \in Within(root)
    PROVE  \/ StateWithin(root, n, e) \in ParsedStates(Copies)
           \/ /\ n # 0
              /\ \E op \in Within(e) : \E lhs, rhs \in Within(root) :
                    /\ op.Kind = "BinaryOperator"
                    /\ op.Children[1] = lhs /\ op.Children[2] = rhs
                    /\ op.Opcode \in {"+", "*", "-"}
                    /\ SideState(root, n - 1, lhs) # NotParsed
                    /\ SideState(root, n - 1, rhs) # NotParsed
                    /\ StateWithin(root, n, e)
                        = Compute(SideState(root, n - 1, lhs), OperatorOf(op.Opcode),
                                  SideState(root, n - 1, rhs))
<1> DEFINE W == Within(root)
<1>1. AreExpressions(W) /\ HoldsItsParts(W) /\ e \in W
  BY WithinAreExpressions
<1> HIDE DEF W
<1>2. Preorder(e) \in Seq(W) /\ Within(e) \subseteq W
  BY <1>1, PreorderType
<1>3. /\ NodesBefore(e, "BinaryOperator") \in Seq(W)
      /\ EndsBefore(Preorder(e), NodesBefore(e, "BinaryOperator"), "BinaryOperator")
  BY <1>1, NodesBeforeKind
<1>4. CASE n = 0
  <2>1. StatesWithin(root)[0] = NestedStates(root, 0, StatesWithin(root)[0 - 1])
    BY StatesSteps
  <2> QED BY <1>4, <2>1 DEF StateWithin, NestedStates, ParsedStates
<1>5. CASE n # 0
  <2> DEFINE states == StatesWithin(root)[n - 1]
             nodes == Preorder(e)
             before == NodesBefore(e, "BinaryOperator")
             op == nodes[Len(before) + 1]
             Side(t) == FirstParsed(states[t], LiteralState(t))
  <2>1. StateWithin(root, n, e) = ParseExpression(states, e)
    BY <1>5, StateSteps
  <2>2. \A t : SideState(root, n - 1, t) = Side(t)
    BY DEF SideState, StateWithin
  <2>3. ParseExpression(states, e) =
            IF before = nodes THEN LastVariable(nodes)
            ELSE FirstParsed(Combine(op.Opcode, Side(op.Children[1]), Side(op.Children[2])),
                             LastVariable(before))
    BY DEF ParseExpression
  <2>4. Within(e) = ToSet(nodes)
    BY DEF Within
  <2> HIDE DEF states, nodes, before, Side
  <2>5. LastVariable(nodes) \in ParsedStates(Copies) /\ LastVariable(before) \in ParsedStates(Copies)
    BY <1>2, <1>3, LastVariableType DEF ParsedStates, nodes, before
  <2>6. CASE before = nodes
    BY <2>1, <2>3, <2>5, <2>6
  <2>7. CASE before # nodes
    <3>1. op \in Within(e) /\ op.Kind = "BinaryOperator"
      <4>1. EndsBefore(nodes, before, "BinaryOperator")
        BY <1>3 DEF nodes, before
      <4> QED BY <2>4, <2>7, <4>1 DEF EndsBefore, ToSet
    <3> HIDE DEF op
    <3>2. PICK lhs \in W, rhs \in W : op.Children[1] = lhs /\ op.Children[2] = rhs
      BY <1>1, <1>2, <3>1, OperatorSides
    <3> DEFINE left == Side(lhs)
               right == Side(rhs)
    <3>3. StateWithin(root, n, e) = FirstParsed(Combine(op.Opcode, left, right), LastVariable(before))
      BY <2>1, <2>3, <2>7, <3>2 DEF op
    <3> HIDE DEF left, right
    <3>4. CASE op.Opcode \in {"+", "*", "-"} /\ left # NotParsed /\ right # NotParsed
      <4>1. StateWithin(root, n, e) = Compute(left, OperatorOf(op.Opcode), right)
        BY <3>3, <3>4, NotParsedIsApart DEF Combine, FirstParsed
      <4> QED BY <1>5, <2>2, <3>1, <3>2, <3>4, <4>1 DEF left, right, W
    <3>5. CASE ~(op.Opcode \in {"+", "*", "-"} /\ left # NotParsed /\ right # NotParsed)
      <4>1. StateWithin(root, n, e) = LastVariable(before)
        BY <3>3, <3>5 DEF Combine, FirstParsed
      <4> QED BY <2>5, <4>1
    <3> QED BY <3>4, <3>5
  <2> QED BY <2>6, <2>7
<1> QED BY <1>4, <1>5

\* A computation over parsed sides.
LEMMA ComputedStateType ==
    ASSUME NEW opcode \in {"+", "*", "-"}, NEW S, NEW lhs \in S, NEW rhs \in S
    PROVE  /\ Compute(lhs, OperatorOf(opcode), rhs) \in ComputesOver(S)
           /\ Compute(lhs, OperatorOf(opcode), rhs) # Unknown
<1>1. OperatorOf(opcode) \in OPERATOR
  BY DEF OperatorOf, OPERATOR
<1> QED BY <1>1 DEF Compute, ComputesOver, Unknown

\* The states of an expression without operators, with operators, with nested ones.
LEMMA PlainState ==
    ASSUME NEW Trees, AreExpressions(Trees), NEW root \in Trees, IsWithinNodes(root),
           NEW n \in Nat, NEW e \in Within(root), HasNoOperator(e)
    PROVE  SideState(root, n, e) \in ParsedStates(Atoms)
<1>1. e \in Trees
  BY ExpressionsHoldTheirParts, PreorderType
<1>2. StateWithin(root, n, e) \in ParsedStates(Copies)
  BY ParsedForms DEF HasNoOperator
<1>3. StateWithin(root, n, e) \in ParsedStates(Atoms) /\ Primitives \subseteq Atoms
  BY <1>2 DEF ParsedStates, Atoms, ResolvedStates
<1> QED BY <1>1, <1>3, ParsedSide

LEMMA SumState ==
    ASSUME NEW Trees, AreExpressions(Trees), NEW root \in Trees, IsWithinNodes(root),
           NEW n \in Nat, NEW e \in Within(root), HasPlainOperators(e)
    PROVE  SideState(root, n, e) \in ParsedStates(Sums)
<1>1. e \in Trees
  BY ExpressionsHoldTheirParts, PreorderType
<1>2. Primitives \subseteq Sums
  BY DEF Sums, Atoms, ResolvedStates
<1> SUFFICES StateWithin(root, n, e) \in ParsedStates(Sums)
  BY <1>1, <1>2, ParsedSide
<1>3. CASE StateWithin(root, n, e) \in ParsedStates(Copies)
  BY <1>3 DEF ParsedStates, Sums, Atoms
<1>4. CASE n # 0 /\ StateWithin(root, n, e) \notin ParsedStates(Copies)
  <2>1. PICK op \in Within(e), lhs \in Within(root), rhs \in Within(root) :
            /\ op.Kind = "BinaryOperator"
            /\ op.Children[1] = lhs /\ op.Children[2] = rhs
            /\ op.Opcode \in {"+", "*", "-"}
            /\ SideState(root, n - 1, lhs) # NotParsed
            /\ SideState(root, n - 1, rhs) # NotParsed
            /\ StateWithin(root, n, e)
                = Compute(SideState(root, n - 1, lhs), OperatorOf(op.Opcode),
                          SideState(root, n - 1, rhs))
    BY <1>4, ParsedForms
  <2>2. HasNoOperator(lhs) /\ HasNoOperator(rhs)
    BY <2>1 DEF HasPlainOperators, HasOperatorsOver
  <2>3. n - 1 \in Nat
    BY <1>4
  <2> DEFINE left == SideState(root, n - 1, lhs)
             right == SideState(root, n - 1, rhs)
  <2>4. left \in ParsedStates(Atoms) /\ right \in ParsedStates(Atoms)
    BY <2>2, <2>3, PlainState
  <2>5. left \in Atoms /\ right \in Atoms
    BY <2>1, <2>4 DEF ParsedStates
  <2> HIDE DEF left, right
  <2>6. Compute(left, OperatorOf(op.Opcode), right) \in ComputesOver(Atoms)
    BY <2>1, <2>5, ComputedStateType
  <2> QED BY <2>1, <2>6 DEF left, right, ParsedStates, Sums
<1> QED BY <1>3, <1>4, ParsedForms

KnownExpressions == Expressions \ {Unknown}

LEMMA ExpressionState ==
    ASSUME NEW Trees, AreExpressions(Trees), NEW root \in Trees, IsWithinNodes(root),
           NEW n \in Nat, NEW e \in Within(root), IsNestedTwice(e)
    PROVE  SideState(root, n, e) \in ParsedStates(KnownExpressions)
<1>1. e \in Trees
  BY ExpressionsHoldTheirParts, PreorderType
<1>2. Primitives \subseteq KnownExpressions
  BY DEF KnownExpressions, Expressions, Sums, Atoms, ResolvedStates, Primitives, Unknown
<1> SUFFICES StateWithin(root, n, e) \in ParsedStates(KnownExpressions)
  BY <1>1, <1>2, ParsedSide
<1>3. CASE StateWithin(root, n, e) \in ParsedStates(Copies)
  <2>1. Copies \subseteq KnownExpressions
    BY DEF KnownExpressions, Expressions, Sums, Atoms, Copies, Unknown
  <2> QED BY <1>3, <2>1 DEF ParsedStates
<1>4. CASE n # 0 /\ StateWithin(root, n, e) \notin ParsedStates(Copies)
  <2>1. PICK op \in Within(e), lhs \in Within(root), rhs \in Within(root) :
            /\ op.Kind = "BinaryOperator"
            /\ op.Children[1] = lhs /\ op.Children[2] = rhs
            /\ op.Opcode \in {"+", "*", "-"}
            /\ SideState(root, n - 1, lhs) # NotParsed
            /\ SideState(root, n - 1, rhs) # NotParsed
            /\ StateWithin(root, n, e)
                = Compute(SideState(root, n - 1, lhs), OperatorOf(op.Opcode),
                          SideState(root, n - 1, rhs))
    BY <1>4, ParsedForms
  <2>2. HasPlainOperators(lhs) /\ HasPlainOperators(rhs)
    BY <2>1 DEF IsNestedTwice, HasOperatorsOver
  <2>3. n - 1 \in Nat
    BY <1>4
  <2> DEFINE left == SideState(root, n - 1, lhs)
             right == SideState(root, n - 1, rhs)
  <2>4. left \in ParsedStates(Sums) /\ right \in ParsedStates(Sums)
    BY <2>2, <2>3, SumState
  <2>5. left \in Sums /\ right \in Sums
    BY <2>1, <2>4 DEF ParsedStates
  <2> HIDE DEF left, right
  <2>6. /\ Compute(left, OperatorOf(op.Opcode), right) \in ComputesOver(Sums)
        /\ Compute(left, OperatorOf(op.Opcode), right) # Unknown
    BY <2>1, <2>5, ComputedStateType
  <2> QED BY <2>1, <2>6 DEF left, right, ParsedStates, KnownExpressions, Expressions
<1> QED BY <1>3, <1>4, ParsedForms

\* Whatever is written, the parsers return what the visitors of statements and the
\* analyzer take, for every width of the integers and of the literals. Of an assignment,
\* as far as its operators are nested no deeper than in the states of this model.
THEOREM ParsersReturnWhatIsTaken ==
    ASSUME NEW Trees, AreExpressions(Trees), expression \in Trees, IsWithinNodes(expression),
           IsNestedTwice(expression)
    PROVE  ResultsAreAccepted
<1> DEFINE e == expression
<1>1. e \in Trees /\ IsWithinNodes(e) /\ HoldsItsParts(Trees) /\ IsNestedTwice(e)
  BY ExpressionsHoldTheirParts
<1>2. Assigned(e) = SideState(e, MaxNodes, e)
  BY DEF Assigned, ComplexExpression, SideState, StateWithin
<1>3. /\ SwitchSubject(e) = FirstParsed(LastVariable(NodesBefore(e, "ArraySubscriptExpr")),
                                        LiteralState(e))
      /\ Argument(e) = IF LiteralState(e) = NotParsed THEN Unknown ELSE LiteralState(e)
  BY DEF SwitchSubject, VariableRef, Argument
<1> SUFFICES /\ Assigned(e) \in (Expressions \ {Unknown}) \cup {NotParsed}
             /\ ParsedCondition(e) \in ParsedConditions \cup {NotParsed}
             /\ SwitchSubject(e) \in Copies \cup Primitives \cup {NotParsed}
             /\ Argument(e) \in Literals
  BY DEF ResultsAreAccepted
<1> HIDE DEF e
<1>4. Assigned(e) \in (Expressions \ {Unknown}) \cup {NotParsed}
  <2>1. e \in Within(e)
    BY <1>1, WithinAreExpressions
  <2>2. SideState(e, MaxNodes, e) \in ParsedStates(KnownExpressions)
    BY <1>1, <2>1, ExpressionState, MaxNodesAssumption
  <2> QED BY <1>2, <2>2 DEF ParsedStates, KnownExpressions
<1>5. ParsedCondition(e) \in ParsedConditions \cup {NotParsed}
  BY <1>1, ParsedConditionType
<1>6. LiteralState(e) \in Primitives \cup {NotParsed}
  BY <1>1, LiteralStateType
<1>7. LastVariable(NodesBefore(e, "ArraySubscriptExpr")) \in Copies \cup {NotParsed}
  <2>1. NodesBefore(e, "ArraySubscriptExpr") \in Seq(Trees)
    BY <1>1, NodesBeforeKind
  <2> QED BY <2>1, LastVariableType
<1>8. SwitchSubject(e) \in Copies \cup Primitives \cup {NotParsed}
  BY <1>3, <1>6, <1>7 DEF FirstParsed
<1>9. Argument(e) \in Literals
  BY <1>3, <1>6 DEF Literals
<1> QED BY <1>4, <1>5, <1>8, <1>9

----------------------------------------------------------------------------
(* Simple conditions.                                                      *)

\* A handler that returns false ends the visit.
LEMMA VisitConditionEnds ==
    ASSUME NEW Trees, AreExpressions(Trees), NEW e \in Trees, MaxNodes # 0,
           NEW visitors \in [Trees -> ConditionVisitorStates], NEW first,
           first = VisitConditionNode(ConditionVisitor, e, visitors), first.Done
    PROVE  VisitCondition(e, visitors) = first
<1> DEFINE nodes == Preorder(e)
           n == Len(nodes)
           h == ConditionVisitors(nodes, visitors)
           S == {i \in Nat : i + 1 <= n => h[i + 1] = first}
<1>1. nodes \in Seq(Trees) /\ n >= 1 /\ nodes[1] = e
  BY ExpressionsHoldTheirParts, PreorderType
<1> HIDE DEF nodes
<1>2. h[0] = ConditionVisitor
        /\ \A i \in 1 .. n : h[i] = VisitConditionNode(h[i - 1], nodes[i], visitors)
  BY <1>1, ConditionVisitorSteps
<1>3. n \in Nat
  BY <1>1
<1> HIDE DEF n, h
<1>4. 0 \in S
  <2>1. 1 \in 1 .. n
    BY <1>1, <1>3
  <2>2. h[1] = VisitConditionNode(h[1 - 1], nodes[1], visitors)
    BY <1>2, <2>1
  <2> QED BY <1>1, <1>2, <2>2
<1>5. ASSUME NEW i \in Nat, i \in S PROVE i + 1 \in S
  <2> SUFFICES ASSUME (i + 1) + 1 <= n PROVE h[(i + 1) + 1] = first
    OBVIOUS
  <2>1. (i + 1) + 1 \in 1 .. n /\ ((i + 1) + 1) - 1 = i + 1 /\ i + 1 <= n
    BY <1>3
  <2>2. h[i + 1] = first
    BY <1>5, <2>1
  <2>3. h[(i + 1) + 1] = VisitConditionNode(h[i + 1], nodes[(i + 1) + 1], visitors)
    BY <1>2, <2>1
  <2> QED BY <2>2, <2>3 DEF VisitConditionNode
<1> HIDE DEF S
<1>6. Nat \subseteq S
  BY <1>4, <1>5, Induction
<1>7. n - 1 \in Nat /\ (n - 1) + 1 = n
  BY <1>1, <1>3
<1>8. h[n] = first
  <2>1. n - 1 \in S
    BY <1>6, <1>7
  <2> QED BY <1>3, <1>7, <2>1 DEF S
<1> QED BY <1>8 DEF VisitCondition, nodes, h, n

\* The visit of a variable, and of a literal.
LEMMA VisitConditionOfVariable ==
    ASSUME NEW Trees, AreExpressions(Trees), NEW e \in Trees, IsVariable(e), MaxNodes # 0,
           NEW visitors \in [Trees -> ConditionVisitorStates]
    PROVE  VisitCondition(e, visitors)
                = [Variable |-> CopyVar(e.Name), Parts |-> NotParsed, Done |-> FALSE]
<1>1. Preorder(e) = <<e>>
  BY VariableAlone
<1>2. <<e>> \in Seq(Trees) /\ Len(<<e>>) = 1 /\ 1 \in 1 .. Len(<<e>>) /\ <<e>>[1] = e
  OBVIOUS
<1>3. /\ ConditionVisitors(<<e>>, visitors)[0] = ConditionVisitor
      /\ \A i \in 1 .. Len(<<e>>) : ConditionVisitors(<<e>>, visitors)[i]
            = VisitConditionNode(ConditionVisitors(<<e>>, visitors)[i - 1], <<e>>[i], visitors)
  BY <1>2, ConditionVisitorSteps
<1>4. ConditionVisitors(<<e>>, visitors)[1] = VisitConditionNode(ConditionVisitor, e, visitors)
  BY <1>2, <1>3
<1>5. VisitConditionNode(ConditionVisitor, e, visitors)
        = [ConditionVisitor EXCEPT !.Variable = CopyVar(e.Name)]
  BY DEF VisitConditionNode, IsVariable, IsOfKind, ConditionVisitor
<1> QED BY <1>1, <1>2, <1>4, <1>5 DEF VisitCondition, ConditionVisitor

LEMMA VisitConditionOfLiteral ==
    ASSUME NEW Trees, AreExpressions(Trees), NEW e \in Trees, IsPlainLiteral(e), HasRoom(e),
           NEW visitors \in [Trees -> ConditionVisitorStates]
    PROVE  VisitCondition(e, visitors) = ConditionVisitor
<1> DEFINE nodes == Preorder(e)
           n == Len(nodes)
           h == ConditionVisitors(nodes, visitors)
           S == {i \in Nat : i <= n => h[i] = ConditionVisitor}
<1>1. /\ nodes \in Seq(Trees)
      /\ \A i \in DOMAIN nodes : nodes[i].Kind \in {"IntegerLiteral", "UnaryOperator"}
  BY ExpressionsHoldTheirParts, PreorderType, PlainLiteralState
<1> HIDE DEF nodes
<1>2. h[0] = ConditionVisitor
        /\ \A i \in 1 .. n : h[i] = VisitConditionNode(h[i - 1], nodes[i], visitors)
  BY <1>1, ConditionVisitorSteps
<1>3. n \in Nat /\ \A i \in 1 .. n : nodes[i].Kind \in {"IntegerLiteral", "UnaryOperator"}
  BY <1>1
<1> HIDE DEF n, h
<1>4. 0 \in S
  BY <1>2
<1>5. ASSUME NEW i \in Nat, i \in S PROVE i + 1 \in S
  <2> SUFFICES ASSUME i + 1 <= n PROVE h[i + 1] = ConditionVisitor
    OBVIOUS
  <2>1. i + 1 \in 1 .. n /\ (i + 1) - 1 = i /\ i <= n
    BY <1>3
  <2>2. h[i] = ConditionVisitor
    BY <1>5, <2>1
  <2>3. h[i + 1] = VisitConditionNode(ConditionVisitor, nodes[i + 1], visitors)
    BY <1>2, <2>1, <2>2
  <2>4. nodes[i + 1].Kind \in {"IntegerLiteral", "UnaryOperator"}
    BY <1>3, <2>1
  <2> QED BY <2>3, <2>4 DEF VisitConditionNode, IsOfKind, IsVariable, ConditionVisitor
<1> HIDE DEF S
<1>6. Nat \subseteq S
  BY <1>4, <1>5, Induction
<1>7. h[n] = ConditionVisitor
  BY <1>3, <1>6 DEF S
<1> QED BY <1>7 DEF VisitCondition, nodes, h, n

\* What visitors of the operands find.
LEMMA OperandVariables ==
    ASSUME NEW Trees, AreExpressions(Trees), NEW root \in Trees, IsWithinNodes(root),
           NEW e \in Within(root), MaxNodes >= 2
    PROVE  /\ IsVariable(e) => OperandVisitors(root)[e].Variable = CopyVar(e.Name)
           /\ IsPlainLiteral(e) /\ HasRoom(e) => OperandVisitors(root)[e].Variable = NotParsed
<1> DEFINE n == MaxNodes - 2
           inner == VisitorsWithin(root)[n]
<1>1. n \in Nat /\ n + 1 = MaxNodes - 1 /\ MaxNodes # 0
  BY MaxNodesAssumption
<1>2. AreExpressions(Within(root))
  BY WithinAreExpressions
<1>3. inner \in [Within(root) -> ConditionVisitorStates]
        /\ VisitorsWithin(root)[n + 1] = NestedVisitors(root, 1, inner)
  BY <1>1, <1>2, NestedVisitorsSteps
<1> HIDE DEF inner
<1>4. OperandVisitors(root)[e] = VisitCondition(e, inner)
  BY <1>1, <1>3 DEF NestedVisitors, OperandVisitors
<1>5. ASSUME IsVariable(e) PROVE VisitCondition(e, inner).Variable = CopyVar(e.Name)
  <2>1. VisitCondition(e, inner)
            = [Variable |-> CopyVar(e.Name), Parts |-> NotParsed, Done |-> FALSE]
    BY <1>1, <1>2, <1>3, <1>5, VisitConditionOfVariable
  <2> QED BY <2>1
<1>6. ASSUME IsPlainLiteral(e), HasRoom(e) PROVE VisitCondition(e, inner).Variable = NotParsed
  <2>1. VisitCondition(e, inner) = ConditionVisitor
    BY <1>2, <1>3, <1>6, VisitConditionOfLiteral
  <2> QED BY <2>1 DEF ConditionVisitor
<1> QED BY <1>4, <1>5, <1>6

\* What the three forms of a simple condition are parsed as.
LEMMA ParsedVariable ==
    ASSUME NEW Trees, AreExpressions(Trees), NEW e \in Trees, IsWithinNodes(e), IsVariable(e)
    PROVE  ParsedCondition(e) = Leaf(CopyVar(e.Name), NotZero)
<1> DEFINE W == Within(e)
           visitors == OperandVisitors(e)
<1>1. AreExpressions(W) /\ e \in W /\ MaxNodes \in Nat \ {0}
  BY WithinAreExpressions, ExpressionsHoldTheirParts, RoomForNodes
<1>2. visitors \in [W -> ConditionVisitorStates]
        /\ VisitorsWithin(e)[MaxNodes][e] = VisitCondition(e, visitors)
  BY <1>1, VisitorOfNode
<1> HIDE DEF W, visitors
<1>3. VisitCondition(e, visitors)
        = [Variable |-> CopyVar(e.Name), Parts |-> NotParsed, Done |-> FALSE]
  BY <1>1, <1>2, VisitConditionOfVariable
<1> QED BY <1>2, <1>3, NotParsedIsApart DEF ParsedCondition

LEMMA ParsedCast ==
    ASSUME NEW Trees, AreExpressions(Trees), NEW e \in Trees, IsWithinNodes(e),
           e.Kind = "ImplicitCastToBoolean", IsVariable(e.Children[1])
    PROVE  ParsedCondition(e) = Leaf(CopyVar(e.Children[1].Name), NotZero)
<1> DEFINE W == Within(e)
           visitors == OperandVisitors(e)
           leaf == Leaf(CopyVar(e.Children[1].Name), NotZero)
           first == VisitConditionNode(ConditionVisitor, e, visitors)
<1>1. AreExpressions(W) /\ e \in W /\ MaxNodes \in Nat \ {0}
  BY WithinAreExpressions, ExpressionsHoldTheirParts, RoomForNodes
<1>2. visitors \in [W -> ConditionVisitorStates]
        /\ VisitorsWithin(e)[MaxNodes][e] = VisitCondition(e, visitors)
  BY <1>1, VisitorOfNode
<1>3. e.Children[1] \in W /\ e.Children # <<>>
  <2>1. IsExpressionOver(e, W)
    BY <1>1 DEF AreExpressions
  <2> HIDE DEF W
  <2>2. PICK operand \in W : e = ToBoolean(operand)
    BY <2>1 DEF IsExpressionOver, ArraySubscriptExpr, Node
  <2> QED BY <2>2 DEF ToBoolean, Node
<1>4. visitors[e.Children[1]].Variable = CopyVar(e.Children[1].Name)
  <2>1. MaxNodes >= 2
    BY <1>3, RoomForNodes, ExpressionsHoldTheirParts
  <2> QED BY <1>3, <2>1, OperandVariables
<1> HIDE DEF W, visitors, leaf
<1>5. first = [ConditionVisitor EXCEPT !.Done = TRUE, !.Parts = leaf]
  BY <1>4, NotParsedIsApart DEF VisitConditionNode, VisitConditionCast, ConditionVisitor,
                                IsOfKind, leaf
<1>6. first.Done /\ first.Parts = leaf
  BY <1>5 DEF ConditionVisitor
<1> HIDE DEF first
<1>7. VisitCondition(e, visitors) = first
  BY <1>1, <1>2, <1>6, VisitConditionEnds DEF first
<1>8. leaf # NotParsed
  BY DEF leaf, Leaf, NotParsed
<1> QED BY <1>2, <1>6, <1>7, <1>8 DEF ParsedCondition, leaf

LEMMA ParsedComparison ==
    ASSUME NEW Trees, AreExpressions(Trees), NEW e \in Trees, IsWithinNodes(e),
           e.Kind = "BinaryOperator", e.Opcode \in Comparisons,
           NEW lhs, NEW rhs, e.Children[1] = lhs, e.Children[2] = rhs,
           IsVariable(lhs), IsVariable(rhs) \/ IsPlainLiteral(rhs)
    PROVE  /\ lhs \in Trees /\ rhs \in Trees
           /\ IsVariable(rhs) => ParsedCondition(e)
                = Leaf(CopyVar(lhs.Name), ComparedTo(ComparisonOf(e.Opcode), rhs.Name))
           /\ IsPlainLiteral(rhs) => \A env : ParsedCondition(e)
                = Leaf(CopyVar(lhs.Name),
                       ComparedConstant(ComparisonOf(e.Opcode), Primitive(AtomValue(rhs, env))))
<1> DEFINE W == Within(e)
           visitors == OperandVisitors(e)
           first == VisitConditionNode(ConditionVisitor, e, visitors)
           right == visitors[rhs].Variable
           constant == LiteralState(rhs)
           leaf == ComparisonLeaf(e.Opcode, CopyVar(lhs.Name), right, constant)
<1>1. AreExpressions(W) /\ e \in W /\ MaxNodes \in Nat \ {0} /\ HoldsItsParts(Trees) /\ W \subseteq Trees
  BY WithinAreExpressions, ExpressionsHoldTheirParts, RoomForNodes, PreorderType
<1>2. visitors \in [W -> ConditionVisitorStates]
        /\ VisitorsWithin(e)[MaxNodes][e] = VisitCondition(e, visitors)
  BY <1>1, VisitorOfNode
<1>3. lhs \in W /\ rhs \in W /\ e.Children = <<lhs, rhs>>
  <2> HIDE DEF W
  <2> QED BY <1>1, OperatorSides
<1>4. lhs \in Trees /\ rhs \in Trees
  BY <1>1, <1>3
<1>5. HasRoom(rhs) /\ MaxNodes >= 2
  <2>1. MaxNodes >= 3
    BY <1>1, <1>3, <1>4, RoomForNodes
  <2> QED BY <1>1, <2>1 DEF HasRoom
<1>6. visitors[lhs].Variable = CopyVar(lhs.Name)
  BY <1>3, <1>5, OperandVariables
<1>7. /\ IsVariable(rhs) => right = CopyVar(rhs.Name)
      /\ IsPlainLiteral(rhs) => right = NotParsed
  BY <1>3, <1>5, OperandVariables
<1>8. IsPlainLiteral(rhs) => \A env : constant = Primitive(AtomValue(rhs, env))
  BY <1>4, <1>5, PlainLiteralState
<1> HIDE DEF W, visitors, right, constant
<1>9. {right, constant} # {NotParsed} /\ {visitors[lhs].Variable, LiteralState(lhs)} # {NotParsed}
  <2>1. right # NotParsed \/ constant # NotParsed
    BY <1>7, <1>8, NotParsedIsApart
  <2>2. visitors[lhs].Variable # NotParsed
    BY <1>6, NotParsedIsApart
  <2> QED BY <2>1, <2>2
<1>10. first = [ConditionVisitor EXCEPT !.Done = TRUE, !.Parts = leaf]
  <2>1. ConditionVisitor.Done = FALSE /\ e.Opcode # "&&"
    BY DEF ConditionVisitor, Comparisons
  <2>2. first = VisitConditionOperator(ConditionVisitor, e, visitors)
    BY <2>1 DEF VisitConditionNode, IsOfKind
  <2>3. visitors[lhs].Variable # NotParsed
    BY <1>6, NotParsedIsApart
  <2> HIDE DEF first, leaf
  <2>4. VisitConditionOperator(ConditionVisitor, e, visitors)
            = [ConditionVisitor EXCEPT !.Done = TRUE, !.Parts = leaf]
    BY <1>6, <1>9, <2>1, <2>3 DEF VisitConditionOperator, right, constant, leaf
  <2> QED BY <2>2, <2>4
<1>11. first.Done /\ first.Parts = leaf
  BY <1>10 DEF ConditionVisitor
<1> HIDE DEF first
<1>12. VisitCondition(e, visitors) = first
  BY <1>1, <1>2, <1>11, VisitConditionEnds DEF first
<1>13. leaf # NotParsed
  BY DEF leaf, ComparisonLeaf, Leaf, NotParsed
<1>14. ParsedCondition(e) = leaf
  BY <1>2, <1>11, <1>12, <1>13 DEF ParsedCondition
<1>15. IsVariable(rhs) =>
            leaf = Leaf(CopyVar(lhs.Name), ComparedTo(ComparisonOf(e.Opcode), rhs.Name))
  <2>1. CopyVar(rhs.Name).Source = rhs.Name
    BY DEF CopyVar
  <2> QED BY <1>7, <2>1, NotParsedIsApart DEF leaf, ComparisonLeaf
<1>16. IsPlainLiteral(rhs) => \A env :
            leaf = Leaf(CopyVar(lhs.Name),
                        ComparedConstant(ComparisonOf(e.Opcode), Primitive(AtomValue(rhs, env))))
  BY <1>7, <1>8 DEF leaf, ComparisonLeaf
<1> QED BY <1>4, <1>14, <1>15, <1>16

\* When the leaves hold that simple conditions are parsed as.
LEMMA CopyLeafHolds ==
    ASSUME NEW env \in [Vars -> Primitives], NEW x \in Vars, NEW range
    PROVE  LET s == Primitive(env[x].Value) IN
           /\ LeafHolds(Leaf(CopyVar(x), range), env) <=> RangeMatches(range, env, s)
           /\ LeafHolds(NegateLeaf(Leaf(CopyVar(x), range)), env)
                <=> RangeMatches(NegateRange(range), env, s)
<1> DEFINE s == Primitive(env[x].Value)
<1>1. Resolve(env, CopyVar(x)) = s
  BY ResolvedCopy, MeansAtEveryDepth DEF MeansAtom, Means
<1>2. s.State # "Unknown"
  BY DEF Primitive
<1> HIDE DEF s
<1>3. ASSUME NEW r PROVE LeafHolds(Leaf(CopyVar(x), r), env) <=> RangeMatches(r, env, s)
  BY <1>1, <1>2 DEF LeafHolds, Leaf
<1>4. NegateLeaf(Leaf(CopyVar(x), range)) = Leaf(CopyVar(x), NegateRange(range))
  BY DEF NegateLeaf, Leaf
<1> QED BY <1>3, <1>4 DEF s

LEMMA NotZeroLeafHolds ==
    ASSUME NEW env \in [Vars -> Primitives], NEW x \in Vars
    PROVE  /\ LeafHolds(Leaf(CopyVar(x), NotZero), env) <=> env[x].Value # 0
           /\ LeafHolds(NegateLeaf(Leaf(CopyVar(x), NotZero)), env) <=> env[x].Value = 0
<1> DEFINE s == Primitive(env[x].Value)
<1>1. ToZeroOrNonZero(s) = IF env[x].Value # 0 THEN 1 ELSE 0
  BY DEF ToZeroOrNonZero, Primitive
<1> HIDE DEF s
<1>2. /\ RangeMatches(NotZero, env, s) <=> env[x].Value # 0
      /\ RangeMatches(NegateRange(NotZero), env, s) <=> env[x].Value = 0
  BY <1>1 DEF RangeMatches, NegateRange, NotZero, Zero
<1> QED BY <1>2, CopyLeafHolds DEF s

\* Compared is the constant, or the value of the variable.
LEMMA ComparisonLeafHolds ==
    ASSUME NEW env \in [Vars -> Primitives], NEW x \in Vars, NEW op \in COMPARISON,
           NEW n \in Ints, NEW range,
           \/ range = ComparedConstant(op, Primitive(n))
           \/ \E y \in Vars : range = ComparedTo(op, y) /\ env[y].Value = n
    PROVE  /\ LeafHolds(Leaf(CopyVar(x), range), env) <=> CompareValues(op, env[x].Value, n)
           /\ LeafHolds(NegateLeaf(Leaf(CopyVar(x), range)), env)
                <=> ~CompareValues(op, env[x].Value, n)
<1> DEFINE s == Primitive(env[x].Value)
           other == Primitive(n)
           negated == NegateComparison(op)
<1>1. env[x].Value \in Ints
  BY DEF Primitives
<1>2. s \in ResolvedStates /\ other \in ResolvedStates
  BY <1>1 DEF Primitive, Primitives, ResolvedStates
<1>3. /\ s.State = "Primitive" /\ s.Value = env[x].Value
      /\ other.State = "Primitive" /\ other.Value = n
  BY DEF Primitive
<1> HIDE DEF s, other, negated
<1>4. \A any : CompareTo(any, s, other) <=> CompareValues(any, env[x].Value, n)
  BY <1>3 DEF CompareTo
<1>5. CompareTo(negated, s, other) <=> ~CompareTo(op, s, other)
  BY <1>2, <1>3, NegatedComparison DEF negated
<1>6. ASSUME NEW y \in Vars, env[y].Value = n PROVE GetVariableValue(env, y) = other
  <2>1. env[y] = Primitive(n)
    BY <1>6 DEF Primitives, Primitive
  <2>2. Resolve(env, Primitive(n)) = Primitive(n)
    BY DEF Resolve, ResolveValue, FollowCopies, Primitive
  <2> QED BY <2>1, <2>2 DEF GetVariableValue, other
<1>7. RangeMatches(range, env, s) <=> CompareTo(op, s, other)
  <2>1. CASE range = ComparedConstant(op, Primitive(n))
    BY <2>1 DEF RangeMatches, ComparedConstant, other
  <2>2. CASE \E y \in Vars : range = ComparedTo(op, y) /\ env[y].Value = n
    <3>1. PICK y \in Vars : range = ComparedTo(op, y) /\ env[y].Value = n
      BY <2>2
    <3>2. GetVariableValue(env, y) = other
      BY <1>6, <3>1
    <3> QED BY <3>1, <3>2 DEF RangeMatches, ComparedTo
  <2> QED BY <2>1, <2>2
<1>8. RangeMatches(NegateRange(range), env, s) <=> CompareTo(negated, s, other)
  <2>1. CASE range = ComparedConstant(op, Primitive(n))
    <3>1. NegateRange(range) = ComparedConstant(negated, other)
      BY <2>1 DEF NegateRange, ComparedConstant, other, negated
    <3> QED BY <3>1 DEF RangeMatches, ComparedConstant
  <2>2. CASE \E y \in Vars : range = ComparedTo(op, y) /\ env[y].Value = n
    <3>1. PICK y \in Vars : range = ComparedTo(op, y) /\ env[y].Value = n
      BY <2>2
    <3>2. GetVariableValue(env, y) = other
      BY <1>6, <3>1
    <3>3. NegateRange(range) = ComparedTo(negated, y)
      BY <3>1 DEF NegateRange, ComparedTo, negated
    <3> QED BY <3>2, <3>3 DEF RangeMatches, ComparedTo
  <2> QED BY <2>1, <2>2
<1> QED BY <1>4, <1>5, <1>7, <1>8, CopyLeafHolds DEF s

\* A variable, cast or compared, is parsed as a leaf that holds where the condition is not
\* zero, and whose negation holds everywhere else (Condition.cpp, lines 18 to 131), for
\* every width of the integers.
THEOREM SimpleConditionsMeanWhatIsWritten ==
    ASSUME NEW Trees, AreExpressions(Trees), expression \in Trees, IsWithinNodes(expression)
    PROVE  ConditionsAsWritten
<1> DEFINE e == expression
           leaf == ParsedCondition(e)
           Agrees == /\ leaf # NotParsed
                     /\ \A env \in Environments :
                            /\ LeafHolds(leaf, env) <=> Value(e, env) # 0
                            /\ LeafHolds(NegateLeaf(leaf), env) <=> Value(e, env) = 0
<1> SUFFICES ASSUME IsSimpleCondition(e) PROVE Agrees
  BY DEF ConditionsAsWritten
<1>1. e \in Trees /\ IsWithinNodes(e)
  OBVIOUS
<1>2. \A env \in Environments : env \in [Vars -> Primitives]
  BY EnvironmentAssumption
<1>3. \A subject, range : Leaf(subject, range) # NotParsed
  BY DEF Leaf, NotParsed
<1> HIDE DEF e
<1>4. CASE IsVariable(e)
  <2>1. leaf = Leaf(CopyVar(e.Name), NotZero)
    BY <1>1, <1>4, ParsedVariable
  <2>2. e.Kind = "DeclRefExpr" /\ e.Name \in Vars
    BY <1>4 DEF IsVariable
  <2>3. \A env : Value(e, env) = env[e.Name].Value
    BY <2>2 DEF Value, ValueOf
  <2> HIDE DEF leaf
  <2> QED BY <1>2, <1>3, <2>1, <2>2, <2>3, NotZeroLeafHolds
<1>5. CASE e.Kind = "ImplicitCastToBoolean" /\ IsVariable(e.Children[1])
  <2> DEFINE x == e.Children[1]
  <2>1. leaf = Leaf(CopyVar(x.Name), NotZero)
    BY <1>1, <1>5, ParsedCast
  <2>2. x.Kind = "DeclRefExpr" /\ x.Name \in Vars
    BY <1>5 DEF IsVariable
  <2>3. \A env : ValueOfSum(x, env) = env[x.Name].Value
    BY <2>2 DEF ValueOfSum, ValueOf
  <2> HIDE DEF leaf
  <2>4. \A env : Value(e, env) = Truth(ValueOfSum(x, env) # 0)
    BY <1>5 DEF Value, ValueOf
  <2> HIDE DEF x
  <2>5. \A env : (Value(e, env) # 0 <=> env[x.Name].Value # 0)
    BY <2>3, <2>4 DEF Truth
  <2> QED BY <1>2, <1>3, <2>1, <2>2, <2>5, NotZeroLeafHolds
<1>6. CASE /\ e.Kind = "BinaryOperator" /\ e.Opcode \in Comparisons
           /\ IsVariable(e.Children[1])
           /\ IsVariable(e.Children[2]) \/ IsPlainLiteral(e.Children[2])
  <2> DEFINE lhs == e.Children[1]
             rhs == e.Children[2]
             op == ComparisonOf(e.Opcode)
             subject == CopyVar(lhs.Name)
  <2>1. /\ lhs \in Trees /\ rhs \in Trees
        /\ IsVariable(rhs) => leaf = Leaf(subject, ComparedTo(op, rhs.Name))
        /\ IsPlainLiteral(rhs) => \A env :
                leaf = Leaf(subject, ComparedConstant(op, Primitive(AtomValue(rhs, env))))
    BY <1>1, <1>6, ParsedComparison
  <2>2. lhs.Kind = "DeclRefExpr" /\ lhs.Name \in Vars
    BY <1>6 DEF IsVariable
  <2>3. op \in COMPARISON
    BY <1>6 DEF Comparisons, ComparisonOf, COMPARISON
  <2>4. \A env : Value(e, env) = Truth(CompareValues(op, ValueOfSum(lhs, env), ValueOfSum(rhs, env)))
    BY <1>6 DEF Value, ValueOf, Comparisons
  <2>5. \A env : ValueOfSum(lhs, env) = env[lhs.Name].Value
    BY <2>2 DEF ValueOfSum, ValueOf
  <2>6. IsAtom(rhs)
    BY <1>6 DEF IsAtom
  <2>7. leaf # NotParsed
    BY <1>3, <2>1, <2>6 DEF IsAtom
  <2> HIDE DEF leaf, lhs, rhs, op
  <2>8. ASSUME NEW env \in Environments
        PROVE  \E range : /\ leaf = Leaf(subject, range)
                          /\ \/ range = ComparedConstant(op, Primitive(AtomValue(rhs, env)))
                             \/ \E y \in Vars : range = ComparedTo(op, y)
                                                    /\ env[y].Value = AtomValue(rhs, env)
    <3>1. CASE IsVariable(rhs)
      <4>1. AtomValue(rhs, env) = env[rhs.Name].Value /\ rhs.Name \in Vars
        BY <3>1 DEF AtomValue, IsVariable
      <4> QED BY <2>1, <3>1, <4>1
    <3>2. CASE IsPlainLiteral(rhs)
      BY <2>1, <3>2
    <3> QED BY <2>6, <3>1, <3>2 DEF IsAtom
  <2>9. ASSUME NEW env \in Environments
        PROVE  /\ LeafHolds(leaf, env) <=> Value(e, env) # 0
               /\ LeafHolds(NegateLeaf(leaf), env) <=> Value(e, env) = 0
    <3> DEFINE n == AtomValue(rhs, env)
    <3>1. env \in [Vars -> Primitives]
      BY <1>2
    <3>2. n \in Ints /\ ValueOfSum(rhs, env) = n
      BY <2>1, <2>6, <3>1, AtomValueIs
    <3>3. PICK range : /\ leaf = Leaf(subject, range)
                       /\ \/ range = ComparedConstant(op, Primitive(n))
                          \/ \E y \in Vars : range = ComparedTo(op, y) /\ env[y].Value = n
      BY <2>8
    <3> HIDE DEF n
    <3>4. /\ LeafHolds(leaf, env) <=> CompareValues(op, env[lhs.Name].Value, n)
          /\ LeafHolds(NegateLeaf(leaf), env) <=> ~CompareValues(op, env[lhs.Name].Value, n)
      BY <2>2, <2>3, <3>1, <3>2, <3>3, ComparisonLeafHolds
    <3>5. Value(e, env) = Truth(CompareValues(op, env[lhs.Name].Value, n))
      BY <2>4, <2>5, <3>2
    <3> QED BY <3>4, <3>5 DEF Truth
  <2> QED BY <2>7, <2>9
<1> HIDE DEF Agrees
<1> QED BY <1>4, <1>5, <1>6 DEF IsSimpleCondition

=============================================================================
