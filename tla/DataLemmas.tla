----------------------------- MODULE DataLemmas -----------------------------
(***************************************************************************)
(* What the proofs need to know of numbers and of sequences: induction, as *)
(* a fact about sets, and the parts of a concatenation.                    *)
(***************************************************************************)
EXTENDS Integers, Sequences, SequencesExt, FiniteSets,
        FiniteSetTheorems, SequenceTheorems, WellFoundedInduction, TLAPS

\* A set of natural numbers has a least one: the finite intervals from 0 are ordered
\* by inclusion as their ends are, and inclusion of finite sets is well-founded.
LEMMA LeastNumber ==
    ASSUME NEW T \in SUBSET Nat, T # {}
    PROVE  \E n \in T : \A m \in T : n <= m
<1>1. PICK top \in T : TRUE
  OBVIOUS
<1> DEFINE S == 0 .. top
           W == {0 .. n : n \in {m \in T : m <= top}}
<1>2. IsFiniteSet(S)
  BY <1>1, FS_Interval
<1>3. IsWellFoundedOn(StrictSubsetOrdering(S), SUBSET S)
  BY <1>2, FS_StrictSubsetOrderingWellFounded, FS_FiniteSubsetsOfFinite
<1>4. W \subseteq SUBSET S /\ W # {}
  BY <1>1
<1>5. PICK x \in W : \A y \in W : ~ (<<y, x>> \in StrictSubsetOrdering(S))
  <2> HIDE DEF W, S
  <2> QED BY <1>3, <1>4, WFMin
<1>6. PICK n \in T : n <= top /\ x = 0 .. n
  BY <1>5
<1>7. ASSUME NEW m \in T, m < n PROVE FALSE
  <2>1. 0 .. m \in W /\ m <= top
    BY <1>1, <1>6, <1>7
  <2>2. 0 .. m \subseteq x /\ n \in x /\ n \notin 0 .. m
    BY <1>6, <1>7
  <2>3. <<0 .. m, x>> \in StrictSubsetOrdering(S)
    <3>1. 0 .. m \in SUBSET S /\ x \in SUBSET S
      BY <1>4, <1>5, <2>1
    <3> QED BY <2>2, <3>1 DEF StrictSubsetOrdering
  <2> QED BY <1>5, <2>1, <2>3
<1> QED BY <1>6, <1>7

\* Induction over the natural numbers, as a fact about a set of them.
LEMMA Induction ==
    ASSUME NEW S, 0 \in S, \A n \in Nat : n \in S => n + 1 \in S
    PROVE  Nat \subseteq S
<1> SUFFICES ASSUME Nat \ S # {} PROVE FALSE
  OBVIOUS
<1>1. PICK n \in Nat \ S : \A m \in Nat \ S : n <= m
  <2>1. Nat \ S \in SUBSET Nat
    OBVIOUS
  <2> QED BY <2>1, LeastNumber
<1>2. n # 0 /\ n - 1 \in Nat /\ n - 1 \in S
  BY <1>1
<1> QED BY <1>1, <1>2

\* A function on the natural numbers that is what each step makes of the value before:
\* what a recursive definition needs to define anything.
IsRecursion(f, n, base, step) ==
    /\ f[0] = base
    /\ \A i \in 0 .. n - 1 : f[i + 1] = step[i][f[i]]

IsRecursiveOver(f, base, step) ==
    f[0] = base /\ \A n \in Nat : f[n + 1] = step[n][f[n]]

LEMMA Recursion ==
    ASSUME NEW X, NEW base \in X, NEW step \in [Nat -> [X -> X]]
    PROVE  \E f \in [Nat -> X] : IsRecursiveOver(f, base, step)
<1> DEFINE Found == {n \in Nat : \E f \in [0 .. n -> X] : IsRecursion(f, n, base, step)}
<1>1. Nat \subseteq Found
  <2>1. 0 \in Found
    <3>1. [i \in 0 .. 0 |-> base] \in [0 .. 0 -> X]
      OBVIOUS
    <3>2. IsRecursion([i \in 0 .. 0 |-> base], 0, base, step)
      BY DEF IsRecursion
    <3> QED BY <3>1, <3>2
  <2>2. ASSUME NEW n \in Nat, n \in Found PROVE n + 1 \in Found
    <3>1. PICK f \in [0 .. n -> X] : IsRecursion(f, n, base, step)
      BY <2>2
    <3> DEFINE g == [i \in 0 .. n + 1 |-> IF i \in 0 .. n THEN f[i] ELSE step[n][f[n]]]
    <3>2. f[n] \in X /\ step[n] \in [X -> X]
      OBVIOUS
    <3>3. g \in [0 .. n + 1 -> X]
      BY <3>2
    <3>4. \A i \in 0 .. n : g[i] = f[i]
      OBVIOUS
    <3>5. g[n + 1] = step[n][f[n]]
      OBVIOUS
    <3>6. \A i \in 0 .. (n + 1) - 1 : i = n \/ i \in 0 .. n - 1
      OBVIOUS
    <3>7. \A i \in 0 .. n - 1 : i \in 0 .. n /\ i + 1 \in 0 .. n
      OBVIOUS
    <3> HIDE DEF g
    <3>8. IsRecursion(g, n + 1, base, step)
      BY <3>1, <3>4, <3>5, <3>6, <3>7 DEF IsRecursion
    <3> QED BY <3>3, <3>8
  <2> HIDE DEF Found
  <2> QED BY <2>1, <2>2, Induction
<1> DEFINE Part(n) == CHOOSE f : f \in [0 .. n -> X] /\ IsRecursion(f, n, base, step)
           g == [n \in Nat |-> Part(n)[n]]
<1>2. ASSUME NEW n \in Nat
      PROVE  Part(n) \in [0 .. n -> X] /\ IsRecursion(Part(n), n, base, step)
  <2>1. \E f : f \in [0 .. n -> X] /\ IsRecursion(f, n, base, step)
    BY <1>1
  <2> QED BY <2>1
<1> HIDE DEF Found, Part
<1>3. \A i \in Nat : \A n, m \in Nat : i <= n /\ i <= m => Part(n)[i] = Part(m)[i]
  <2> DEFINE Same == {i \in Nat : \A n, m \in Nat : i <= n /\ i <= m => Part(n)[i] = Part(m)[i]}
  <2>1. 0 \in Same
    BY <1>2 DEF IsRecursion
  <2>2. ASSUME NEW i \in Nat, i \in Same PROVE i + 1 \in Same
    <3>1. ASSUME NEW n \in Nat, i + 1 <= n PROVE Part(n)[i + 1] = step[i][Part(n)[i]]
      <4>1. i \in 0 .. n - 1
        BY <3>1
      <4> QED BY <1>2, <4>1 DEF IsRecursion
    <3>2. ASSUME NEW n \in Nat, NEW m \in Nat, i + 1 <= n, i + 1 <= m
          PROVE  Part(n)[i + 1] = Part(m)[i + 1]
      <4>1. Part(n)[i] = Part(m)[i]
        BY <2>2, <3>2
      <4> QED BY <3>1, <3>2, <4>1
    <3> QED BY <3>2
  <2> HIDE DEF Same
  <2>3. Nat \subseteq Same
    BY <2>1, <2>2, Induction
  <2> QED BY <2>3 DEF Same
<1>4. g \in [Nat -> X]
  BY <1>2
<1>5. g[0] = base
  BY <1>2 DEF IsRecursion
<1>6. ASSUME NEW n \in Nat PROVE g[n + 1] = step[n][g[n]]
  <2>1. n + 1 \in Nat /\ n \in 0 .. (n + 1) - 1
    OBVIOUS
  <2>2. Part(n + 1)[n + 1] = step[n][Part(n + 1)[n]]
    BY <1>2, <2>1 DEF IsRecursion
  <2>3. Part(n + 1)[n] = Part(n)[n]
    BY <1>3, <2>1
  <2> QED BY <2>1, <2>2, <2>3
<1> HIDE DEF g
<1>7. IsRecursiveOver(g, base, step)
  BY <1>5, <1>6 DEF IsRecursiveOver
<1> QED BY <1>4, <1>7

\* Two sequences can be taken from their concatenation again.
LEMMA SplitConcat ==
    ASSUME NEW S, NEW s \in Seq(S), NEW t \in Seq(S),
           NEW from, from = Len(s) + 1, NEW to, to = Len(s) + Len(t)
    PROVE  SubSeq(s \o t, 1, Len(s)) = s /\ SubSeq(s \o t, from, to) = t
<1> DEFINE first == SubSeq(s \o t, 1, Len(s))
           second == SubSeq(s \o t, from, to)
<1>1. /\ s \o t \in Seq(S)
      /\ Len(s \o t) = Len(s) + Len(t)
      /\ \A i \in 1 .. Len(s) + Len(t) :
            (s \o t)[i] = IF i <= Len(s) THEN s[i] ELSE t[i - Len(s)]
      /\ Len(s) \in Nat /\ Len(t) \in Nat
  BY ConcatProperties, LenProperties
<1>2. \A i \in 1 .. Len(s) + Len(t) : (s \o t)[i] \in S
  BY <1>1, ElementOfSeq
<1>3. /\ first \in Seq(S) /\ Len(first) = Len(s)
      /\ \A i \in 1 .. Len(s) : first[i] = (s \o t)[i]
  <2>1. \A i \in 1 .. Len(s) : (s \o t)[i] \in S
    BY <1>1, <1>2
  <2> QED BY <1>1, <2>1, SubSeqProperties
<1>4. /\ second \in Seq(S) /\ Len(second) = Len(t)
      /\ \A i \in 1 .. Len(t) : second[i] = (s \o t)[Len(s) + i]
  <2>1. \A i \in Len(s) + 1 .. Len(s) + Len(t) : (s \o t)[i] \in S
    BY <1>1, <1>2
  <2>2. /\ Len(s) + 1 \in Int /\ Len(s) + Len(t) \in Int
        /\ (Len(s) + Len(t)) - (Len(s) + 1) + 1 = Len(t)
        /\ \A i \in 1 .. Len(t) : Len(s) + 1 + i - 1 = Len(s) + i
    BY <1>1
  <2>3. /\ second \in Seq(S)
        /\ Len(second) = IF Len(s) + 1 <= Len(s) + Len(t)
                         THEN (Len(s) + Len(t)) - (Len(s) + 1) + 1 ELSE 0
        /\ \A i \in 1 .. (Len(s) + Len(t)) - (Len(s) + 1) + 1 :
                second[i] = (s \o t)[Len(s) + 1 + i - 1]
    BY <2>1, <2>2, SubSeqProperties
  <2> QED BY <1>1, <2>2, <2>3
<1> HIDE DEF first, second
<1>5. first = s
  <2>1. \A i \in 1 .. Len(first) : first[i] = s[i]
    BY <1>1, <1>3
  <2> QED BY <1>3, <2>1, SeqEqual
<1>6. second = t
  <2>1. \A i \in 1 .. Len(second) : second[i] = t[i]
    BY <1>1, <1>4
  <2> QED BY <1>4, <2>1, SeqEqual
<1> QED BY <1>1, <1>5, <1>6 DEF first, second

\* The second part of a concatenation.
LEMMA RestOfConcat ==
    ASSUME NEW S, NEW s \in Seq(S), NEW t \in Seq(S),
           NEW from, from = Len(s) + 1, NEW to, to = Len(s) + Len(t)
    PROVE  SubSeq(s \o t, from, to) = t
  BY SplitConcat

\* The first part of a concatenation.
LEMMA FirstOfConcat ==
    ASSUME NEW S, NEW s \in Seq(S), NEW t \in Seq(S), NEW n, n = Len(s)
    PROVE  SubSeq(s \o t, 1, n) = s
<1>1. SubSeq(s \o t, 1, Len(s)) = s
  <2> DEFINE from == Len(s) + 1
             to == Len(s) + Len(t)
  <2>1. from = Len(s) + 1 /\ to = Len(s) + Len(t)
    OBVIOUS
  <2> HIDE DEF from, to
  <2> QED BY <2>1, SplitConcat
<1> QED BY <1>1

\* The parts of a concatenation when the first is a single element.
LEMMA SplitOne ==
    ASSUME NEW S, NEW s \in Seq(S), NEW t \in Seq(S)
    PROVE  Len(s) = 1 => SubSeq(s \o t, 1, 1) = s /\ SubSeq(s \o t, 2, 1 + Len(t)) = t
<1>1. \A from, to : from = Len(s) + 1 /\ to = Len(s) + Len(t) => SubSeq(s \o t, from, to) = t
  BY RestOfConcat
<1>2. \A n : n = Len(s) => SubSeq(s \o t, 1, n) = s
  BY FirstOfConcat
<1> HAVE Len(s) = 1
<1>3. 2 = Len(s) + 1 /\ 1 + Len(t) = Len(s) + Len(t)
  OBVIOUS
<1> QED BY <1>1, <1>2, <1>3

\* Two single elements make a pair.
LEMMA PairConcat ==
    ASSUME NEW first, NEW second
    PROVE  <<first>> \o <<second>> = <<first, second>>
<1> DEFINE S == {first, second}
<1>1. /\ <<first>> \in Seq(S) /\ <<second>> \in Seq(S) /\ <<first, second>> \in Seq(S)
      /\ Len(<<first>>) = 1 /\ Len(<<second>>) = 1 /\ Len(<<first, second>>) = 2
  OBVIOUS
<1>2. /\ <<first>> \o <<second>> \in Seq(S)
      /\ Len(<<first>> \o <<second>>) = 2
      /\ \A i \in 1 .. 2 : (<<first>> \o <<second>>)[i] =
                            IF i <= 1 THEN <<first>>[i] ELSE <<second>>[i - 1]
  BY <1>1, ConcatProperties
<1>3. \A i \in 1 .. 2 : (<<first>> \o <<second>>)[i] = <<first, second>>[i]
  <2>1. (<<first>> \o <<second>>)[1] = first /\ (<<first>> \o <<second>>)[2] = second
    BY <1>2
  <2> QED BY <2>1
<1> HIDE DEF S
<1> QED BY <1>1, <1>2, <1>3, SeqEqual

\* The elements of a concatenation are those of its parts.
LEMMA ElementsOfConcat ==
    ASSUME NEW S, NEW s \in Seq(S), NEW t \in Seq(S)
    PROVE  ToSet(s \o t) = ToSet(s) \cup ToSet(t)
<1>1. /\ DOMAIN s = 1 .. Len(s) /\ DOMAIN t = 1 .. Len(t)
      /\ DOMAIN (s \o t) = 1 .. Len(s) + Len(t)
      /\ Len(s) \in Nat /\ Len(t) \in Nat
      /\ \A i \in 1 .. Len(s) + Len(t) :
            (s \o t)[i] = IF i <= Len(s) THEN s[i] ELSE t[i - Len(s)]
  BY ConcatProperties, LenProperties
<1> DEFINE u == s \o t
<1> HIDE DEF u
<1>2. ASSUME NEW x \in ToSet(u) PROVE x \in ToSet(s) \cup ToSet(t)
  <2>1. PICK i \in 1 .. Len(s) + Len(t) : x = u[i]
    BY <1>1, <1>2 DEF ToSet, u
  <2>2. CASE i <= Len(s)
    <3>1. i \in DOMAIN s /\ x = s[i]
      BY <1>1, <2>1, <2>2 DEF u
    <3> QED BY <3>1 DEF ToSet
  <2>3. CASE ~(i <= Len(s))
    <3>1. i - Len(s) \in DOMAIN t /\ x = t[i - Len(s)]
      BY <1>1, <2>1, <2>3 DEF u
    <3> QED BY <3>1 DEF ToSet
  <2> QED BY <2>2, <2>3
<1>3. ASSUME NEW i \in DOMAIN s PROVE s[i] \in ToSet(u)
  <2>1. i \in DOMAIN u /\ u[i] = s[i]
    BY <1>1, <1>3 DEF u
  <2> QED BY <2>1 DEF ToSet
<1>4. ASSUME NEW i \in DOMAIN t PROVE t[i] \in ToSet(u)
  <2>1. Len(s) + i \in DOMAIN u /\ u[Len(s) + i] = t[i]
    BY <1>1, <1>4 DEF u
  <2> QED BY <2>1 DEF ToSet
<1>5. ToSet(s) \subseteq ToSet(u) /\ ToSet(t) \subseteq ToSet(u)
  BY <1>3, <1>4 DEF ToSet
<1> QED BY <1>2, <1>5 DEF u

\* One element more.
LEMMA ElementsOfAppend ==
    ASSUME NEW S, NEW s \in Seq(S), NEW x
    PROVE  ToSet(Append(s, x)) = ToSet(s) \cup {x}
<1> DEFINE T == S \cup {x}
<1>1. s \in Seq(T) /\ <<x>> \in Seq(T) /\ x \in T
  BY SeqMonotonic
<1>2. ToSet(<<x>>) = {x}
  BY DEF ToSet
<1> HIDE DEF T
<1>3. Append(s, x) = s \o <<x>>
  BY <1>1, AppendIsConcat
<1>4. ToSet(s \o <<x>>) = ToSet(s) \cup ToSet(<<x>>)
  <2> DEFINE last == <<x>>
  <2>1. last \in Seq(T)
    BY <1>1
  <2> HIDE DEF last
  <2>2. ToSet(s \o last) = ToSet(s) \cup ToSet(last)
    BY <1>1, <2>1, ElementsOfConcat
  <2> QED BY <2>2 DEF last
<1> QED BY <1>2, <1>3, <1>4

\* The arguments of a run: what goes before the options, and behind them.
Joined(front, options, back) == front \o options \o back

\* One option behind the others can be taken out of the arguments again.
LEMMA RemovedOption ==
    ASSUME NEW S, NEW front \in Seq(S), NEW options \in Seq(S), NEW option \in S,
           NEW back \in Seq(S)
    PROVE  LET arguments == Joined(front, Append(options, option), back) IN
           \E i \in DOMAIN arguments :
                /\ arguments[i] = option
                /\ RemoveAt(arguments, i) = Joined(front, options, back)
<1> DEFINE i == Len(front) + Len(options) + 1
           before == front \o options
           first == before \o <<option>>
           arguments == front \o Append(options, option) \o back
<1>1. /\ before \in Seq(S) /\ Len(before) = Len(front) + Len(options)
      /\ Len(front) \in Nat /\ Len(options) \in Nat /\ Len(back) \in Nat
  BY ConcatProperties, LenProperties
<1>2. <<option>> \in Seq(S) /\ Len(<<option>>) = 1 /\ <<option>>[1] = option
  OBVIOUS
<1> HIDE DEF i
<1>11. i = Len(front) + Len(options) + 1
  BY DEF i
<1>3. front \o Append(options, option) = first
  <2>1. Append(options, option) = options \o <<option>>
    BY AppendIsConcat
  <2>2. before \o <<option>> = front \o (options \o <<option>>)
    BY <1>2, ConcatAssociative
  <2> QED BY <2>1, <2>2
<1> HIDE DEF before
<1>4. first \in Seq(S) /\ Len(first) = i /\ first[i] = option
  <2> DEFINE single == <<option>>
  <2>3. single \in Seq(S) /\ Len(single) = 1 /\ single[1] = option /\ first = before \o single
    BY <1>2
  <2> HIDE DEF single, first
  <2>4. single \in Seq(S)
    BY <2>3
  <2>5. /\ before \o single \in Seq(S)
        /\ Len(before \o single) = Len(before) + Len(single)
        /\ \A k \in 1 .. Len(before) + Len(single) :
                (before \o single)[k] = IF k <= Len(before) THEN before[k]
                                        ELSE single[k - Len(before)]
    <3>1. before \in Seq(S)
      BY <1>1
    <3> QED BY <2>4, <3>1, ConcatProperties
  <2>1. /\ first \in Seq(S) /\ Len(first) = Len(before) + Len(single)
        /\ \A k \in 1 .. Len(before) + Len(single) :
                first[k] = IF k <= Len(before) THEN before[k] ELSE single[k - Len(before)]
    BY <2>3, <2>5
  <2>2. i \in 1 .. Len(before) + 1 /\ ~(i <= Len(before)) /\ i - Len(before) = 1
    BY <1>1, <1>11
  <2> QED BY <1>1, <1>11, <2>1, <2>2, <2>3
<1>5. /\ first \o back \in Seq(S) /\ Len(first \o back) = i + Len(back)
      /\ \A k \in 1 .. i + Len(back) :
            (first \o back)[k] = IF k <= i THEN first[k] ELSE back[k - i]
  <2> HIDE DEF first
  <2>1. first \in Seq(S)
    BY <1>4
  <2>2. /\ first \o back \in Seq(S) /\ Len(first \o back) = Len(first) + Len(back)
        /\ \A k \in 1 .. Len(first) + Len(back) :
              (first \o back)[k] = IF k <= Len(first) THEN first[k] ELSE back[k - Len(first)]
    BY <2>1, ConcatProperties
  <2> QED BY <1>4, <2>2
<1>6. SubSeq(first \o back, i + 1, i + Len(back)) = back
  <2> HIDE DEF first
  <2>1. first \in Seq(S)
    BY <1>4
  <2>2. \A from, to : from = Len(first) + 1 /\ to = Len(first) + Len(back) =>
            SubSeq(first \o back, from, to) = back
    BY <2>1, RestOfConcat
  <2> QED BY <1>4, <2>2
<1>7. SubSeq(first \o back, 1, i - 1) = before
  <2>1. first \o back = before \o (<<option>> \o back)
    BY <1>1, <1>2, ConcatAssociative
  <2>2. <<option>> \o back \in Seq(S)
    BY <1>2, ConcatProperties
  <2> DEFINE n == i - 1
             rest == <<option>> \o back
  <2>3. n = Len(before) /\ rest \in Seq(S)
    BY <1>1, <1>11, <2>2
  <2> HIDE DEF n, rest
  <2>4. SubSeq(before \o rest, 1, n) = before
    BY <1>1, <2>3, FirstOfConcat
  <2> QED BY <2>1, <2>4 DEF n, rest
<1>8. arguments = first \o back
  BY <1>3
<1> HIDE DEF first, arguments
<1>9. i \in DOMAIN arguments /\ arguments[i] = option
  <2>1. i \in 1 .. i + Len(back) /\ i <= i
    BY <1>1, <1>11
  <2>2. DOMAIN arguments = 1 .. i + Len(back)
    BY <1>5, <1>8, LenProperties
  <2>3. arguments[i] = first[i]
    BY <1>5, <1>8, <2>1
  <2> QED BY <1>4, <2>1, <2>2, <2>3
<1>10. RemoveAt(arguments, i) = before \o back
  BY <1>5, <1>6, <1>7, <1>8 DEF RemoveAt
<1> QED BY <1>9, <1>10 DEF arguments, before, Joined

\* The first two elements are those of the first part.
LEMMA FrontOfJoined ==
    ASSUME NEW S, NEW front \in Seq(S), NEW middle \in Seq(S), NEW back \in Seq(S),
           Len(front) = 2
    PROVE  /\ Joined(front, middle, back)[1] = front[1]
           /\ Joined(front, middle, back)[2] = front[2]
<1> DEFINE rest == middle \o back
<1>1. rest \in Seq(S) /\ (front \o middle) \o back = front \o rest
  BY ConcatProperties, ConcatAssociative, SMTT(40)
<1> HIDE DEF rest
<1>2. \A k \in 1 .. Len(front) + Len(rest) :
            (front \o rest)[k] = IF k <= Len(front) THEN front[k] ELSE rest[k - Len(front)]
  BY <1>1, ConcatProperties
<1>3. Len(rest) \in Nat
  BY <1>1, LenProperties
<1>4. /\ 1 \in 1 .. Len(front) + Len(rest) /\ 1 <= Len(front)
      /\ 2 \in 1 .. Len(front) + Len(rest) /\ 2 <= Len(front)
  BY <1>3
<1> QED BY <1>1, <1>2, <1>4 DEF Joined

\* What stands behind the first elements of three parts.
Behind(arguments, n) == SubSeq(arguments, n, Len(arguments))

LEMMA BehindTheFront ==
    ASSUME NEW S, NEW front \in Seq(S), NEW middle \in Seq(S), NEW back \in Seq(S)
    PROVE  Behind(Joined(front, middle, back), Len(front) + 1) = middle \o back
<1> DEFINE from == Len(front) + 1
           rest == middle \o back
           to == Len(front) + Len(rest)
<1>1. rest \in Seq(S) /\ (front \o middle) \o back = front \o rest
  BY ConcatProperties, ConcatAssociative, SMTT(40)
<1> HIDE DEF rest
<1>2. Len(front \o rest) = to
  BY <1>1, ConcatProperties
<1>3. to = Len(front) + Len(rest) /\ from = Len(front) + 1
  OBVIOUS
<1> HIDE DEF to, from
<1>4. SubSeq(front \o rest, from, to) = rest
  BY <1>1, <1>3, RestOfConcat
<1> QED BY <1>1, <1>2, <1>4 DEF rest, from, Joined, Behind

\* Three parts can be taken apart again, by the lengths of the outer two.
LEMMA LengthOfJoined ==
    ASSUME NEW S, NEW front \in Seq(S), NEW middle \in Seq(S), NEW back \in Seq(S)
    PROVE  /\ Joined(front, middle, back) \in Seq(S)
           /\ Len(Joined(front, middle, back)) = Len(front) + Len(middle) + Len(back)
<1> DEFINE first == front \o middle
<1>1. first \in Seq(S) /\ Len(first) = Len(front) + Len(middle)
  BY ConcatProperties
<1> HIDE DEF first
<1>2. first \o back \in Seq(S) /\ Len(first \o back) = Len(first) + Len(back)
  BY <1>1, ConcatProperties
<1> QED BY <1>1, <1>2 DEF Joined, first

LEMMA StartOfJoined ==
    ASSUME NEW S, NEW front \in Seq(S), NEW middle \in Seq(S), NEW back \in Seq(S),
           NEW n, n = Len(front)
    PROVE  SubSeq(Joined(front, middle, back), 1, n) = front
<1> DEFINE rest == middle \o back
<1>1. rest \in Seq(S) /\ (front \o middle) \o back = front \o rest
  BY ConcatProperties, ConcatAssociative, SMTT(40)
<1> HIDE DEF rest
<1>2. SubSeq(front \o rest, 1, n) = front
  BY <1>1, FirstOfConcat
<1> QED BY <1>1, <1>2 DEF Joined

\* What stands between the first and the last elements.
Between(arguments, front, back) ==
    SubSeq(arguments, Len(front) + 1, Len(arguments) - Len(back))

LEMMA MiddleOfJoined ==
    ASSUME NEW S, NEW front \in Seq(S), NEW middle \in Seq(S), NEW back \in Seq(S)
    PROVE  Between(Joined(front, middle, back), front, back) = middle
<1> DEFINE rest == middle \o back
           whole == Joined(front, middle, back)
           cut == SubSeq(whole, Len(front) + 1, Len(front) + Len(middle))
<1>1. rest \in Seq(S) /\ (front \o middle) \o back = front \o rest
  BY ConcatProperties, ConcatAssociative, SMTT(40)
<1>2. /\ Len(rest) = Len(middle) + Len(back)
      /\ \A i \in 1 .. Len(middle) + Len(back) :
            rest[i] = IF i <= Len(middle) THEN middle[i] ELSE back[i - Len(middle)]
  BY ConcatProperties
<1>3. Len(front) \in Nat /\ Len(middle) \in Nat /\ Len(back) \in Nat
  BY LenProperties
<1> HIDE DEF rest
<1>4. \A i \in 1 .. Len(front) + Len(rest) :
            whole[i] = IF i <= Len(front) THEN front[i] ELSE rest[i - Len(front)]
  <2>1. \A i \in 1 .. Len(front) + Len(rest) :
            (front \o rest)[i] = IF i <= Len(front) THEN front[i] ELSE rest[i - Len(front)]
    BY <1>1, ConcatProperties
  <2> QED BY <1>1, <2>1 DEF Joined
<1> HIDE DEF whole
<1>5. ASSUME NEW i \in 1 .. Len(middle) PROVE whole[Len(front) + i] = middle[i]
  <2>1. /\ Len(front) + i \in 1 .. Len(front) + Len(rest) /\ ~(Len(front) + i <= Len(front))
        /\ Len(front) + i - Len(front) = i
        /\ i \in 1 .. Len(middle) + Len(back) /\ i <= Len(middle)
    BY <1>2, <1>3
  <2>2. whole[Len(front) + i] = rest[i]
    BY <1>4, <2>1
  <2> QED BY <1>2, <2>1, <2>2
<1>6. cut = middle
  <2>1. \A i \in Len(front) + 1 .. Len(front) + Len(middle) : whole[i] \in S
    <3> SUFFICES ASSUME NEW i \in Len(front) + 1 .. Len(front) + Len(middle)
                 PROVE  whole[i] \in S
      OBVIOUS
    <3>1. i - Len(front) \in 1 .. Len(middle) /\ Len(front) + (i - Len(front)) = i
      BY <1>3
    <3>2. whole[i] = middle[i - Len(front)]
      BY <1>5, <3>1
    <3> QED BY <3>1, <3>2, ElementOfSeq
  <2>2. /\ Len(front) + 1 \in Int /\ Len(front) + Len(middle) \in Int
        /\ (Len(front) + Len(middle)) - (Len(front) + 1) + 1 = Len(middle)
        /\ \A i \in 1 .. Len(middle) : Len(front) + 1 + i - 1 = Len(front) + i
        /\ Len(front) + 1 <= Len(front) + Len(middle) <=> Len(middle) # 0
    BY <1>3
  <2>3. /\ cut \in Seq(S)
        /\ Len(cut) = IF Len(front) + 1 <= Len(front) + Len(middle)
                      THEN (Len(front) + Len(middle)) - (Len(front) + 1) + 1 ELSE 0
        /\ \A i \in 1 .. (Len(front) + Len(middle)) - (Len(front) + 1) + 1 :
                cut[i] = whole[Len(front) + 1 + i - 1]
    BY <2>1, <2>2, SubSeqProperties
  <2> HIDE DEF cut
  <2>4. Len(cut) = Len(middle)
    BY <2>2, <2>3
  <2>5. \A i \in 1 .. Len(cut) : cut[i] = middle[i]
    BY <1>5, <2>2, <2>3, <2>4
  <2> QED BY <2>3, <2>4, <2>5, SeqEqual
<1>7. Len(whole) - Len(back) = Len(front) + Len(middle)
  <2>1. Len(whole) = Len(front) + Len(middle) + Len(back)
    BY LengthOfJoined DEF whole
  <2> QED BY <1>3, <2>1
<1> QED BY <1>6, <1>7 DEF cut, whole, Between

\* How four parts are put together does not matter.
LEMMA FourParts ==
    ASSUME NEW S, NEW a \in Seq(S), NEW b \in Seq(S), NEW c \in Seq(S), NEW d \in Seq(S)
    PROVE  Joined(a, b, c \o d) = Joined(a, b \o c, d)
<1>1. c \o d \in Seq(S) /\ b \o c \in Seq(S)
  BY ConcatProperties
<1>2. (a \o b) \o (c \o d) = a \o (b \o (c \o d))
  BY <1>1, ConcatAssociative, SMTT(40)
<1>3. b \o (c \o d) = (b \o c) \o d
  BY ConcatAssociative, SMTT(40)
<1>4. (a \o (b \o c)) \o d = a \o ((b \o c) \o d)
  BY <1>1, ConcatAssociative, SMTT(60)
<1> QED BY <1>2, <1>3, <1>4 DEF Joined

\* One list of arguments is another with an option more.
HasOneMore(arguments, option, others) ==
    \E i \in DOMAIN arguments :
        arguments[i] = option /\ RemoveAt(arguments, i) = others

\* Two lists of arguments for the same options, one with an option more.
LEMMA SameBetween ==
    ASSUME NEW S, NEW front \in Seq(S), NEW plainFront \in Seq(S), NEW shared \in Seq(S),
           NEW option \in S, NEW last \in Seq(S), NEW end \in Seq(S)
    PROVE  LET arguments == Joined(front, Append(shared, option), last \o end)
               plain == Joined(plainFront, shared, last)
           IN HasOneMore(arguments, option,
                         Joined(front, Behind(plain, Len(plainFront) + 1), end))
<1> DEFINE arguments == Joined(front, Append(shared, option), last \o end)
           plain == Joined(plainFront, shared, last)
           back == last \o end
<1>1. back \in Seq(S)
  BY ConcatProperties
<1>2. Joined(front, shared, back) = Joined(front, shared \o last, end)
  BY FourParts
<1>3. arguments = Joined(front, Append(shared, option), back)
  OBVIOUS
<1> HIDE DEF arguments, back
<1>4. \E i \in DOMAIN arguments :
            arguments[i] = option /\ RemoveAt(arguments, i) = Joined(front, shared, back)
  BY <1>1, <1>3, RemovedOption
<1>5. Behind(plain, Len(plainFront) + 1) = shared \o last
  BY BehindTheFront
<1> HIDE DEF plain
<1>6. \E i \in DOMAIN arguments :
            /\ arguments[i] = option
            /\ RemoveAt(arguments, i) = Joined(front, Behind(plain, Len(plainFront) + 1), end)
  BY <1>2, <1>4, <1>5
<1> QED BY <1>6 DEF arguments, plain, HasOneMore
=============================================================================
