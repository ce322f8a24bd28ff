--------------------------- MODULE PushdownProofs ----------------------------
(***************************************************************************)
(* What the filters pushed down to the sources mean, for filters nested to *)
(* any depth.  The predicates of a filter, their meanings, their           *)
(* placeholders and the builder are functions of the depth of nesting, and *)
(* the argument is an induction over it: first what they are at each       *)
(* depth, the walk of the builder over the operands of a predicate, and    *)
(* the formatters of the predicates that have no operands; then the        *)
(* meanings.  Below the top a predicate is formatted with its meaning, or  *)
(* not at all: Faithful.  At the top the operands of a conjunction that    *)
(* cannot be formatted are left out, which selects more rows and never     *)
(* fewer: Pushed.  The state machine around it only has to remember which  *)
(* filter the clause comes from: PushdownInv.                              *)
(***************************************************************************)
EXTENDS Pushdown, WellFoundedInduction, TLAPS
-----------------------------------------------------------------------------
\* The order of the natural numbers, as a set of pairs.
Less == {ss \in Nat \X Nat : ss[1] < ss[2]}

\* The order of the natural numbers is well founded.
LEMMA LessWellFounded == IsWellFoundedOn(Less, Nat)
BY NatLessThanWellFounded DEF OpToRel, Less

\* A set of natural numbers that is not empty has a least member.
LEMMA LeastOf ==
  ASSUME NEW T, T \subseteq Nat, T # {}
  PROVE  \E x \in T : \A y \in T : x <= y
<1>1. PICK x \in T : \A y \in T : ~ (<<y, x>> \in Less)
  BY LessWellFounded, WFMin
<1>2. \A y \in T : ~ (y < x)
  BY <1>1 DEF Less
<1>3. \A y \in T : x <= y
  BY <1>2
<1> QED
  BY <1>3

\* Induction over the natural numbers, on a set instead of a formula.
LEMMA SetInduction ==
  ASSUME NEW S, 0 \in S, \A n \in Nat : n \in S => n + 1 \in S
  PROVE  Nat \subseteq S
<1> DEFINE T == Nat \ S
<1> SUFFICES ASSUME T # {} PROVE FALSE
  OBVIOUS
<1>1. PICK x \in T : \A y \in T : x <= y
  BY LeastOf
<1>2. x # 0 /\ x - 1 \in Nat
  OBVIOUS
<1>3. x - 1 \notin S
  BY <1>2
<1> QED
  BY <1>1, <1>2, <1>3

\* The depths of nesting, as a function on the natural numbers.
LEMMA NestedIs ==
  Nested = [m \in Nat |-> IF m = 0 THEN Simple ELSE Over(Nested[m - 1])]
<1> DEFINE Step(m, x) == IF m = 0 THEN Simple ELSE Over(x)
           Part(h, n) == h = [m \in 0 .. n |-> Step(m, h[m - 1])]
           part(n) == CHOOSE h : Part(h, n)
           f == [n \in Nat |-> part(n)[n]]
           S == {n \in Nat : \E h : Part(h, n)}
<1>1. \A x, y : Step(0, x) = Step(0, y)
  OBVIOUS
<1> HIDE DEF Step
<1>2. 0 \in S
  <2> DEFINE h0 == [m \in 0 .. 0 |-> Step(0, 0)]
  <2>1. h0 = [m \in 0 .. 0 |-> Step(m, h0[m - 1])]
    <3>1. \A m \in 0 .. 0 : m = 0
      OBVIOUS
    <3> QED
      BY <1>1, <3>1, Zenon
  <2> HIDE DEF h0
  <2> QED
    BY <2>1
<1>3. ASSUME NEW n \in Nat, n \in S PROVE n + 1 \in S
  <2>1. PICK h : Part(h, n)
    BY <1>3
  <2> DEFINE k == [m \in 0 .. (n + 1) |-> Step(m, h[m - 1])]
  <2>2. \A m \in 0 .. n : k[m] = h[m]
    BY <2>1
  <2> HIDE DEF k
  <2>3. \A m \in 0 .. (n + 1) : Step(m, k[m - 1]) = Step(m, h[m - 1])
    <3> TAKE m \in 0 .. (n + 1)
    <3>1. CASE m = 0
      BY <1>1, <3>1
    <3>2. CASE m # 0
      <4>1. k[m - 1] = h[m - 1]
        BY <2>2, <3>2
      <4> QED
        BY <4>1
    <3> QED
      BY <3>1, <3>2
  <2>4. k = [m \in 0 .. (n + 1) |-> Step(m, k[m - 1])]
    BY <2>3, Zenon DEF k
  <2> QED
    BY <2>4
<1>4. \A n \in Nat : Part(part(n), n)
  BY <1>2, <1>3, SetInduction
<1>5. ASSUME NEW a \in Nat, NEW b \in Nat, NEW h, NEW k, Part(h, a), Part(k, b)
      PROVE  \A m \in Nat : m <= a /\ m <= b => h[m] = k[m]
  <2> DEFINE U == {m \in Nat : m <= a /\ m <= b => h[m] = k[m]}
  <2>1. \A m \in Nat : m <= a /\ m <= b => h[m] = Step(m, h[m - 1]) /\ k[m] = Step(m, k[m - 1])
    BY <1>5
  <2>2. 0 \in U
    BY <1>1, <2>1
  <2>3. ASSUME NEW m \in Nat, m \in U PROVE m + 1 \in U
    BY <2>1, <2>3, (m + 1) - 1 = m
  <2> QED
    BY <2>2, <2>3, SetInduction
<1> HIDE DEF part, Part
<1>6. ASSUME NEW n \in Nat PROVE f[n] = Step(n, f[n - 1])
  <2>1. part(n)[n] = Step(n, part(n)[n - 1])
    BY <1>4 DEF Part
  <2>2. CASE n = 0
    BY <1>1, <2>1, <2>2
  <2>3. CASE n # 0
    <3>1. n - 1 \in Nat /\ n - 1 <= n /\ n - 1 <= n - 1
      BY <2>3
    <3>2. part(n)[n - 1] = part(n - 1)[n - 1]
      BY <1>4, <1>5, <3>1
    <3> QED
      BY <2>1, <3>1, <3>2
  <2> QED
    BY <2>2, <2>3
<1>7. f = [n \in Nat |-> Step(n, f[n - 1])]
  BY <1>6
<1> HIDE DEF f
<1> QED
  BY <1>7, Zenon DEF Step, Nested

\* The predicate builder, depth by depth.
LEMMA BuilderIs ==
  ASSUME NEW kind
  PROVE  Builder(kind) =
           [m \in Nat |-> IF m = 0 THEN FormatterOf(kind, Simple, <<>>)
                          ELSE FormatterOf(kind, Nested[m], Builder(kind)[m - 1])]
<1> DEFINE Step(m, x) == IF m = 0 THEN FormatterOf(kind, Simple, <<>>) ELSE FormatterOf(kind, Nested[m], x)
           Part(h, n) == h = [m \in 0 .. n |-> Step(m, h[m - 1])]
           part(n) == CHOOSE h : Part(h, n)
           f == [n \in Nat |-> part(n)[n]]
           S == {n \in Nat : \E h : Part(h, n)}
<1>1. \A x, y : Step(0, x) = Step(0, y)
  OBVIOUS
<1> HIDE DEF Step
<1>2. 0 \in S
  <2> DEFINE h0 == [m \in 0 .. 0 |-> Step(0, 0)]
  <2>1. h0 = [m \in 0 .. 0 |-> Step(m, h0[m - 1])]
    <3>1. \A m \in 0 .. 0 : m = 0
      OBVIOUS
    <3> QED
      BY <1>1, <3>1, Zenon
  <2> HIDE DEF h0
  <2> QED
    BY <2>1
<1>3. ASSUME NEW n \in Nat, n \in S PROVE n + 1 \in S
  <2>1. PICK h : Part(h, n)
    BY <1>3
  <2> DEFINE k == [m \in 0 .. (n + 1) |-> Step(m, h[m - 1])]
  <2>2. \A m \in 0 .. n : k[m] = h[m]
    BY <2>1
  <2> HIDE DEF k
  <2>3. \A m \in 0 .. (n + 1) : Step(m, k[m - 1]) = Step(m, h[m - 1])
    <3> TAKE m \in 0 .. (n + 1)
    <3>1. CASE m = 0
      BY <1>1, <3>1
    <3>2. CASE m # 0
      <4>1. k[m - 1] = h[m - 1]
        BY <2>2, <3>2
      <4> QED
        BY <4>1
    <3> QED
      BY <3>1, <3>2
  <2>4. k = [m \in 0 .. (n + 1) |-> Step(m, k[m - 1])]
    BY <2>3, Zenon DEF k
  <2> QED
    BY <2>4
<1>4. \A n \in Nat : Part(part(n), n)
  BY <1>2, <1>3, SetInduction
<1>5. ASSUME NEW a \in Nat, NEW b \in Nat, NEW h, NEW k, Part(h, a), Part(k, b)
      PROVE  \A m \in Nat : m <= a /\ m <= b => h[m] = k[m]
  <2> DEFINE U == {m \in Nat : m <= a /\ m <= b => h[m] = k[m]}
  <2>1. \A m \in Nat : m <= a /\ m <= b => h[m] = Step(m, h[m - 1]) /\ k[m] = Step(m, k[m - 1])
    BY <1>5
  <2>2. 0 \in U
    BY <1>1, <2>1
  <2>3. ASSUME NEW m \in Nat, m \in U PROVE m + 1 \in U
    BY <2>1, <2>3, (m + 1) - 1 = m
  <2> QED
    BY <2>2, <2>3, SetInduction
<1> HIDE DEF part, Part
<1>6. ASSUME NEW n \in Nat PROVE f[n] = Step(n, f[n - 1])
  <2>1. part(n)[n] = Step(n, part(n)[n - 1])
    BY <1>4 DEF Part
  <2>2. CASE n = 0
    BY <1>1, <2>1, <2>2
  <2>3. CASE n # 0
    <3>1. n - 1 \in Nat /\ n - 1 <= n /\ n - 1 <= n - 1
      BY <2>3
    <3>2. part(n)[n - 1] = part(n - 1)[n - 1]
      BY <1>4, <1>5, <3>1
    <3> QED
      BY <2>1, <3>1, <3>2
  <2> QED
    BY <2>2, <2>3
<1>7. f = [n \in Nat |-> Step(n, f[n - 1])]
  BY <1>6
<1> HIDE DEF f
<1> QED
  BY <1>7, Zenon DEF Step, Builder

\* The meanings, depth by depth.
LEMMA MeaningsAre ==
  Meanings =
    [m \in Nat |-> IF m = 0 THEN MeaningOf(Simple, <<>>)
                   ELSE MeaningOf(Nested[m], Meanings[m - 1])]
<1> DEFINE Step(m, x) == IF m = 0 THEN MeaningOf(Simple, <<>>) ELSE MeaningOf(Nested[m], x)
           Part(h, n) == h = [m \in 0 .. n |-> Step(m, h[m - 1])]
           part(n) == CHOOSE h : Part(h, n)
           f == [n \in Nat |-> part(n)[n]]
           S == {n \in Nat : \E h : Part(h, n)}
<1>1. \A x, y : Step(0, x) = Step(0, y)
  OBVIOUS
<1> HIDE DEF Step
<1>2. 0 \in S
  <2> DEFINE h0 == [m \in 0 .. 0 |-> Step(0, 0)]
  <2>1. h0 = [m \in 0 .. 0 |-> Step(m, h0[m - 1])]
    <3>1. \A m \in 0 .. 0 : m = 0
      OBVIOUS
    <3> QED
      BY <1>1, <3>1, Zenon
  <2> HIDE DEF h0
  <2> QED
    BY <2>1
<1>3. ASSUME NEW n \in Nat, n \in S PROVE n + 1 \in S
  <2>1. PICK h : Part(h, n)
    BY <1>3
  <2> DEFINE k == [m \in 0 .. (n + 1) |-> Step(m, h[m - 1])]
  <2>2. \A m \in 0 .. n : k[m] = h[m]
    BY <2>1
  <2> HIDE DEF k
  <2>3. \A m \in 0 .. (n + 1) : Step(m, k[m - 1]) = Step(m, h[m - 1])
    <3> TAKE m \in 0 .. (n + 1)
    <3>1. CASE m = 0
      BY <1>1, <3>1
    <3>2. CASE m # 0
      <4>1. k[m - 1] = h[m - 1]
        BY <2>2, <3>2
      <4> QED
        BY <4>1
    <3> QED
      BY <3>1, <3>2
  <2>4. k = [m \in 0 .. (n + 1) |-> Step(m, k[m - 1])]
    BY <2>3, Zenon DEF k
  <2> QED
    BY <2>4
<1>4. \A n \in Nat : Part(part(n), n)
  BY <1>2, <1>3, SetInduction
<1>5. ASSUME NEW a \in Nat, NEW b \in Nat, NEW h, NEW k, Part(h, a), Part(k, b)
      PROVE  \A m \in Nat : m <= a /\ m <= b => h[m] = k[m]
  <2> DEFINE U == {m \in Nat : m <= a /\ m <= b => h[m] = k[m]}
  <2>1. \A m \in Nat : m <= a /\ m <= b => h[m] = Step(m, h[m - 1]) /\ k[m] = Step(m, k[m - 1])
    BY <1>5
  <2>2. 0 \in U
    BY <1>1, <2>1
  <2>3. ASSUME NEW m \in Nat, m \in U PROVE m + 1 \in U
    BY <2>1, <2>3, (m + 1) - 1 = m
  <2> QED
    BY <2>2, <2>3, SetInduction
<1> HIDE DEF part, Part
<1>6. ASSUME NEW n \in Nat PROVE f[n] = Step(n, f[n - 1])
  <2>1. part(n)[n] = Step(n, part(n)[n - 1])
    BY <1>4 DEF Part
  <2>2. CASE n = 0
    BY <1>1, <2>1, <2>2
  <2>3. CASE n # 0
    <3>1. n - 1 \in Nat /\ n - 1 <= n /\ n - 1 <= n - 1
      BY <2>3
    <3>2. part(n)[n - 1] = part(n - 1)[n - 1]
      BY <1>4, <1>5, <3>1
    <3> QED
      BY <2>1, <3>1, <3>2
  <2> QED
    BY <2>2, <2>3
<1>7. f = [n \in Nat |-> Step(n, f[n - 1])]
  BY <1>6
<1> HIDE DEF f
<1> QED
  BY <1>7, Zenon DEF Step, Meanings

\* The placeholders, depth by depth.
LEMMA PlacementsAre ==
  Placements =
    [m \in Nat |-> IF m = 0 THEN PlacementOf(Simple, <<>>)
                   ELSE PlacementOf(Nested[m], Placements[m - 1])]
<1> DEFINE Step(m, x) == IF m = 0 THEN PlacementOf(Simple, <<>>) ELSE PlacementOf(Nested[m], x)
           Part(h, n) == h = [m \in 0 .. n |-> Step(m, h[m - 1])]
           part(n) == CHOOSE h : Part(h, n)
           f == [n \in Nat |-> part(n)[n]]
           S == {n \in Nat : \E h : Part(h, n)}
<1>1. \A x, y : Step(0, x) = Step(0, y)
  OBVIOUS
<1> HIDE DEF Step
<1>2. 0 \in S
  <2> DEFINE h0 == [m \in 0 .. 0 |-> Step(0, 0)]
  <2>1. h0 = [m \in 0 .. 0 |-> Step(m, h0[m - 1])]
    <3>1. \A m \in 0 .. 0 : m = 0
      OBVIOUS
    <3> QED
      BY <1>1, <3>1, Zenon
  <2> HIDE DEF h0
  <2> QED
    BY <2>1
<1>3. ASSUME NEW n \in Nat, n \in S PROVE n + 1 \in S
  <2>1. PICK h : Part(h, n)
    BY <1>3
  <2> DEFINE k == [m \in 0 .. (n + 1) |-> Step(m, h[m - 1])]
  <2>2. \A m \in 0 .. n : k[m] = h[m]
    BY <2>1
  <2> HIDE DEF k
  <2>3. \A m \in 0 .. (n + 1) : Step(m, k[m - 1]) = Step(m, h[m - 1])
    <3> TAKE m \in 0 .. (n + 1)
    <3>1. CASE m = 0
      BY <1>1, <3>1
    <3>2. CASE m # 0
      <4>1. k[m - 1] = h[m - 1]
        BY <2>2, <3>2
      <4> QED
        BY <4>1
    <3> QED
      BY <3>1, <3>2
  <2>4. k = [m \in 0 .. (n + 1) |-> Step(m, k[m - 1])]
    BY <2>3, Zenon DEF k
  <2> QED
    BY <2>4
<1>4. \A n \in Nat : Part(part(n), n)
  BY <1>2, <1>3, SetInduction
<1>5. ASSUME NEW a \in Nat, NEW b \in Nat, NEW h, NEW k, Part(h, a), Part(k, b)
      PROVE  \A m \in Nat : m <= a /\ m <= b => h[m] = k[m]
  <2> DEFINE U == {m \in Nat : m <= a /\ m <= b => h[m] = k[m]}
  <2>1. \A m \in Nat : m <= a /\ m <= b => h[m] = Step(m, h[m - 1]) /\ k[m] = Step(m, k[m - 1])
    BY <1>5
  <2>2. 0 \in U
    BY <1>1, <2>1
  <2>3. ASSUME NEW m \in Nat, m \in U PROVE m + 1 \in U
    BY <2>1, <2>3, (m + 1) - 1 = m
  <2> QED
    BY <2>2, <2>3, SetInduction
<1> HIDE DEF part, Part
<1>6. ASSUME NEW n \in Nat PROVE f[n] = Step(n, f[n - 1])
  <2>1. part(n)[n] = Step(n, part(n)[n - 1])
    BY <1>4 DEF Part
  <2>2. CASE n = 0
    BY <1>1, <2>1, <2>2
  <2>3. CASE n # 0
    <3>1. n - 1 \in Nat /\ n - 1 <= n /\ n - 1 <= n - 1
      BY <2>3
    <3>2. part(n)[n - 1] = part(n - 1)[n - 1]
      BY <1>4, <1>5, <3>1
    <3> QED
      BY <2>1, <3>1, <3>2
  <2> QED
    BY <2>2, <2>3
<1>7. f = [n \in Nat |-> Step(n, f[n - 1])]
  BY <1>6
<1> HIDE DEF f
<1> QED
  BY <1>7, Zenon DEF Step, Placements

\* The predicates of each depth, from those of the depth below.
LEMMA NestedSteps ==
  /\ Nested[0] = Simple
  /\ \A n \in Nat : Nested[n + 1] = Over(Nested[n])
<1>1. \A n \in Nat : Nested[n] = IF n = 0 THEN Simple ELSE Over(Nested[n - 1])
  BY NestedIs, Zenon
<1> QED
  BY <1>1

\* More parts give more predicates.
LEMMA OverGrows ==
  ASSUME NEW A, NEW B, A \subseteq B
  PROVE  Over(A) \subseteq Over(B)
<1>1. Seq(A) \subseteq Seq(B)
  OBVIOUS
<1> QED
  BY <1>1 DEF Over

\* A predicate of one depth is one of the next.
LEMMA NestedGrows ==
  \A n \in Nat : Nested[n] \subseteq Nested[n + 1]
<1> DEFINE S == {n \in Nat : Nested[n] \subseteq Nested[n + 1]}
<1>1. 0 \in S
  BY NestedSteps DEF Over
<1>2. ASSUME NEW n \in Nat, n \in S PROVE n + 1 \in S
  <2>1. Nested[n + 1] = Over(Nested[n]) /\ Nested[n + 1 + 1] = Over(Nested[n + 1])
    BY NestedSteps
  <2> QED
    BY <1>2, <2>1, OverGrows
<1> QED
  BY <1>1, <1>2, SetInduction

\* The parts of a predicate, by its kind.
LEMMA PartsOf ==
  ASSUME NEW ps, NEW p \in Over(ps)
  PROVE  /\ p.tag = "negation" => p.p \in ps
         /\ p.tag \in {"conjunction", "disjunction", "coalesce"} => p.ps \in Seq(ps)
         /\ p.tag = "comparison" =>
              p.op \in Operations \cup {"ID"} /\ p.l \in Expressions /\ p.r \in Expressions
         /\ p.tag \in {"is_null", "is_not_null", "bool"} => p.e \in Expressions
         /\ p.tag \in {"negation", "conjunction", "disjunction", "coalesce", "comparison", "is_null", "is_not_null",
                       "bool", "between"}
BY DEF Over, Simple

\* The parts of a nested predicate are one level down.
LEMMA PartsBelow ==
  ASSUME NEW n \in Nat, NEW p \in Nested[n]
  PROVE  /\ p.tag = "negation" => n # 0 /\ p.p \in Nested[n - 1]
         /\ p.tag \in {"conjunction", "disjunction", "coalesce"} => n # 0 /\ p.ps \in Seq(Nested[n - 1])
         /\ p.tag = "comparison" =>
              p.op \in Operations \cup {"ID"} /\ p.l \in Expressions /\ p.r \in Expressions
         /\ p.tag \in {"is_null", "is_not_null", "bool"} => p.e \in Expressions
         /\ p.tag \in {"negation", "conjunction", "disjunction", "coalesce", "comparison", "is_null", "is_not_null",
                       "bool", "between"}
<1>1. CASE n = 0
  <2>1. p \in Simple
    BY <1>1, NestedSteps
  <2>2. p \in Over({})
    BY <2>1 DEF Over
  <2>3. p.tag \notin {"negation", "conjunction", "disjunction", "coalesce"}
    BY <2>1 DEF Simple
  <2> QED
    BY <2>2, <2>3, PartsOf
<1>2. CASE n # 0
  <2>1. n - 1 \in Nat /\ n = (n - 1) + 1
    BY <1>2
  <2>2. Nested[n] = Over(Nested[n - 1])
    BY <2>1, NestedSteps
  <2>3. p \in Over(Nested[n - 1])
    BY <2>2
  <2> QED
    BY <1>2, <2>3, PartsOf
<1> QED
  BY <1>1, <1>2

\* What is made of the operands.
MeaningsBelow(n) == IF n = 0 THEN <<>> ELSE Meanings[n - 1]
PlacementsBelow(n) == IF n = 0 THEN <<>> ELSE Placements[n - 1]
BuilderBelow(kind, n) == IF n = 0 THEN <<>> ELSE Builder(kind)[n - 1]

\* The meaning of a predicate rests on the meanings one level down.
LEMMA MeaningSteps ==
  ASSUME NEW n \in Nat, NEW p \in Nested[n], NEW row \in Rows, NEW args \in Seq(ValueExprs)
  PROVE  Meanings[n][p][row][args] = Meaning(MeaningsBelow(n), p, row, args)
<1>1. Meanings[n] = IF n = 0 THEN MeaningOf(Simple, <<>>) ELSE MeaningOf(Nested[n], Meanings[n - 1])
  BY MeaningsAre, Zenon
<1>2. Meanings[n] = MeaningOf(Nested[n], MeaningsBelow(n))
  BY <1>1, NestedSteps DEF MeaningsBelow
<1> QED
  BY <1>2 DEF MeaningOf

\* The placeholders of a predicate rest on those one level down.
LEMMA PlacementSteps ==
  ASSUME NEW n \in Nat, NEW p \in Nested[n]
  PROVE  Placements[n][p] = Placed(PlacementsBelow(n), p)
<1>1. Placements[n] = IF n = 0 THEN PlacementOf(Simple, <<>>) ELSE PlacementOf(Nested[n], Placements[n - 1])
  BY PlacementsAre, Zenon
<1>2. Placements[n] = PlacementOf(Nested[n], PlacementsBelow(n))
  BY <1>1, NestedSteps DEF PlacementsBelow
<1> QED
  BY <1>2 DEF PlacementOf

\* formatPredicate formats the parts of a predicate one level down.
LEMMA BuilderSteps ==
  ASSUME NEW kind, NEW n \in Nat, NEW p \in Nested[n], NEW topLevel \in BOOLEAN, NEW embedBool \in BOOLEAN,
         NEW args \in Seq(ValueExprs)
  PROVE  Builder(kind)[n][p][topLevel][embedBool][args] =
           formatPayload(kind, BuilderBelow(kind, n), p, topLevel, embedBool, args)
<1>1. Builder(kind) = [m \in Nat |-> IF m = 0 THEN FormatterOf(kind, Simple, <<>>)
                                     ELSE FormatterOf(kind, Nested[m], Builder(kind)[m - 1])]
  BY BuilderIs
<1>2. Builder(kind)[n] = IF n = 0 THEN FormatterOf(kind, Simple, <<>>)
                         ELSE FormatterOf(kind, Nested[n], Builder(kind)[n - 1])
  BY <1>1, Zenon
<1>3. Builder(kind)[n] = FormatterOf(kind, Nested[n], BuilderBelow(kind, n))
  BY <1>2, NestedSteps DEF BuilderBelow
<1> QED
  BY <1>3 DEF FormatterOf

\* The meaning of a predicate, by its kind.
OperandTags == {"conjunction", "disjunction", "coalesce"}
SimpleTags == {"comparison", "is_null", "is_not_null", "bool", "between"}

Operands(sub, p, row, args) == [i \in DOMAIN p.ps |-> sub[p.ps[i]][row][args]]

Combined(tag, ts) ==
  CASE tag = "conjunction" -> And({ts[i] : i \in DOMAIN ts})
    [] tag = "disjunction" -> Or({ts[i] : i \in DOMAIN ts})
    [] tag = "coalesce" -> Coalesced(ts)

\* The meaning of NOT.
LEMMA MeaningNegated ==
  ASSUME NEW sub, NEW p, NEW row, NEW args, p.tag = "negation"
  PROVE  Meaning(sub, p, row, args) = Not(sub[p.p][row][args])
BY DEF Meaning

\* The places of a sequence; it is empty when its length is zero.
LEMMA SeqPlaces ==
  ASSUME NEW S, NEW s \in Seq(S)
  PROVE  Len(s) \in Nat /\ (s = <<>> <=> Len(s) = 0) /\ DOMAIN s = 1 .. Len(s)
OBVIOUS

\* The meaning of AND, OR and COALESCE.
LEMMA MeaningCombined ==
  ASSUME NEW sub, NEW p, NEW row, NEW args, p.tag \in OperandTags
  PROVE  Meaning(sub, p, row, args) = Combined(p.tag, Operands(sub, p, row, args))
<1> DEFINE ts == Operands(sub, p, row, args)
<1>0. ts = [i \in DOMAIN p.ps |-> sub[p.ps[i]][row][args]] /\ DOMAIN ts = DOMAIN p.ps
  BY DEF Operands
<1> HIDE DEF ts
<1>1. CASE p.tag = "conjunction"
  BY <1>0, <1>1 DEF Meaning, Combined, ts
<1>2. CASE p.tag = "disjunction"
  BY <1>0, <1>2 DEF Meaning, Combined, ts
<1>3. CASE p.tag = "coalesce"
  BY <1>0, <1>3 DEF Meaning, Combined, ts
<1> QED
  BY <1>1, <1>2, <1>3 DEF OperandTags

\* The meaning of a predicate without parts asks for nothing below it.
LEMMA MeaningSimple ==
  ASSUME NEW sub, NEW p, NEW row, NEW args, p.tag \in SimpleTags
  PROVE  LET meaning == Meaning(sub, p, row, args)
         IN /\ p.tag = "comparison" => meaning = Compare(p.op, ValueOf(p.l, row, args), ValueOf(p.r, row, args))
            /\ p.tag = "is_null" => meaning = Truth(ValueOf(p.e, row, args) = NullValue)
            /\ p.tag = "is_not_null" => meaning = Truth(ValueOf(p.e, row, args) # NullValue)
            /\ p.tag = "bool" => meaning = ValueOf(p.e, row, args)
            /\ meaning = Meaning(<<>>, p, row, args)
<1> USE DEF Meaning
<1>1. CASE p.tag = "comparison" BY <1>1
<1>2. CASE p.tag = "is_null" BY <1>2
<1>3. CASE p.tag = "is_not_null" BY <1>3
<1>4. CASE p.tag = "bool" BY <1>4
<1>5. CASE p.tag = "between" BY <1>5
<1> QED
  BY <1>1, <1>2, <1>3, <1>4, <1>5 DEF SimpleTags

\* A predicate means the same at every depth that has it.
LEMMA MeaningStays ==
  ASSUME NEW n \in Nat, NEW p \in Nested[n], NEW row \in Rows, NEW args \in Seq(ValueExprs)
  PROVE  Meanings[n + 1][p][row][args] = Meanings[n][p][row][args]
<1> DEFINE S == {m \in Nat : \A q \in Nested[m] : Meanings[m + 1][q][row][args] = Meanings[m][q][row][args]}
<1>1. ASSUME NEW m \in Nat, m # 0 => m - 1 \in S PROVE m \in S
  <2> SUFFICES ASSUME NEW q \in Nested[m]
               PROVE  Meanings[m + 1][q][row][args] = Meanings[m][q][row][args]
    OBVIOUS
  <2> DEFINE below == MeaningsBelow(m)
             above == Meanings[m]
  <2>1. Meanings[m][q][row][args] = Meaning(below, q, row, args)
    BY MeaningSteps
  <2>2. Meanings[m + 1][q][row][args] = Meaning(above, q, row, args)
    <3>1. q \in Nested[m + 1] /\ m + 1 \in Nat
      BY NestedGrows
    <3>2. MeaningsBelow(m + 1) = Meanings[m]
      BY DEF MeaningsBelow
    <3> QED
      BY <3>1, <3>2, MeaningSteps
  <2>3. ASSUME m # 0, NEW x \in Nested[m - 1] PROVE above[x][row][args] = below[x][row][args]
    <3>1. m - 1 \in S /\ m - 1 + 1 = m
      BY <1>1, <2>3
    <3> QED
      BY <2>3, <3>1 DEF MeaningsBelow
  <2> HIDE DEF below, above
  <2>4. CASE q.tag = "negation"
    <3>1. above[q.p][row][args] = below[q.p][row][args]
      BY <2>3, <2>4, PartsBelow
    <3> QED
      BY <2>1, <2>2, <2>4, <3>1, MeaningNegated
  <2>5. CASE q.tag \in {"conjunction", "disjunction", "coalesce"}
    <3>1. q.ps \in Seq(Nested[m - 1]) /\ m # 0
      BY <2>5, PartsBelow
    <3>2. \A i \in DOMAIN q.ps : above[q.ps[i]][row][args] = below[q.ps[i]][row][args]
      BY <2>3, <3>1
    <3>3. Operands(above, q, row, args) = Operands(below, q, row, args)
      BY <3>2 DEF Operands
    <3> QED
      BY <2>1, <2>2, <2>5, <3>3, MeaningCombined DEF OperandTags
  <2>6. CASE q.tag \notin {"negation", "conjunction", "disjunction", "coalesce"}
    <3>1. q.tag \in SimpleTags
      BY <2>6, PartsBelow DEF SimpleTags
    <3>2. Meaning(above, q, row, args) = Meaning(<<>>, q, row, args)
      BY <3>1, MeaningSimple
    <3>3. Meaning(below, q, row, args) = Meaning(<<>>, q, row, args)
      BY <3>1, MeaningSimple
    <3> QED
      BY <2>1, <2>2, <3>2, <3>3
  <2> QED
    BY <2>4, <2>5, <2>6
<1>2. 0 \in S
  BY <1>1
<1>3. \A m \in Nat : m \in S => m + 1 \in S
  BY <1>1
<1> QED
  BY <1>2, <1>3, SetInduction

\* A predicate has the same placeholders at every depth that has it.
LEMMA PlacementStays ==
  ASSUME NEW n \in Nat, NEW p \in Nested[n]
  PROVE  Placements[n + 1][p] = Placements[n][p]
<1> DEFINE S == {m \in Nat : \A q \in Nested[m] : Placements[m + 1][q] = Placements[m][q]}
<1>1. ASSUME NEW m \in Nat, m # 0 => m - 1 \in S PROVE m \in S
  <2> SUFFICES ASSUME NEW q \in Nested[m]
               PROVE  Placements[m + 1][q] = Placements[m][q]
    OBVIOUS
  <2> DEFINE below == PlacementsBelow(m)
             above == Placements[m]
  <2>1. Placements[m][q] = Placed(below, q)
    BY PlacementSteps
  <2>2. Placements[m + 1][q] = Placed(above, q)
    <3>1. q \in Nested[m + 1] /\ m + 1 \in Nat
      BY NestedGrows
    <3>2. PlacementsBelow(m + 1) = Placements[m]
      BY DEF PlacementsBelow
    <3> QED
      BY <3>1, <3>2, PlacementSteps
  <2>3. ASSUME m # 0, NEW x \in Nested[m - 1] PROVE above[x] = below[x]
    <3>1. m - 1 \in S /\ m - 1 + 1 = m
      BY <1>1, <2>3
    <3> QED
      BY <2>3, <3>1 DEF PlacementsBelow
  <2> HIDE DEF below, above
  <2>4. CASE q.tag = "negation"
    <3>1. above[q.p] = below[q.p]
      BY <2>3, <2>4, PartsBelow
    <3> QED
      BY <2>1, <2>2, <2>4, <3>1 DEF Placed
  <2>5. CASE q.tag \in {"conjunction", "disjunction", "coalesce"}
    <3>1. q.ps \in Seq(Nested[m - 1]) /\ m # 0
      BY <2>5, PartsBelow
    <3>2. \A i \in DOMAIN q.ps : above[q.ps[i]] = below[q.ps[i]]
      BY <2>3, <3>1
    <3>3. \A i \in DOMAIN q.ps : \A j \in 1 .. (i - 1) : j \in DOMAIN q.ps
      BY <3>1
    <3>4. UNION {above[q.ps[i]].marks : i \in DOMAIN q.ps} = UNION {below[q.ps[i]].marks : i \in DOMAIN q.ps}
      BY <3>2
    <3> DEFINE all(sub) == UNION {sub[q.ps[i]].marks : i \in DOMAIN q.ps}
               grows(sub) == \A i \in DOMAIN q.ps :
                 sub[q.ps[i]].grow /\ \A j \in 1 .. (i - 1) : Below(sub[q.ps[j]].marks, sub[q.ps[i]].marks)
    <3>5. /\ Placed(above, q) = [marks |-> all(above), grow |-> grows(above)]
          /\ Placed(below, q) = [marks |-> all(below), grow |-> grows(below)]
      BY <2>5, Zenon DEF Placed
    <3>6. grows(above) <=> grows(below)
      BY <3>2, <3>3, Zenon
    <3> QED
      BY <2>1, <2>2, <3>4, <3>5, <3>6, Zenon
  <2>6. CASE q.tag \notin {"negation", "conjunction", "disjunction", "coalesce"}
    <3>1. Placed(above, q) = Placed(below, q)
      BY <2>6 DEF Placed
    <3> QED
      BY <2>1, <2>2, <3>1
  <2> QED
    BY <2>4, <2>5, <2>6
<1>2. 0 \in S
  BY <1>1
<1>3. \A m \in Nat : m \in S => m + 1 \in S
  BY <1>1
<1> QED
  BY <1>2, <1>3, SetInduction

\* The walk over the operands.
WalkStep(sub, ps, goOn, embedBool, k, acc) ==
  LET r == sub[ps[k]][FALSE][embedBool][acc.args]
  IN IF ~Ok(acc) /\ ~goOn THEN acc
     ELSE [err |-> r.err, out |-> IF Ok(r) THEN Append(acc.out, r.out) ELSE acc.out, args |-> r.args]

Walk(sub, ps, goOn, embedBool, args) ==
  CHOOSE upTo : upTo = [k \in Nat |-> IF k = 0 THEN Done(<<>>, args)
                                      ELSE WalkStep(sub, ps, goOn, embedBool, k, upTo[k - 1])]

\* The walk, operand by operand.
LEMMA WalkIs ==
  ASSUME NEW sub, NEW ps, NEW goOn, NEW embedBool, NEW args
  PROVE  Walk(sub, ps, goOn, embedBool, args) =
           [m \in Nat |-> IF m = 0 THEN Done(<<>>, args)
                          ELSE WalkStep(sub, ps, goOn, embedBool, m, Walk(sub, ps, goOn, embedBool, args)[m - 1])]
<1> DEFINE Step(m, x) == IF m = 0 THEN Done(<<>>, args) ELSE WalkStep(sub, ps, goOn, embedBool, m, x)
           Part(h, n) == h = [m \in 0 .. n |-> Step(m, h[m - 1])]
           part(n) == CHOOSE h : Part(h, n)
           f == [n \in Nat |-> part(n)[n]]
           S == {n \in Nat : \E h : Part(h, n)}
<1>1. \A x, y : Step(0, x) = Step(0, y)
  OBVIOUS
<1> HIDE DEF Step
<1>2. 0 \in S
  <2> DEFINE h0 == [m \in 0 .. 0 |-> Step(0, 0)]
  <2>1. h0 = [m \in 0 .. 0 |-> Step(m, h0[m - 1])]
    <3>1. \A m \in 0 .. 0 : m = 0
      OBVIOUS
    <3> QED
      BY <1>1, <3>1, Zenon
  <2> HIDE DEF h0
  <2> QED
    BY <2>1
<1>3. ASSUME NEW n \in Nat, n \in S PROVE n + 1 \in S
  <2>1. PICK h : Part(h, n)
    BY <1>3
  <2> DEFINE k == [m \in 0 .. (n + 1) |-> Step(m, h[m - 1])]
  <2>2. \A m \in 0 .. n : k[m] = h[m]
    BY <2>1
  <2> HIDE DEF k
  <2>3. \A m \in 0 .. (n + 1) : Step(m, k[m - 1]) = Step(m, h[m - 1])
    <3> TAKE m \in 0 .. (n + 1)
    <3>1. CASE m = 0
      BY <1>1, <3>1
    <3>2. CASE m # 0
      <4>1. k[m - 1] = h[m - 1]
        BY <2>2, <3>2
      <4> QED
        BY <4>1
    <3> QED
      BY <3>1, <3>2
  <2>4. k = [m \in 0 .. (n + 1) |-> Step(m, k[m - 1])]
    BY <2>3, Zenon DEF k
  <2> QED
    BY <2>4
<1>4. \A n \in Nat : Part(part(n), n)
  BY <1>2, <1>3, SetInduction
<1>5. ASSUME NEW a \in Nat, NEW b \in Nat, NEW h, NEW k, Part(h, a), Part(k, b)
      PROVE  \A m \in Nat : m <= a /\ m <= b => h[m] = k[m]
  <2> DEFINE U == {m \in Nat : m <= a /\ m <= b => h[m] = k[m]}
  <2>1. \A m \in Nat : m <= a /\ m <= b => h[m] = Step(m, h[m - 1]) /\ k[m] = Step(m, k[m - 1])
    BY <1>5
  <2>2. 0 \in U
    BY <1>1, <2>1
  <2>3. ASSUME NEW m \in Nat, m \in U PROVE m + 1 \in U
    BY <2>1, <2>3, (m + 1) - 1 = m
  <2> QED
    BY <2>2, <2>3, SetInduction
<1> HIDE DEF part, Part
<1>6. ASSUME NEW n \in Nat PROVE f[n] = Step(n, f[n - 1])
  <2>1. part(n)[n] = Step(n, part(n)[n - 1])
    BY <1>4 DEF Part
  <2>2. CASE n = 0
    BY <1>1, <2>1, <2>2
  <2>3. CASE n # 0
    <3>1. n - 1 \in Nat /\ n - 1 <= n /\ n - 1 <= n - 1
      BY <2>3
    <3>2. part(n)[n - 1] = part(n - 1)[n - 1]
      BY <1>4, <1>5, <3>1
    <3> QED
      BY <2>1, <3>1, <3>2
  <2> QED
    BY <2>2, <2>3
<1>7. f = [n \in Nat |-> Step(n, f[n - 1])]
  BY <1>6
<1> HIDE DEF f
<1> QED
  BY <1>7, Zenon DEF Step, Walk

\* formatOperands is where the walk over the operands ends.
LEMMA OperandsAreWalked ==
  ASSUME NEW sub, NEW ps, NEW goOn, NEW embedBool, NEW args
  PROVE  formatOperands(sub, ps, goOn, embedBool, args) = Walk(sub, ps, goOn, embedBool, args)[Len(ps)]
BY Zenon DEF formatOperands, Walk, WalkStep

\* The walk starts with nothing formatted and takes one operand at a time.
LEMMA WalkSteps ==
  ASSUME NEW sub, NEW ps, NEW goOn, NEW embedBool, NEW args
  PROVE  /\ Walk(sub, ps, goOn, embedBool, args)[0] = Done(<<>>, args)
         /\ \A k \in Nat : Walk(sub, ps, goOn, embedBool, args)[k + 1] =
                             WalkStep(sub, ps, goOn, embedBool, k + 1, Walk(sub, ps, goOn, embedBool, args)[k])
<1> DEFINE w == Walk(sub, ps, goOn, embedBool, args)
<1>1. w = [k \in Nat |-> IF k = 0 THEN Done(<<>>, args) ELSE WalkStep(sub, ps, goOn, embedBool, k, w[k - 1])]
  BY WalkIs
<1> HIDE DEF w
<1>2. \A k \in Nat : w[k] = IF k = 0 THEN Done(<<>>, args) ELSE WalkStep(sub, ps, goOn, embedBool, k, w[k - 1])
  BY <1>1, Zenon
<1>3. w[0] = Done(<<>>, args) /\ \A k \in Nat : w[k + 1] = WalkStep(sub, ps, goOn, embedBool, k + 1, w[k])
  BY <1>2
<1> QED
  BY <1>3 DEF w

\* What was added to the arguments stays in front of what is added later.
Extends(args, more) == Len(args) <= Len(more) /\ \A i \in 1 .. Len(args) : more[i] = args[i]

\* Arguments that are only added to stay in front.
LEMMA ExtendsOn ==
  ASSUME NEW a \in Seq(ValueExprs), NEW b \in Seq(ValueExprs), NEW c \in Seq(ValueExprs),
         Extends(a, b), Extends(b, c)
  PROVE  Extends(a, c)
BY DEF Extends

\* Adding no argument.
LEMMA ExtendsItself ==
  ASSUME NEW a \in Seq(ValueExprs)
  PROVE  Extends(a, a)
BY DEF Extends

\* The text out means what p means, with the arguments args or with more.
Means(n, p, out, args) ==
  \A row \in Rows :
    /\ Meanings[n][p][row][<<>>] \in Scalars
    /\ \A more \in Seq(ValueExprs) :
         Extends(args, more) => Meanings[n][out][row][more] = Meanings[n][p][row][<<>>]

\* The placeholders of out are those from the first to before the last, in their order.
Spans(n, out, first, last) ==
  Placements[n][out].marks = first .. (last - 1) /\ Placements[n][out].grow

\* What a formatter makes of p.
Kept(n, p, args, r) ==
  /\ r.args \in Seq(ValueExprs) /\ Extends(args, r.args)
  /\ Ok(r) => r.out \in Nested[n] /\ Means(n, p, r.out, r.args) /\ Spans(n, r.out, Len(args), Len(r.args))

Faithful(kind, n) ==
  \A p \in Nested[n], embedBool \in BOOLEAN, args \in Seq(ValueExprs) :
    LET of(a) == Builder(kind)[n][p][FALSE][embedBool][a]
    IN Kept(n, p, args, of(args)) /\ (Ok(of(args)) <=> Ok(of(<<>>)))

\* What a text means does not change when arguments are added behind its own.
LEMMA MeansMore ==
  ASSUME NEW n \in Nat, NEW p, NEW out, NEW a \in Seq(ValueExprs), NEW b \in Seq(ValueExprs),
         Means(n, p, out, a), Extends(a, b)
  PROVE  Means(n, p, out, b)
BY ExtendsOn DEF Means

\* The first k operands can be formatted.
Fit(sub, ps, embedBool, k) == \A i \in 1 .. k : Ok(sub[ps[i]][FALSE][embedBool][<<>>])

\* The walk after k operands.
Walked(n, sub, ps, goOn, embedBool, args, w, k) ==
  /\ w[k].args \in Seq(ValueExprs) /\ Extends(args, w[k].args)
  /\ \A j \in 0 .. k : w[j].args \in Seq(ValueExprs) /\ Len(w[j].args) <= Len(w[k].args)
  /\ w[k].out \in Seq(Nested[n])
  /\ Fit(sub, ps, embedBool, k) =>
       /\ Ok(w[k]) /\ Len(w[k].out) = k
       /\ \A j \in 1 .. k : /\ Means(n, ps[j], w[k].out[j], w[k].args)
                            /\ Spans(n, w[k].out[j], Len(w[j - 1].args), Len(w[j].args))
  /\ \A j \in 1 .. Len(w[k].out) : \E i \in 1 .. k : Means(n, ps[i], w[k].out[j], w[k].args)
  /\ ~goOn => (Ok(w[k]) <=> Fit(sub, ps, embedBool, k))

\* The walk over the operands before the first of them.
LEMMA WalkStarts ==
  ASSUME NEW n \in Nat, NEW sub, NEW ps, NEW goOn, NEW embedBool, NEW args \in Seq(ValueExprs), NEW w,
         w[0] = Done(<<>>, args)
  PROVE  Walked(n, sub, ps, goOn, embedBool, args, w, 0)
<1>1. w[0].args = args /\ w[0].out = <<>> /\ w[0].err = NoError
  BY DEF Done
<1>2. Extends(args, args)
  BY ExtendsItself
<1>a. Len(args) \in Nat /\ Len(args) <= Len(args) /\ \A j \in 0 .. 0 : j = 0
  OBVIOUS
<1>b. \A j \in 0 .. 0 : w[j].args \in Seq(ValueExprs) /\ Len(w[j].args) <= Len(w[0].args)
  BY <1>1, <1>a
<1>c. \A S : <<>> \in Seq(S) /\ Len(<<>>) = 0
  OBVIOUS
<1>3. w[0].out \in Seq(Nested[n]) /\ Len(w[0].out) = 0
  BY <1>1, <1>c
<1>4. (\A j \in 1 .. 0 : FALSE) /\ Fit(sub, ps, embedBool, 0) /\ Ok(w[0])
  BY <1>1 DEF Fit, Ok
<1> QED
  BY <1>1, <1>2, <1>b, <1>3, <1>4 DEF Walked

\* One more operand: its text is added when it could be formatted, and the earlier ones keep their meaning.
LEMMA WalkGoesOn ==
  ASSUME NEW kind, NEW n \in Nat, Faithful(kind, n), NEW ps \in Seq(Nested[n]), NEW goOn \in BOOLEAN,
         NEW embedBool \in BOOLEAN, NEW args \in Seq(ValueExprs), NEW w, NEW k \in Nat, k < Len(ps),
         Walked(n, Builder(kind)[n], ps, goOn, embedBool, args, w, k),
         w[k + 1] = WalkStep(Builder(kind)[n], ps, goOn, embedBool, k + 1, w[k])
  PROVE  Walked(n, Builder(kind)[n], ps, goOn, embedBool, args, w, k + 1)
<1> DEFINE sub == Builder(kind)[n]
           acc == w[k]
           next == w[k + 1]
           p == ps[k + 1]
           r == sub[p][FALSE][embedBool][acc.args]
<1>1. p \in Nested[n] /\ k + 1 \in 1 .. Len(ps)
  OBVIOUS
<1>2. acc.args \in Seq(ValueExprs) /\ Extends(args, acc.args) /\ acc.out \in Seq(Nested[n])
  BY DEF Walked
<1>3. Kept(n, p, acc.args, r) /\ (Ok(r) <=> Ok(sub[p][FALSE][embedBool][<<>>]))
  BY <1>1, <1>2 DEF Faithful
<1>4. Fit(sub, ps, embedBool, k + 1) <=> Fit(sub, ps, embedBool, k) /\ Ok(r)
  <2>1. \A i \in 1 .. (k + 1) : i \in 1 .. k \/ i = k + 1
    OBVIOUS
  <2>2. 1 .. k \subseteq 1 .. (k + 1) /\ k + 1 \in 1 .. (k + 1)
    OBVIOUS
  <2> HIDE DEF sub, r
  <2> QED
    BY <1>3, <2>1, <2>2, Zenon DEF Fit, p
<1>5. next = IF ~Ok(acc) /\ ~goOn THEN acc
             ELSE [err |-> r.err, out |-> IF Ok(r) THEN Append(acc.out, r.out) ELSE acc.out, args |-> r.args]
  BY DEF WalkStep
<1>w. /\ \A j \in 0 .. k : w[j].args \in Seq(ValueExprs) /\ Len(w[j].args) <= Len(acc.args)
      /\ Fit(sub, ps, embedBool, k) =>
           /\ Ok(acc) /\ Len(acc.out) = k
           /\ \A j \in 1 .. k : /\ Means(n, ps[j], acc.out[j], acc.args)
                                /\ Spans(n, acc.out[j], Len(w[j - 1].args), Len(w[j].args))
      /\ \A j \in 1 .. Len(acc.out) : \E i \in 1 .. k : Means(n, ps[i], acc.out[j], acc.args)
      /\ ~goOn => (Ok(acc) <=> Fit(sub, ps, embedBool, k))
  BY DEF Walked
<1> HIDE DEF sub, r, p, acc, next
<1>6. CASE ~Ok(acc) /\ ~goOn
  <2>1. next = acc /\ ~Fit(sub, ps, embedBool, k) /\ ~Fit(sub, ps, embedBool, k + 1)
    BY <1>4, <1>5, <1>6, <1>w
  <2>2. \A j \in 0 .. (k + 1) : w[j].args \in Seq(ValueExprs) /\ Len(w[j].args) <= Len(acc.args)
    BY <1>2, <1>w, <2>1 DEF next
  <2>3. \A j \in 1 .. Len(acc.out) : \E i \in 1 .. (k + 1) : Means(n, ps[i], acc.out[j], acc.args)
    BY <1>w
  <2>4. ~goOn => (Ok(acc) <=> Fit(sub, ps, embedBool, k + 1))
    BY <1>6, <2>1
  <2> QED
    BY <1>2, <2>1, <2>2, <2>3, <2>4 DEF Walked, sub, next
<1>7. CASE Ok(acc) \/ goOn
  <2>1. /\ next.err = r.err /\ next.args = r.args
        /\ next.out = IF Ok(r) THEN Append(acc.out, r.out) ELSE acc.out
    BY <1>5, <1>7
  <2>2. /\ r.args \in Seq(ValueExprs) /\ Extends(acc.args, r.args)
        /\ Ok(r) => r.out \in Nested[n] /\ Means(n, p, r.out, r.args) /\ Spans(n, r.out, Len(acc.args), Len(r.args))
    BY <1>3 DEF Kept
  <2>3. Extends(args, r.args)
    BY <1>2, <2>2, ExtendsOn
  <2>4. Len(acc.args) <= Len(r.args)
    BY <2>2 DEF Extends
  <2>5. \A j \in 0 .. (k + 1) : w[j].args \in Seq(ValueExprs) /\ Len(w[j].args) <= Len(r.args)
    <3>1. \A j \in 0 .. k : w[j].args \in Seq(ValueExprs) /\ Len(w[j].args) <= Len(r.args)
      <4>1. \A a \in Seq(ValueExprs) : Len(a) \in Nat
        OBVIOUS
      <4>2. \A x, y, z \in Nat : x <= y /\ y <= z => x <= z
        OBVIOUS
      <4> QED
        BY <1>2, <1>w, <2>2, <2>4, <4>1, <4>2, Zenon
    <3>2. w[k + 1].args = r.args
      BY <2>1 DEF next
    <3>3. \A j \in 0 .. (k + 1) : j \in 0 .. k \/ j = k + 1
      OBVIOUS
    <3> QED
      BY <2>2, <3>1, <3>2, <3>3
  <2>6. next.out \in Seq(Nested[n])
    <3>1. CASE Ok(r)
      <4>1. \A s \in Seq(Nested[n]), x \in Nested[n] : Append(s, x) \in Seq(Nested[n])
        OBVIOUS
      <4> QED
        BY <1>2, <2>1, <2>2, <3>1, <4>1
    <3>2. CASE ~Ok(r)
      BY <1>2, <2>1, <3>2
    <3> QED
      BY <3>1, <3>2
  <2>7. \A i \in 1 .. k, j \in 1 .. Len(acc.out) :
          Means(n, ps[i], acc.out[j], acc.args) => Means(n, ps[i], acc.out[j], r.args)
    BY <1>2, <2>2, MeansMore
  <2>8. ASSUME Fit(sub, ps, embedBool, k + 1)
        PROVE  /\ Ok(next) /\ Len(next.out) = k + 1
               /\ \A j \in 1 .. (k + 1) : /\ Means(n, ps[j], next.out[j], r.args)
                                          /\ Spans(n, next.out[j], Len(w[j - 1].args), Len(w[j].args))
    <3>1. Ok(r) /\ Fit(sub, ps, embedBool, k)
      BY <1>4, <2>8
    <3>2. next.out = Append(acc.out, r.out) /\ Len(acc.out) = k /\ Ok(next)
      BY <1>w, <2>1, <3>1 DEF Ok
    <3>3. Len(next.out) = k + 1 /\ next.out[k + 1] = r.out /\ \A j \in 1 .. k : next.out[j] = acc.out[j]
      BY <1>2, <2>2, <3>1, <3>2
    <3>4. ASSUME NEW j \in 1 .. k
          PROVE  /\ Means(n, ps[j], next.out[j], r.args)
                 /\ Spans(n, next.out[j], Len(w[j - 1].args), Len(w[j].args))
      BY <1>w, <2>7, <3>1, <3>2, <3>3
    <3>5. /\ Means(n, ps[k + 1], next.out[k + 1], r.args)
          /\ Spans(n, next.out[k + 1], Len(w[k].args), Len(w[k + 1].args))
      BY <2>1, <2>2, <3>1, <3>3 DEF p, acc, next
    <3>6. \A j \in 1 .. (k + 1) : (j \in 1 .. k \/ j = k + 1)
      OBVIOUS
    <3>7. (k + 1) - 1 = k
      OBVIOUS
    <3> QED
      BY <3>2, <3>3, <3>4, <3>5, <3>6, <3>7
  <2>9. ASSUME NEW j \in 1 .. Len(next.out) PROVE \E i \in 1 .. (k + 1) : Means(n, ps[i], next.out[j], r.args)
    <3>1. CASE j \in 1 .. Len(acc.out)
      <4>1. next.out[j] = acc.out[j]
        BY <1>2, <2>1, <2>2, <3>1
      <4> QED
        BY <1>w, <2>7, <3>1, <4>1
    <3>2. CASE j \notin 1 .. Len(acc.out)
      <4>1. Ok(r) /\ next.out[j] = r.out
        BY <1>2, <2>1, <2>2, <2>9, <3>2
      <4> QED
        BY <2>2, <4>1 DEF p
    <3> QED
      BY <3>1, <3>2
  <2>10. ~goOn => (Ok(next) <=> Fit(sub, ps, embedBool, k + 1))
    BY <1>4, <1>7, <1>w, <2>1 DEF Ok
  <2> QED
    BY <2>1, <2>2, <2>3, <2>5, <2>6, <2>8, <2>9, <2>10 DEF Walked, sub, next
<1> QED
  BY <1>6, <1>7

\* The walk over all the operands.
LEMMA OperandsAreKept ==
  ASSUME NEW kind, NEW n \in Nat, Faithful(kind, n), NEW ps \in Seq(Nested[n]), NEW goOn \in BOOLEAN,
         NEW embedBool \in BOOLEAN, NEW args \in Seq(ValueExprs)
  PROVE  LET sub == Builder(kind)[n]
             w == Walk(sub, ps, goOn, embedBool, args)
         IN /\ \A k \in 0 .. Len(ps) : Walked(n, sub, ps, goOn, embedBool, args, w, k)
            /\ w[0].args = args
<1> DEFINE sub == Builder(kind)[n]
           w == Walk(sub, ps, goOn, embedBool, args)
           S == {k \in Nat : k <= Len(ps) => Walked(n, sub, ps, goOn, embedBool, args, w, k)}
<1>1. w[0] = Done(<<>>, args) /\ \A k \in Nat : w[k + 1] = WalkStep(sub, ps, goOn, embedBool, k + 1, w[k])
  BY WalkSteps
<1> HIDE DEF w
<1>2. 0 \in S
  BY <1>1, WalkStarts
<1>3. ASSUME NEW k \in Nat, k \in S PROVE k + 1 \in S
  <2> SUFFICES ASSUME k + 1 <= Len(ps) PROVE Walked(n, sub, ps, goOn, embedBool, args, w, k + 1)
    OBVIOUS
  <2>1. k < Len(ps) /\ k <= Len(ps)
    OBVIOUS
  <2>2. Walked(n, sub, ps, goOn, embedBool, args, w, k)
    BY <1>3, <2>1
  <2> QED
    BY <1>1, <2>1, <2>2, WalkGoesOn
<1>4. Nat \subseteq S
  <2> HIDE DEF S
  <2> QED
    BY <1>2, <1>3, SetInduction
<1>6. \A k \in 0 .. Len(ps) : Walked(n, sub, ps, goOn, embedBool, args, w, k)
  <2>1. \A k \in 0 .. Len(ps) : k \in Nat /\ k <= Len(ps)
    OBVIOUS
  <2> QED
    BY <1>4, <2>1
<1>5. w[0].args = args
  BY <1>1 DEF Done
<1> QED
  BY <1>6, <1>5 DEF w

\* A predicate without parts is there at every depth.
LEMMA SimpleNested ==
  \A n \in Nat : Simple \subseteq Nested[n]
<1> DEFINE S == {n \in Nat : Simple \subseteq Nested[n]}
<1>1. 0 \in S
  BY NestedSteps
<1>2. ASSUME NEW n \in Nat, n \in S PROVE n + 1 \in S
  BY <1>2, NestedGrows
<1> HIDE DEF S
<1>3. Nat \subseteq S
  BY <1>1, <1>2, SetInduction
<1> QED
  BY <1>3 DEF S

\* A comparison of scalars is true, false or unknown.
LEMMA ComparesKnown ==
  ASSUME NEW op \in Operations, NEW x \in Scalars, NEW y \in Scalars
  PROVE  Compare(op, x, y) \in Scalars
<1>1. \A b \in BOOLEAN : Truth(b) \in Scalars
  BY DEF Truth, Scalars
<1>2. op # "ID" /\ NullValue \in Scalars
  BY DEF Operations, Scalars
<1>3. CASE x = NullValue \/ y = NullValue
  BY <1>2, <1>3 DEF Compare
<1>4. CASE ~(x = NullValue \/ y = NullValue)
  <2>1. x \in Int /\ y \in Int
    BY DEF Scalars, NullValue
  <2>2. /\ Truth(x < y) \in Scalars /\ Truth(x <= y) \in Scalars /\ Truth(x = y) \in Scalars
        /\ Truth(x # y) \in Scalars /\ Truth(x >= y) \in Scalars /\ Truth(x > y) \in Scalars
    BY DEF Truth, Scalars
  <2> HIDE DEF Truth, Scalars
  <2> QED
    BY <1>2, <1>4, <2>2 DEF Compare, Operations
<1> QED
  BY <1>3, <1>4

\* formatExpression: a constant becomes a placeholder for the argument that is added, or stays what it is.
LEMMA ExpressionIsKept ==
  ASSUME NEW kind, NEW e \in Expressions, NEW embedBool \in BOOLEAN, NEW args \in Seq(ValueExprs),
         NEW r, r = formatExpression(kind, e, embedBool, args)
  PROVE  /\ r.args \in Seq(ValueExprs) /\ Extends(args, r.args)
         /\ Ok(r) => /\ r.out \in Expressions
                     /\ \A row \in Rows :
                          /\ ValueOf(e, row, <<>>) \in Scalars
                          /\ \A more \in Seq(ValueExprs) :
                               Extends(r.args, more) => ValueOf(r.out, row, more) = ValueOf(e, row, <<>>)
                     /\ Marks(r.out) = Len(args) .. (Len(r.args) - 1)
         /\ Ok(r) <=> Ok(formatExpression(kind, e, embedBool, <<>>))
<1>e. NoError # "unsupported expression" /\ NoError # "unimplemented typed value"
  BY Zenon DEF NoError
<1>1. CASE ~SupportsPushdownExpression(kind, e)
  <2>1. \A a : formatExpression(kind, e, embedBool, a) = FailedWith("unsupported expression", a)
    BY <1>1, Zenon DEF formatExpression
  <2>2. \A a : FailedWith("unsupported expression", a).args = a /\ ~Ok(FailedWith("unsupported expression", a))
    BY <1>e, Zenon DEF FailedWith, Ok
  <2> QED
    BY <2>1, <2>2, ExtendsItself, Zenon
<1>2. CASE SupportsPushdownExpression(kind, e) /\ e.tag # "value"
  <2>1. \A a : formatExpression(kind, e, embedBool, a) = Done(e, a)
    BY <1>2 DEF formatExpression
  <2>2. \A a : Done(e, a).args = a /\ Done(e, a).out = e /\ Ok(Done(e, a))
    BY DEF Done, Ok
  <2>3. e.tag \in {"column", "null"} /\ (e.tag = "column" => e.name \in ColumnNames)
    BY <1>2 DEF SupportsPushdownExpression, Expressions, ColumnExprs, ValueExprs
  <2>4. \A row \in Rows : \A a : ValueOf(e, row, a) = IF e.tag = "column" THEN row[e.name] ELSE NullValue
    BY <2>3 DEF ValueOf
  <2>5. \A row \in Rows : ValueOf(e, row, <<>>) \in Scalars
    BY <2>3, <2>4 DEF Rows, Scalars
  <2>6. Marks(e) = {} /\ Len(args) .. (Len(args) - 1) = {}
    BY <2>3 DEF Marks
  <2>7. Extends(args, args)
    BY ExtendsItself
  <2> QED
    BY <2>1, <2>2, <2>4, <2>5, <2>6, <2>7, Zenon
<1>3. CASE SupportsPushdownExpression(kind, e) /\ e.tag = "value"
  <2>1. \A a : formatExpression(kind, e, embedBool, a) = formatValue(e, embedBool, a)
    BY <1>3 DEF formatExpression
  <2>2. e \in ValueExprs /\ e.v \in Scalars
    BY <1>3 DEF Expressions, ColumnExprs, ValueExprs
  <2>3. \A row \in Rows : ValueOf(e, row, <<>>) = e.v /\ \A more : ValueOf(e, row, more) = e.v
    BY <1>3 DEF ValueOf
  <2> DEFINE bad == e.v = NullValue /\ ~(e.optional /\ e.type \in TypedNulls)
             embedded == embedBool /\ ~e.optional /\ e.type = "BOOL"
  <2>4. \A a : formatValue(e, embedBool, a) =
          IF bad THEN FailedWith("unimplemented typed value", a)
          ELSE IF embedded THEN Done(e, a) ELSE Done(Placeholder(Len(a)), Append(a, e))
    BY Zenon DEF formatValue
  <2> HIDE DEF bad, embedded
  <2>5. CASE bad
    <3>1. \A a : FailedWith("unimplemented typed value", a).args = a /\ ~Ok(FailedWith("unimplemented typed value", a))
      BY <1>e, Zenon DEF FailedWith, Ok
    <3> QED
      BY <2>1, <2>4, <2>5, <3>1, ExtendsItself, Zenon
  <2>6. CASE ~bad /\ embedded
    <3>1. \A a : Done(e, a).args = a /\ Done(e, a).out = e /\ Ok(Done(e, a))
      BY DEF Done, Ok
    <3>2. Marks(e) = {} /\ Len(args) .. (Len(args) - 1) = {}
      BY <1>3 DEF Marks
    <3>3. Extends(args, args)
      BY ExtendsItself
    <3> QED
      BY <2>1, <2>2, <2>3, <2>4, <2>6, <3>1, <3>2, <3>3, Zenon
  <2>7. CASE ~bad /\ ~embedded
    <3> DEFINE out == Placeholder(Len(args))
               added == Append(args, e)
    <3>1. r = Done(out, added) /\ Ok(formatExpression(kind, e, embedBool, <<>>))
      <4>1. \A q, a : Ok(Done(q, a))
        BY DEF Done, Ok
      <4> QED
        BY <2>1, <2>4, <2>7, <4>1, Zenon
    <3>2. added \in Seq(ValueExprs) /\ Len(added) = Len(args) + 1 /\ added[Len(args) + 1] = e /\ Extends(args, added)
      BY <2>2 DEF Extends
    <3>3. out.tag = "placeholder" /\ out.n = Len(args) /\ out \in Expressions /\ Len(args) \in Nat
      BY DEF Placeholder, Expressions
    <3> HIDE DEF out, added
    <3>4. r.out = out /\ r.args = added /\ Ok(r)
      BY <3>1 DEF Done, Ok
    <3>5. ASSUME NEW more \in Seq(ValueExprs), Extends(added, more) PROVE more[Len(args) + 1] = e
      BY <3>2, <3>3, <3>5 DEF Extends
    <3>6. \A row \in Rows, more \in Seq(ValueExprs) : ValueOf(out, row, more) = more[Len(args) + 1].v
      BY <3>3 DEF ValueOf
    <3>7. Marks(out) = {Len(args)} /\ {Len(args)} = Len(args) .. (Len(added) - 1)
      BY <3>2, <3>3 DEF Marks
    <3> QED
      BY <2>2, <2>3, <3>1, <3>2, <3>3, <3>4, <3>5, <3>6, <3>7, Zenon
  <2> QED
    BY <2>5, <2>6, <2>7
<1> QED
  BY <1>1, <1>2, <1>3

\* The numbers from a to before b, and on to before c.
LEMMA SpansJoin ==
  ASSUME NEW a \in Nat, NEW b \in Nat, NEW c \in Nat, a <= b, b <= c,
         NEW left, NEW right, left = a .. (b - 1), right = b .. (c - 1)
  PROVE  left \cup right = a .. (c - 1) /\ Below(left, right)
BY DEF Below

\* formatComparison keeps the meaning, and its placeholders follow the arguments.
LEMMA ComparisonIsKept ==
  ASSUME NEW kind, NEW n \in Nat, NEW p \in Nested[n], p.tag = "comparison", NEW embedBool \in BOOLEAN,
         NEW args \in Seq(ValueExprs)
  PROVE  LET of(a) == formatComparison(kind, p, embedBool, a)
         IN Kept(n, p, args, of(args)) /\ (Ok(of(args)) <=> Ok(of(<<>>)))
<1> DEFINE left(a) == formatExpression(kind, p.l, embedBool, a)
           right(a) == formatExpression(kind, p.r, embedBool, left(a).args)
           of(a) == formatComparison(kind, p, embedBool, a)
           l == left(args)
           r == right(args)
<1>1. \A a : of(a) = IF p.op \notin Operations THEN FailedWith("unimplemented operation", a)
                     ELSE IF ~Ok(left(a)) THEN left(a)
                     ELSE IF ~Ok(right(a)) THEN right(a)
                     ELSE Done(Comparison(p.op, left(a).out, right(a).out), right(a).args)
  BY Zenon DEF formatComparison
<1>2. p.l \in Expressions /\ p.r \in Expressions
  BY PartsBelow
<1>3. <<>> \in Seq(ValueExprs)
  OBVIOUS
<1>4. \A a \in Seq(ValueExprs) : /\ left(a).args \in Seq(ValueExprs) /\ Extends(a, left(a).args)
                                 /\ Ok(left(a)) <=> Ok(left(<<>>))
  BY <1>2, ExpressionIsKept
<1>5. \A a \in Seq(ValueExprs) : /\ right(a).args \in Seq(ValueExprs) /\ Extends(left(a).args, right(a).args)
                                 /\ Ok(right(a)) <=> Ok(formatExpression(kind, p.r, embedBool, <<>>))
  <2>1. \A b \in Seq(ValueExprs) :
          LET x == formatExpression(kind, p.r, embedBool, b)
          IN /\ x.args \in Seq(ValueExprs) /\ Extends(b, x.args)
             /\ Ok(x) <=> Ok(formatExpression(kind, p.r, embedBool, <<>>))
    BY <1>2, ExpressionIsKept
  <2> HIDE DEF left
  <2> QED
    BY <1>4, <2>1, Zenon
<1>6. \A a \in Seq(ValueExprs) : Extends(a, a) /\ Extends(a, right(a).args)
  BY <1>4, <1>5, ExtendsOn, ExtendsItself
<1>7. \A a : ~Ok(FailedWith("unimplemented operation", a)) /\ FailedWith("unimplemented operation", a).args = a
  BY Zenon DEF FailedWith, Ok, NoError
<1>8. Ok(l) => /\ l.out \in Expressions
               /\ \A row \in Rows :
                    /\ ValueOf(p.l, row, <<>>) \in Scalars
                    /\ \A more \in Seq(ValueExprs) :
                         Extends(l.args, more) => ValueOf(l.out, row, more) = ValueOf(p.l, row, <<>>)
               /\ Marks(l.out) = Len(args) .. (Len(l.args) - 1)
  BY <1>2, ExpressionIsKept
<1>9. Ok(r) => /\ r.out \in Expressions
               /\ \A row \in Rows :
                    /\ ValueOf(p.r, row, <<>>) \in Scalars
                    /\ \A more \in Seq(ValueExprs) :
                         Extends(r.args, more) => ValueOf(r.out, row, more) = ValueOf(p.r, row, <<>>)
               /\ Marks(r.out) = Len(l.args) .. (Len(r.args) - 1)
  BY <1>2, <1>4, ExpressionIsKept
<1>10. \A q, a : Done(q, a).args = a /\ Done(q, a).out = q /\ Ok(Done(q, a))
  BY DEF Done, Ok
<1> HIDE DEF left, right, of
<1>11. \A a \in Seq(ValueExprs) :
         Ok(of(a)) <=> p.op \in Operations /\ Ok(left(a)) /\ Ok(right(a))
  BY <1>1, <1>7, <1>10, Zenon
<1>12. Ok(of(args)) <=> Ok(of(<<>>))
  BY <1>3, <1>4, <1>5, <1>11, Zenon
<1>13. of(args).args \in Seq(ValueExprs) /\ Extends(args, of(args).args)
  <2>1. CASE p.op \notin Operations
    BY <1>1, <1>6, <1>7, <2>1, Zenon
  <2>2. CASE p.op \in Operations /\ ~Ok(left(args))
    BY <1>1, <1>4, <2>2, Zenon
  <2>3. CASE p.op \in Operations /\ Ok(left(args))
    <3>1. of(args).args = right(args).args
      BY <1>1, <1>10, <2>3, Zenon
    <3> QED
      BY <1>5, <1>6, <3>1, Zenon
  <2> QED
    BY <2>1, <2>2, <2>3
<1>14. ASSUME Ok(of(args))
       PROVE  LET out == of(args).out
                  all == of(args).args
              IN out \in Nested[n] /\ Means(n, p, out, all) /\ Spans(n, out, Len(args), Len(all))
  <2> DEFINE out == Comparison(p.op, l.out, r.out)
  <2>1. p.op \in Operations /\ Ok(l) /\ Ok(r) /\ of(args) = Done(out, r.args)
    BY <1>1, <1>11, <1>14, Zenon
  <2>2. of(args).out = out /\ of(args).args = r.args
    BY <1>10, <2>1
  <2>3. out.tag = "comparison" /\ out.op = p.op /\ out.l = l.out /\ out.r = r.out
    BY DEF Comparison
  <2>4. out \in Simple
    BY <1>8, <1>9, <2>1 DEF Simple, Comparison
  <2>5. out \in Nested[n]
    BY <2>4, SimpleNested
  <2> HIDE DEF out, l, r
  <2>6. Means(n, p, out, r.args)
    <3> SUFFICES ASSUME NEW row \in Rows
                 PROVE  /\ Meanings[n][p][row][<<>>] \in Scalars
                        /\ \A more \in Seq(ValueExprs) :
                             Extends(r.args, more) => Meanings[n][out][row][more] = Meanings[n][p][row][<<>>]
      BY DEF Means
    <3>1. Meanings[n][p][row][<<>>] = Compare(p.op, ValueOf(p.l, row, <<>>), ValueOf(p.r, row, <<>>))
      <4>1. Meanings[n][p][row][<<>>] = Meaning(MeaningsBelow(n), p, row, <<>>)
        BY <1>3, MeaningSteps
      <4> QED
        BY <4>1, MeaningSimple DEF SimpleTags
    <3>2. Meanings[n][p][row][<<>>] \in Scalars
      BY <1>8, <1>9, <2>1, <3>1, ComparesKnown
    <3>3. ASSUME NEW more \in Seq(ValueExprs), Extends(r.args, more)
          PROVE  Meanings[n][out][row][more] = Meanings[n][p][row][<<>>]
      <4>1. Meanings[n][out][row][more] = Meaning(MeaningsBelow(n), out, row, more)
        BY <2>5, MeaningSteps
      <4>2. Meanings[n][out][row][more] = Compare(p.op, ValueOf(l.out, row, more), ValueOf(r.out, row, more))
        BY <2>3, <4>1, MeaningSimple DEF SimpleTags
      <4>3. Extends(l.args, more)
        BY <1>4, <1>5, <3>3, ExtendsOn DEF l, r
      <4> QED
        BY <1>8, <1>9, <2>1, <3>1, <3>3, <4>2, <4>3
    <3> QED
      BY <3>2, <3>3
  <2>7. Spans(n, out, Len(args), Len(r.args))
    <3>1. Placements[n][out] = [marks |-> Marks(l.out) \cup Marks(r.out), grow |-> Below(Marks(l.out), Marks(r.out))]
      BY <2>3, <2>5, PlacementSteps DEF Placed
    <3>2. /\ Len(args) \in Nat /\ Len(l.args) \in Nat /\ Len(r.args) \in Nat
          /\ Len(args) <= Len(l.args) /\ Len(l.args) <= Len(r.args)
      BY <1>4, <1>5 DEF l, r, Extends
    <3>3. /\ Marks(l.out) \cup Marks(r.out) = Len(args) .. (Len(r.args) - 1)
          /\ Below(Marks(l.out), Marks(r.out))
      <4>1. Marks(l.out) = Len(args) .. (Len(l.args) - 1) /\ Marks(r.out) = Len(l.args) .. (Len(r.args) - 1)
        BY <1>8, <1>9, <2>1
      <4> QED
        BY <3>2, <4>1, SpansJoin
    <3> QED
      BY <3>1, <3>3 DEF Spans
  <2> QED
    BY <2>2, <2>5, <2>6, <2>7
<1> QED
  BY <1>12, <1>13, <1>14 DEF Kept, of

\* formatUnary, for IS NULL, IS NOT NULL and a boolean expression, does the same.
LEMMA UnaryIsKept ==
  ASSUME NEW kind, NEW n \in Nat, NEW p \in Nested[n], p.tag \in {"is_null", "is_not_null", "bool"},
         NEW embedBool \in BOOLEAN, NEW args \in Seq(ValueExprs)
  PROVE  LET of(a) == formatUnary(kind, p, embedBool, a)
         IN Kept(n, p, args, of(args)) /\ (Ok(of(args)) <=> Ok(of(<<>>)))
<1> DEFINE ex(a) == formatExpression(kind, p.e, embedBool, a)
           of(a) == formatUnary(kind, p, embedBool, a)
           out(a) == [p EXCEPT !.e = ex(a).out]
<1>1. \A a : of(a) = IF Ok(ex(a)) THEN Done(out(a), ex(a).args) ELSE ex(a)
  BY Zenon DEF formatUnary
<1>2. p.e \in Expressions
  BY PartsBelow
<1>3. <<>> \in Seq(ValueExprs)
  OBVIOUS
<1>4. /\ ex(args).args \in Seq(ValueExprs) /\ Extends(args, ex(args).args)
      /\ Ok(ex(args)) <=> Ok(ex(<<>>))
      /\ Ok(ex(args)) => 
           /\ ex(args).out \in Expressions
           /\ \A row \in Rows :
                /\ ValueOf(p.e, row, <<>>) \in Scalars
                /\ \A more \in Seq(ValueExprs) :
                     Extends(ex(args).args, more) => ValueOf(ex(args).out, row, more) = ValueOf(p.e, row, <<>>)
           /\ Marks(ex(args).out) = Len(args) .. (Len(ex(args).args) - 1)
  BY <1>2, ExpressionIsKept
<1>5. \A q, a : Done(q, a).args = a /\ Done(q, a).out = q /\ Ok(Done(q, a))
  BY DEF Done, Ok
<1> HIDE DEF ex, of, out
<1>6. \A a : Ok(of(a)) <=> Ok(ex(a))
  BY <1>1, <1>5, Zenon
<1>7. of(args).args = ex(args).args
  BY <1>1, <1>5, Zenon
<1>8. ASSUME Ok(of(args))
      PROVE  LET q == of(args).out
                 all == of(args).args
             IN q \in Nested[n] /\ Means(n, p, q, all) /\ Spans(n, q, Len(args), Len(all))
  <2> DEFINE q == out(args)
             x == ex(args)
  <2>1. Ok(x) /\ of(args).out = q
    BY <1>1, <1>5, <1>6, <1>8, Zenon
  <2>2. p \in [tag : {"is_null", "is_not_null", "bool"}, e : Expressions]
    <3>1. CASE n = 0
      BY <3>1, NestedSteps DEF Simple
    <3>2. CASE n # 0
      <4>1. n - 1 \in Nat /\ n = (n - 1) + 1
        BY <3>2
      <4>2. p \in Over(Nested[n - 1])
        BY <4>1, NestedSteps
      <4> QED
        BY <4>2 DEF Over, Simple
    <3> QED
      BY <3>1, <3>2
  <2>3. q \in [tag : {"is_null", "is_not_null", "bool"}, e : Expressions] /\ q.tag = p.tag /\ q.e = x.out
    BY <1>4, <2>1, <2>2 DEF out
  <2>4. q \in Nested[n]
    BY <2>3, SimpleNested DEF Simple
  <2> HIDE DEF q, x
  <2>5. Means(n, p, q, x.args)
    <3> SUFFICES ASSUME NEW row \in Rows
                 PROVE  /\ Meanings[n][p][row][<<>>] \in Scalars
                        /\ \A more \in Seq(ValueExprs) :
                             Extends(x.args, more) => Meanings[n][q][row][more] = Meanings[n][p][row][<<>>]
      BY DEF Means
    <3> DEFINE tested(v) == IF p.tag = "is_null" THEN Truth(v = NullValue)
                            ELSE IF p.tag = "is_not_null" THEN Truth(v # NullValue) ELSE v
    <3>1. Meanings[n][p][row][<<>>] = tested(ValueOf(p.e, row, <<>>))
      <4>1. Meanings[n][p][row][<<>>] = Meaning(MeaningsBelow(n), p, row, <<>>)
        BY <1>3, MeaningSteps
      <4> QED
        BY <4>1, MeaningSimple DEF SimpleTags
    <3>2. Meanings[n][p][row][<<>>] \in Scalars
      BY <1>4, <2>1, <3>1 DEF Truth, Scalars, x
    <3>3. ASSUME NEW more \in Seq(ValueExprs), Extends(x.args, more)
          PROVE  Meanings[n][q][row][more] = Meanings[n][p][row][<<>>]
      <4>1. Meanings[n][q][row][more] = Meaning(MeaningsBelow(n), q, row, more)
        BY <2>4, MeaningSteps
      <4>2. Meanings[n][q][row][more] = tested(ValueOf(x.out, row, more))
        BY <2>3, <4>1, MeaningSimple DEF SimpleTags
      <4> QED
        BY <1>4, <2>1, <3>1, <3>3, <4>2 DEF x
    <3> QED
      BY <3>2, <3>3
  <2>6. Spans(n, q, Len(args), Len(x.args))
    <3>1. Placements[n][q] = [marks |-> Marks(x.out), grow |-> TRUE]
      BY <2>3, <2>4, PlacementSteps DEF Placed
    <3> QED
      BY <1>4, <2>1, <3>1 DEF Spans, x
  <2> QED
    BY <1>7, <2>1, <2>4, <2>5, <2>6 DEF x
<1>9. Kept(n, p, args, of(args))
  BY <1>4, <1>7, <1>8 DEF Kept
<1> QED
  BY <1>4, <1>6, <1>9 DEF of, ex
-----------------------------------------------------------------------------
\* AND, OR and COALESCE of scalars are scalars, and AND and OR of one operand are that operand.
LEMMA CombinesKnown ==
  ASSUME NEW tag \in OperandTags, NEW ts \in Seq(Scalars)
  PROVE  /\ Combined(tag, ts) \in Scalars
         /\ tag # "coalesce" /\ Len(ts) = 1 => Combined(tag, ts) = ts[1]
<1> DEFINE all == {ts[i] : i \in DOMAIN ts}
           nots == {Not(t) : t \in all}
<1>1. \A x : And(x) \in Scalars
  BY DEF And, Scalars
<1>2. \A x \in Scalars : Not(x) \in Scalars
  BY DEF Not, Scalars, NullValue
<1>3. \A x : Or(x) \in Scalars
  BY <1>1, <1>2, Zenon DEF Or
<1>4. tag = "conjunction" => Combined(tag, ts) = And(all)
  BY DEF Combined
<1>5. tag = "disjunction" => Combined(tag, ts) = Or(all)
  BY DEF Combined
<1>6. tag = "coalesce" => Combined(tag, ts) = Coalesced(ts)
  BY DEF Combined
<1>7. Coalesced(ts) \in Scalars
  <2> DEFINE known == {i \in DOMAIN ts : ts[i] # NullValue}
             first == CHOOSE i \in known : \A j \in known : i <= j
  <2>1. Coalesced(ts) = IF known = {} THEN NullValue ELSE ts[first]
    BY Zenon DEF Coalesced
  <2>2. CASE known = {}
    BY <2>1, <2>2 DEF Scalars
  <2>3. CASE known # {}
    <3>1. known \subseteq Nat
      OBVIOUS
    <3>2. \E i \in known : \A j \in known : i <= j
      BY <2>3, <3>1, LeastOf
    <3>3. first \in known
      BY <3>2, Zenon
    <3> QED
      BY <2>1, <2>3, <3>3
  <2> QED
    BY <2>2, <2>3
<1>8. ASSUME Len(ts) = 1 PROVE And(all) = ts[1] /\ Or(all) = ts[1]
  <2>1. all = {ts[1]} /\ ts[1] \in Scalars
    BY <1>8
  <2>2. And({ts[1]}) = ts[1]
    BY <2>1 DEF And, Scalars, NullValue
  <2>3. nots = {Not(ts[1])}
    BY <2>1
  <2>4. Not(And({Not(ts[1])})) = ts[1]
    BY <2>1 DEF And, Not, Scalars, NullValue
  <2> QED
    BY <2>1, <2>2, <2>3, <2>4 DEF Or
<1> HIDE DEF all
<1> QED
  BY <1>1, <1>3, <1>4, <1>5, <1>6, <1>7, <1>8 DEF OperandTags

\* Spans that follow each other make one span.
LEMMA SpansInRow ==
  ASSUME NEW c, NEW k \in Nat, \A j \in 0 .. k : c[j] \in Nat, \A j \in 1 .. k : c[j - 1] <= c[j]
  PROVE  /\ UNION {c[j - 1] .. (c[j] - 1) : j \in 1 .. k} = c[0] .. (c[k] - 1)
         /\ \A j \in 0 .. k : c[0] <= c[j] /\ c[j] <= c[k]
<1> DEFINE S == {m \in Nat : m <= k =>
                   /\ UNION {c[j - 1] .. (c[j] - 1) : j \in 1 .. m} = c[0] .. (c[m] - 1)
                   /\ \A j \in 0 .. m : c[0] <= c[j] /\ c[j] <= c[m]}
<1>1. 0 \in S
  <2>1. c[0] \in Nat /\ 1 .. 0 = {} /\ 0 .. 0 = {0}
    OBVIOUS
  <2>2. c[0] .. (c[0] - 1) = {} /\ c[0] <= c[0]
    BY <2>1
  <2> QED
    BY <2>1, <2>2
<1>2. ASSUME NEW m \in Nat, m \in S PROVE m + 1 \in S
  <2> SUFFICES ASSUME m + 1 <= k
               PROVE  /\ UNION {c[j - 1] .. (c[j] - 1) : j \in 1 .. (m + 1)} = c[0] .. (c[m + 1] - 1)
                      /\ \A j \in 0 .. (m + 1) : c[0] <= c[j] /\ c[j] <= c[m + 1]
    OBVIOUS
  <2>1. m <= k /\ m \in 0 .. k /\ 0 \in 0 .. k /\ m + 1 \in 0 .. k /\ m + 1 \in 1 .. k /\ (m + 1) - 1 = m
    OBVIOUS
  <2>2. /\ UNION {c[j - 1] .. (c[j] - 1) : j \in 1 .. m} = c[0] .. (c[m] - 1)
        /\ \A j \in 0 .. m : c[0] <= c[j] /\ c[j] <= c[m]
    BY <1>2, <2>1
  <2>3. c[0] \in Nat /\ c[m] \in Nat /\ c[m + 1] \in Nat /\ c[m] <= c[m + 1] /\ c[0] <= c[m]
    BY <2>1, <2>2
  <2>4. UNION {c[j - 1] .. (c[j] - 1) : j \in 1 .. (m + 1)} =
          (UNION {c[j - 1] .. (c[j] - 1) : j \in 1 .. m}) \cup (c[m] .. (c[m + 1] - 1))
    <3> DEFINE piece(j) == c[j - 1] .. (c[j] - 1)
    <3>1. piece(m + 1) = c[m] .. (c[m + 1] - 1)
      BY <2>1
    <3>2. 1 .. (m + 1) = (1 .. m) \cup {m + 1}
      OBVIOUS
    <3> HIDE DEF piece
    <3>3. UNION {piece(j) : j \in 1 .. (m + 1)} = (UNION {piece(j) : j \in 1 .. m}) \cup piece(m + 1)
      BY <3>2, Zenon
    <3> QED
      BY <3>1, <3>3, Zenon DEF piece
  <2>5. (c[0] .. (c[m] - 1)) \cup (c[m] .. (c[m + 1] - 1)) = c[0] .. (c[m + 1] - 1)
    BY <2>3
  <2>6. \A j \in 0 .. (m + 1) : c[0] <= c[j] /\ c[j] <= c[m + 1]
    <3> TAKE j \in 0 .. (m + 1)
    <3>1. CASE j = m + 1
      BY <2>3, <3>1
    <3>2. CASE j # m + 1
      <4>1. j \in 0 .. m /\ j \in 0 .. k
        BY <3>2
      <4>2. c[j] \in Nat /\ c[0] <= c[j] /\ c[j] <= c[m]
        BY <2>2, <4>1
      <4> QED
        BY <2>3, <4>2
    <3> QED
      BY <3>1, <3>2
  <2> QED
    BY <2>2, <2>4, <2>5, <2>6
<1> HIDE DEF S
<1>3. k \in S
  BY <1>1, <1>2, SetInduction
<1> QED
  BY <1>3 DEF S

\* The only member of a sequence.
LEMMA FirstOf ==
  ASSUME NEW S, NEW s \in Seq(S), Len(s) = 1
  PROVE  s[1] \in S
OBVIOUS

\* A function on 1 .. k is a sequence.
LEMMA SeqOf ==
  ASSUME NEW S, NEW k \in Nat, NEW f \in [1 .. k -> S]
  PROVE  f \in Seq(S) /\ Len(f) = k
OBVIOUS

\* The operands of a predicate, joined again once each is formatted, mean what the predicate means.
LEMMA JoinedMeans ==
  ASSUME NEW n \in Nat, NEW p \in Nested[n + 1], p.tag \in OperandTags, NEW outs \in Seq(Nested[n]),
         NEW args \in Seq(ValueExprs), Len(outs) = Len(p.ps),
         \A j \in 1 .. Len(outs) : Means(n, p.ps[j], outs[j], args),
         NEW q \in Nested[n + 1], q.tag = p.tag, q.ps = outs
  PROVE  /\ Means(n + 1, p, q, args)
         /\ p.tag # "coalesce" /\ Len(outs) = 1 => Means(n + 1, p, outs[1], args)
<1>1. n + 1 \in Nat /\ n + 1 # 0 /\ (n + 1) - 1 = n
  OBVIOUS
<1>2. p.ps \in Seq(Nested[n])
  BY <1>1, PartsBelow DEF OperandTags
<1>3. <<>> \in Seq(ValueExprs)
  OBVIOUS
<1>4. MeaningsBelow(n + 1) = Meanings[n]
  BY <1>1 DEF MeaningsBelow
<1> DEFINE ts(row) == Operands(Meanings[n], p, row, <<>>)
<1>5. ASSUME NEW row \in Rows
      PROVE  /\ ts(row) \in Seq(Scalars) /\ Len(ts(row)) = Len(outs)
             /\ \A j \in 1 .. Len(outs) : ts(row)[j] = Meanings[n][p.ps[j]][row][<<>>]
  <2>1. DOMAIN p.ps = 1 .. Len(outs) /\ Len(outs) \in Nat
    BY <1>2
  <2>2. ts(row) = [i \in 1 .. Len(outs) |-> Meanings[n][p.ps[i]][row][<<>>]]
    BY <2>1 DEF Operands
  <2>3. \A i \in 1 .. Len(outs) : Meanings[n][p.ps[i]][row][<<>>] \in Scalars
    BY DEF Means
  <2> HIDE DEF ts
  <2>4. ts(row) \in [1 .. Len(outs) -> Scalars]
    BY <2>2, <2>3, Zenon
  <2>5. ts(row) \in Seq(Scalars) /\ Len(ts(row)) = Len(outs)
    BY <2>1, <2>4, SeqOf
  <2>6. \A j \in 1 .. Len(outs) : ts(row)[j] = Meanings[n][p.ps[j]][row][<<>>]
    BY <2>2, Zenon
  <2> QED
    BY <2>5, <2>6
<1>6. ASSUME NEW row \in Rows PROVE Meanings[n + 1][p][row][<<>>] = Combined(p.tag, ts(row))
  <2>1. Meanings[n + 1][p][row][<<>>] = Meaning(Meanings[n], p, row, <<>>)
    BY <1>1, <1>3, <1>4, MeaningSteps
  <2> QED
    BY <2>1, MeaningCombined
<1>7. ASSUME NEW row \in Rows PROVE Meanings[n + 1][p][row][<<>>] \in Scalars
  BY <1>5, <1>6, CombinesKnown
<1>8. ASSUME NEW row \in Rows, NEW more \in Seq(ValueExprs), Extends(args, more)
      PROVE  Meanings[n + 1][q][row][more] = Meanings[n + 1][p][row][<<>>]
  <2>1. Meanings[n + 1][q][row][more] = Meaning(Meanings[n], q, row, more)
    BY <1>1, <1>4, MeaningSteps
  <2>2. Meanings[n + 1][q][row][more] = Combined(p.tag, Operands(Meanings[n], q, row, more))
    BY <2>1, MeaningCombined
  <2>3. DOMAIN q.ps = 1 .. Len(outs) /\ DOMAIN p.ps = 1 .. Len(outs)
    BY <1>2
  <2>4. \A i \in 1 .. Len(outs) : Meanings[n][q.ps[i]][row][more] = Meanings[n][p.ps[i]][row][<<>>]
    BY <1>8 DEF Means
  <2>5. Operands(Meanings[n], q, row, more) = ts(row)
    BY <2>3, <2>4, Zenon DEF Operands
  <2> QED
    BY <1>6, <2>2, <2>5
<1>9. ASSUME p.tag # "coalesce", Len(outs) = 1, NEW row \in Rows, NEW more \in Seq(ValueExprs), Extends(args, more)
      PROVE  Meanings[n + 1][outs[1]][row][more] = Meanings[n + 1][p][row][<<>>]
  <2>1. outs[1] \in Nested[n] /\ 1 \in 1 .. Len(outs)
    BY <1>9, FirstOf
  <2>2. Meanings[n + 1][outs[1]][row][more] = Meanings[n][outs[1]][row][more]
    BY <2>1, MeaningStays
  <2>3. Meanings[n][outs[1]][row][more] = Meanings[n][p.ps[1]][row][<<>>]
    BY <1>9, <2>1 DEF Means
  <2>4. Combined(p.tag, ts(row)) = ts(row)[1] /\ ts(row)[1] = Meanings[n][p.ps[1]][row][<<>>]
    BY <1>5, <1>9, <2>1, CombinesKnown
  <2> QED
    BY <1>6, <2>2, <2>3, <2>4
<1> HIDE DEF ts
<1>10. Means(n + 1, p, q, args)
  BY <1>7, <1>8 DEF Means
<1>11. p.tag # "coalesce" /\ Len(outs) = 1 => Means(n + 1, p, outs[1], args)
  BY <1>7, <1>9 DEF Means
<1> QED
  BY <1>10, <1>11

\* The placeholders of the joined operands are those of the operands, in their order.
LEMMA JoinedSpans ==
  ASSUME NEW n \in Nat, NEW outs \in Seq(Nested[n]), NEW c, \A j \in 0 .. Len(outs) : c[j] \in Nat,
         \A j \in 1 .. Len(outs) : c[j - 1] <= c[j] /\ Spans(n, outs[j], c[j - 1], c[j]),
         NEW q \in Nested[n + 1], q.tag \in OperandTags, q.ps = outs
  PROVE  /\ Spans(n + 1, q, c[0], c[Len(outs)])
         /\ Len(outs) = 1 => Spans(n + 1, outs[1], c[0], c[Len(outs)])
<1> DEFINE k == Len(outs)
           sub == Placements[n]
<1>1. n + 1 \in Nat /\ n + 1 # 0 /\ (n + 1) - 1 = n /\ k \in Nat /\ DOMAIN outs = 1 .. k
  OBVIOUS
<1>2. Placements[n + 1][q] = Placed(sub, q)
  <2>1. PlacementsBelow(n + 1) = sub
    BY <1>1 DEF PlacementsBelow
  <2> QED
    BY <1>1, <2>1, PlacementSteps
<1> HIDE DEF k, sub
<1>3. Placements[n + 1][q] =
        [marks |-> UNION {sub[outs[i]].marks : i \in 1 .. k},
         grow |-> \A i \in 1 .. k : /\ sub[outs[i]].grow
                                    /\ \A j \in 1 .. (i - 1) : Below(sub[outs[j]].marks, sub[outs[i]].marks)]
  BY <1>1, <1>2 DEF Placed, OperandTags
<1>4. \A i \in 1 .. k : sub[outs[i]].marks = c[i - 1] .. (c[i] - 1) /\ sub[outs[i]].grow
  BY DEF Spans, sub, k
<1>5. \A m \in Nat : m <= k => /\ UNION {c[j - 1] .. (c[j] - 1) : j \in 1 .. m} = c[0] .. (c[m] - 1)
                               /\ \A j \in 0 .. m : c[0] <= c[j] /\ c[j] <= c[m]
  <2> SUFFICES ASSUME NEW m \in Nat, m <= k
               PROVE  /\ UNION {c[j - 1] .. (c[j] - 1) : j \in 1 .. m} = c[0] .. (c[m] - 1)
                      /\ \A j \in 0 .. m : c[0] <= c[j] /\ c[j] <= c[m]
    OBVIOUS
  <2>1. (\A j \in 0 .. m : c[j] \in Nat) /\ (\A j \in 1 .. m : c[j - 1] <= c[j])
    BY <1>1 DEF k
  <2> QED
    BY <2>1, SpansInRow
<1>6. UNION {sub[outs[i]].marks : i \in 1 .. k} = c[0] .. (c[k] - 1)
  <2>1. {sub[outs[i]].marks : i \in 1 .. k} = {c[i - 1] .. (c[i] - 1) : i \in 1 .. k}
    BY <1>4
  <2>2. UNION {c[j - 1] .. (c[j] - 1) : j \in 1 .. k} = c[0] .. (c[k] - 1)
    <3>1. k \in Nat /\ k <= k
      BY <1>1
    <3> QED
      BY <1>5, <3>1, Zenon
  <2> QED
    BY <2>1, <2>2
<1>7. ASSUME NEW i \in 1 .. k, NEW j \in 1 .. (i - 1) PROVE Below(sub[outs[j]].marks, sub[outs[i]].marks)
  <2>1. /\ i - 1 \in Nat /\ i - 1 <= k /\ j \in 0 .. (i - 1) /\ j \in 1 .. k
        /\ j - 1 \in 0 .. k /\ j \in 0 .. k /\ i - 1 \in 0 .. k /\ i \in 0 .. k
    BY <1>1
  <2>2. c[j] <= c[i - 1]
    BY <1>5, <2>1
  <2>3. c[j - 1] \in Nat /\ c[j] \in Nat /\ c[i - 1] \in Nat /\ c[i] \in Nat
    BY <2>1 DEF k
  <2>4. sub[outs[j]].marks = c[j - 1] .. (c[j] - 1) /\ sub[outs[i]].marks = c[i - 1] .. (c[i] - 1)
    BY <1>4, <2>1
  <2>5. \A x \in c[j - 1] .. (c[j] - 1), y \in c[i - 1] .. (c[i] - 1) : x < y
    BY <2>2, <2>3
  <2> QED
    BY <2>4, <2>5 DEF Below
<1>8. Spans(n + 1, q, c[0], c[k])
  BY <1>3, <1>4, <1>6, <1>7 DEF Spans
<1>9. ASSUME k = 1 PROVE Spans(n + 1, outs[1], c[0], c[k])
  <2>1. outs[1] \in Nested[n] /\ 1 \in 1 .. k /\ 1 - 1 = 0
    BY <1>1, <1>9, FirstOf DEF k
  <2>2. Placements[n + 1][outs[1]] = sub[outs[1]]
    BY <2>1, PlacementStays DEF sub
  <2> QED
    BY <1>4, <1>9, <2>1, <2>2 DEF Spans
<1> QED
  BY <1>8, <1>9 DEF k

\* What formatOperands makes of the operands of p.
OperandsDone(kind, n, p, goOn, embedBool, args, r) ==
  LET fit == Fit(Builder(kind)[n], p.ps, embedBool, Len(p.ps))
      q == [tag |-> p.tag, ps |-> r.out]
  IN /\ p.ps \in Seq(Nested[n])
     /\ r.args \in Seq(ValueExprs) /\ Extends(args, r.args)
     /\ r.out \in Seq(Nested[n])
     /\ q \in Nested[n + 1]
     /\ ~goOn => (Ok(r) <=> fit)
     /\ \A j \in 1 .. Len(r.out) : \E i \in 1 .. Len(p.ps) : Means(n, p.ps[i], r.out[j], r.args)
     /\ fit => /\ Len(r.out) = Len(p.ps)
               /\ Means(n + 1, p, q, r.args) /\ Spans(n + 1, q, Len(args), Len(r.args))
               /\ p.tag # "coalesce" /\ Len(r.out) = 1 =>
                    Means(n + 1, p, r.out[1], r.args) /\ Spans(n + 1, r.out[1], Len(args), Len(r.args))

\* formatOperands, for the operands of one predicate.
LEMMA OperandsResult ==
  ASSUME NEW kind, NEW n \in Nat, Faithful(kind, n), NEW p \in Nested[n + 1], p.tag \in OperandTags,
         NEW goOn \in BOOLEAN, NEW embedBool \in BOOLEAN, NEW args \in Seq(ValueExprs),
         NEW r, r = formatOperands(Builder(kind)[n], p.ps, goOn, embedBool, args)
  PROVE  OperandsDone(kind, n, p, goOn, embedBool, args, r)
<1> DEFINE sub == Builder(kind)[n]
           k == Len(p.ps)
           w == Walk(sub, p.ps, goOn, embedBool, args)
           q == [tag |-> p.tag, ps |-> r.out]
           fit == Fit(sub, p.ps, embedBool, k)
<1>1. p.ps \in Seq(Nested[n]) /\ k \in Nat
  <2>1. n + 1 \in Nat /\ (n + 1) - 1 = n
    OBVIOUS
  <2> QED
    BY <2>1, PartsBelow DEF OperandTags
<1>2. r = w[k]
  BY OperandsAreWalked
<1>3. (\A j \in 0 .. k : Walked(n, sub, p.ps, goOn, embedBool, args, w, j)) /\ w[0].args = args
  BY <1>1, OperandsAreKept
<1> HIDE DEF sub, k, w, fit
<1>4. k \in 0 .. k
  BY <1>1
<1>5. /\ r.args \in Seq(ValueExprs) /\ Extends(args, r.args)
      /\ r.out \in Seq(Nested[n])
      /\ fit => /\ Ok(r) /\ Len(r.out) = k
                /\ \A j \in 1 .. k : /\ Means(n, p.ps[j], r.out[j], r.args)
                                     /\ Spans(n, r.out[j], Len(w[j - 1].args), Len(w[j].args))
      /\ \A j \in 1 .. Len(r.out) : \E i \in 1 .. k : Means(n, p.ps[i], r.out[j], r.args)
      /\ ~goOn => (Ok(r) <=> fit)
  BY <1>2, <1>3, <1>4 DEF Walked, fit
<1>6. q \in Nested[n + 1]
  <2>1. Nested[n + 1] = Over(Nested[n])
    BY NestedSteps
  <2> QED
    BY <1>5, <2>1 DEF Over, OperandTags
<1>7. q.tag = p.tag /\ q.ps = r.out
  OBVIOUS
<1> HIDE DEF q
<1>8. ASSUME fit
      PROVE  /\ Means(n + 1, p, q, r.args)
             /\ p.tag # "coalesce" /\ Len(r.out) = 1 => Means(n + 1, p, r.out[1], r.args)
  BY <1>5, <1>6, <1>7, <1>8, JoinedMeans DEF k
<1>9. ASSUME fit
      PROVE  /\ Spans(n + 1, q, Len(args), Len(r.args))
             /\ Len(r.out) = 1 => Spans(n + 1, r.out[1], Len(args), Len(r.args))
  <2> DEFINE c == [j \in 0 .. k |-> Len(w[j].args)]
  <2>1. \A j \in 0 .. k : w[j].args \in Seq(ValueExprs) /\ c[j] = Len(w[j].args)
    BY <1>3 DEF Walked
  <2>2. \A j \in 0 .. k : c[j] \in Nat
    BY <2>1
  <2>3. \A j \in 1 .. k : j \in 0 .. k /\ j - 1 \in 0 .. k /\ j - 1 \in 0 .. j
    BY <1>1
  <2>4. \A j \in 1 .. k : Len(w[j - 1].args) <= Len(w[j].args)
    BY <1>3, <2>3 DEF Walked
  <2> HIDE DEF c
  <2>5. \A j \in 1 .. k : c[j - 1] <= c[j] /\ Spans(n, r.out[j], c[j - 1], c[j])
    BY <1>5, <1>9, <2>1, <2>3, <2>4
  <2>6. c[0] = Len(args) /\ c[k] = Len(r.args) /\ k = Len(r.out)
    <3>1. 0 \in 0 .. k /\ k \in 0 .. k
      BY <1>1
    <3>2. c[0] = Len(w[0].args) /\ c[k] = Len(w[k].args)
      BY <2>1, <3>1, Zenon
    <3> QED
      BY <1>2, <1>3, <1>5, <1>9, <3>2
  <2>7. q.tag \in OperandTags
    BY <1>7
  <2> QED
    BY <1>5, <1>6, <1>7, <2>2, <2>5, <2>6, <2>7, JoinedSpans
<1> QED
  BY <1>1, <1>5, <1>6, <1>8, <1>9 DEF sub, k, fit, q, OperandsDone

\* The results of the formatters, by their fields.
LEMMA ResultFields ==
  /\ \A out, args : Done(out, args).args = args /\ Done(out, args).out = out /\ Ok(Done(out, args))
  /\ \A err, args : FailedWith(err, args).args = args /\ FailedWith(err, args).err = err
BY DEF Done, FailedWith, Ok

\* The text and the arguments of a formatter that is done.
LEMMA FieldsOf ==
  ASSUME NEW r, NEW out, NEW args, r = Done(out, args)
  PROVE  r.args = args /\ r.out = out
BY DEF Done

\* The error of a formatter that fails.
LEMMA ErrorOf ==
  ASSUME NEW r, NEW err, NEW args, r = FailedWith(err, args)
  PROVE  r.err = err
BY DEF FailedWith

Errors == {"unsupported expression", "unimplemented typed value", "unimplemented operation",
           "unimplemented predicate type", "no operands"}

\* An error is an error.
LEMMA ErrorsAreErrors == NoError \notin Errors
BY Zenon DEF Errors, NoError

\* formatNegation keeps the meaning of the predicate it negates.
LEMMA NegationIsKept ==
  ASSUME NEW kind, NEW n \in Nat, Faithful(kind, n), NEW p \in Nested[n + 1], p.tag = "negation",
         NEW args \in Seq(ValueExprs)
  PROVE  LET of(a) == formatNegation(Builder(kind)[n], p, a)
         IN Kept(n + 1, p, args, of(args)) /\ (Ok(of(args)) <=> Ok(of(<<>>)))
<1> DEFINE sub(a) == Builder(kind)[n][p.p][FALSE][FALSE][a]
           of(a) == formatNegation(Builder(kind)[n], p, a)
           r == sub(args)
           q == Negation(r.out)
<1>1. \A a : of(a) = IF Ok(sub(a)) THEN Done(Negation(sub(a).out), sub(a).args) ELSE sub(a)
  BY Zenon DEF formatNegation
<1>2. p.p \in Nested[n]
  <2>1. n + 1 \in Nat /\ (n + 1) - 1 = n
    OBVIOUS
  <2> QED
    BY <2>1, PartsBelow
<1>3. Kept(n, p.p, args, sub(args)) /\ (Ok(sub(args)) <=> Ok(sub(<<>>)))
  BY <1>2 DEF Faithful
<1>4. /\ r.args \in Seq(ValueExprs) /\ Extends(args, r.args)
      /\ Ok(r) => r.out \in Nested[n] /\ Means(n, p.p, r.out, r.args) /\ Spans(n, r.out, Len(args), Len(r.args))
  BY <1>3 DEF Kept
<1>5. q.tag = "negation" /\ q.p = r.out
  BY DEF Negation
<1> HIDE DEF sub, of, q
<1>6. \A a : Ok(of(a)) <=> Ok(sub(a))
  BY <1>1, ResultFields, Zenon
<1>7. of(args).args = r.args /\ (Ok(r) => of(args).out = q)
  BY <1>1, ResultFields, Zenon DEF q
<1>8. ASSUME Ok(r)
      PROVE  q \in Nested[n + 1] /\ Means(n + 1, p, q, r.args) /\ Spans(n + 1, q, Len(args), Len(r.args))
  <2>1. n + 1 \in Nat /\ n + 1 # 0 /\ (n + 1) - 1 = n
    OBVIOUS
  <2>2. q \in Nested[n + 1]
    <3>1. Nested[n + 1] = Over(Nested[n])
      BY NestedSteps
    <3> QED
      BY <1>4, <1>8, <3>1 DEF Over, q, Negation
  <2>3. Means(n + 1, p, q, r.args)
    <3> SUFFICES ASSUME NEW row \in Rows
                 PROVE  /\ Meanings[n + 1][p][row][<<>>] \in Scalars
                        /\ \A more \in Seq(ValueExprs) :
                             Extends(r.args, more) => Meanings[n + 1][q][row][more] = Meanings[n + 1][p][row][<<>>]
      BY DEF Means
    <3>1. MeaningsBelow(n + 1) = Meanings[n] /\ <<>> \in Seq(ValueExprs)
      BY <2>1 DEF MeaningsBelow
    <3>2. Meanings[n + 1][p][row][<<>>] = Not(Meanings[n][p.p][row][<<>>])
      <4>1. Meanings[n + 1][p][row][<<>>] = Meaning(Meanings[n], p, row, <<>>)
        BY <2>1, <3>1, MeaningSteps
      <4> QED
        BY <4>1, MeaningNegated
    <3>3. Meanings[n][p.p][row][<<>>] \in Scalars
      BY <1>4, <1>8 DEF Means
    <3>4. \A x \in Scalars : Not(x) \in Scalars
      BY DEF Not, Scalars, NullValue
    <3>5. ASSUME NEW more \in Seq(ValueExprs), Extends(r.args, more)
          PROVE  Meanings[n + 1][q][row][more] = Meanings[n + 1][p][row][<<>>]
      <4>1. Meanings[n + 1][q][row][more] = Meaning(Meanings[n], q, row, more)
        BY <2>1, <2>2, <3>1, MeaningSteps
      <4>2. Meanings[n + 1][q][row][more] = Not(Meanings[n][r.out][row][more])
        BY <1>5, <4>1, MeaningNegated
      <4>3. Meanings[n][r.out][row][more] = Meanings[n][p.p][row][<<>>]
        BY <1>4, <1>8, <3>5 DEF Means
      <4> QED
        BY <3>2, <4>2, <4>3
    <3> QED
      BY <3>2, <3>3, <3>4, <3>5
  <2>4. Spans(n + 1, q, Len(args), Len(r.args))
    <3>1. PlacementsBelow(n + 1) = Placements[n]
      BY <2>1 DEF PlacementsBelow
    <3>2. Placements[n + 1][q] = Placed(Placements[n], q)
      BY <2>1, <2>2, <3>1, PlacementSteps
    <3>3. Placements[n + 1][q] = Placements[n][r.out]
      BY <1>5, <3>2 DEF Placed
    <3> QED
      BY <1>4, <1>8, <3>3 DEF Spans
  <2> QED
    BY <2>2, <2>3, <2>4
<1>9. Kept(n + 1, p, args, of(args))
  BY <1>4, <1>6, <1>7, <1>8 DEF Kept
<1> QED
  BY <1>3, <1>6, <1>9 DEF of

\* The operands of p can be formatted, and there is one where one is needed.
EmbedOf(kind, p) ==
  CASE p.tag = "conjunction" -> FALSE
    [] p.tag = "disjunction" -> TRUE
    [] p.tag = "coalesce" -> kind = "logging"

Whole(kind, n, p) ==
  /\ Fit(Builder(kind)[n], p.ps, EmbedOf(kind, p), Len(p.ps))
  /\ p.tag # "coalesce" => Len(p.ps) # 0

\* A conjunction below the top, a disjunction and a COALESCE are formatted as a whole or not at all.
LEMMA CombinationIsKept ==
  ASSUME NEW kind, NEW n \in Nat, Faithful(kind, n), NEW p \in Nested[n + 1], p.tag \in OperandTags,
         NEW args \in Seq(ValueExprs)
  PROVE  LET of(a) == CASE p.tag = "conjunction" -> formatConjunction(Builder(kind)[n], p, FALSE, a)
                        [] p.tag = "disjunction" -> formatDisjunction(Builder(kind)[n], p, a)
                        [] p.tag = "coalesce" -> formatCoalesce(kind, Builder(kind)[n], p, a)
         IN Kept(n + 1, p, args, of(args)) /\ (Ok(of(args)) <=> Whole(kind, n, p))
<1> DEFINE sub == Builder(kind)[n]
           embedBool == EmbedOf(kind, p)
           of(a) == CASE p.tag = "conjunction" -> formatConjunction(sub, p, FALSE, a)
                      [] p.tag = "disjunction" -> formatDisjunction(sub, p, a)
                      [] p.tag = "coalesce" -> formatCoalesce(kind, sub, p, a)
           res(a) == formatOperands(sub, p.ps, FALSE, embedBool, a)
           fit == Fit(sub, p.ps, embedBool, Len(p.ps))
           q(a) == [tag |-> p.tag, ps |-> res(a).out]
           whole == fit /\ (p.tag # "coalesce" => Len(p.ps) # 0)
           one(a) == p.tag # "coalesce" /\ Len(res(a).out) = 1
<1>1. embedBool \in BOOLEAN
  BY DEF OperandTags, EmbedOf
<1> HIDE DEF embedBool
<1>2. \A a \in Seq(ValueExprs) :
         /\ p.ps \in Seq(Nested[n])
         /\ res(a).args \in Seq(ValueExprs) /\ Extends(a, res(a).args)
         /\ res(a).out \in Seq(Nested[n])
         /\ q(a) \in Nested[n + 1]
         /\ Ok(res(a)) <=> fit
         /\ fit => /\ Len(res(a).out) = Len(p.ps)
                   /\ Means(n + 1, p, q(a), res(a).args) /\ Spans(n + 1, q(a), Len(a), Len(res(a).args))
                   /\ one(a) => /\ Means(n + 1, p, res(a).out[1], res(a).args)
                                /\ Spans(n + 1, res(a).out[1], Len(a), Len(res(a).args))
  <2> TAKE a \in Seq(ValueExprs)
  <2>1. \A b \in BOOLEAN : OperandsDone(kind, n, p, b, embedBool, a, formatOperands(sub, p.ps, b, embedBool, a))
    BY <1>1, OperandsResult
  <2>2. OperandsDone(kind, n, p, FALSE, embedBool, a, res(a))
    BY <2>1, Zenon
  <2> HIDE DEF res
  <2> QED
    BY <2>2 DEF OperandsDone
<1>3. \A a : res(a).err = NoError <=> Ok(res(a))
  BY DEF Ok
<1> HIDE DEF sub, res, fit
<1>4. ASSUME NEW a \in Seq(ValueExprs)
      PROVE  of(a) = IF whole THEN Done(IF one(a) THEN res(a).out[1] ELSE q(a), res(a).args)
                     ELSE FailedWith(IF Ok(res(a)) THEN "no operands" ELSE res(a).err, res(a).args)
  <2>1. Len(p.ps) \in Nat /\ (p.ps = <<>> <=> Len(p.ps) = 0) /\ (res(a).out = <<>> <=> Len(res(a).out) = 0)
    <3>1. p.ps \in Seq(Nested[n]) /\ res(a).out \in Seq(Nested[n])
      BY <1>2, Zenon
    <3> QED
      BY <3>1, SeqPlaces, Zenon
  <2>2. CASE p.tag = "conjunction"
    <3>1. of(a) = formatConjunction(sub, p, FALSE, a) /\ embedBool = FALSE
      BY <2>2 DEF embedBool, EmbedOf
    <3>2. of(a) = IF ~Ok(res(a)) \/ res(a).out = <<>>
                  THEN FailedWith(IF Ok(res(a)) THEN "no operands" ELSE res(a).err, res(a).args)
                  ELSE Done(IF Len(res(a).out) = 1 THEN res(a).out[1] ELSE q(a), res(a).args)
      BY <2>2, <3>1 DEF formatConjunction, Joined, Conjunction, res
    <3> QED
      BY <1>2, <2>1, <2>2, <3>2
  <2>3. CASE p.tag = "disjunction"
    <3>1. of(a) = formatDisjunction(sub, p, a) /\ embedBool = TRUE
      BY <2>3 DEF embedBool, EmbedOf
    <3>2. of(a) = IF ~Ok(res(a)) \/ p.ps = <<>>
                  THEN FailedWith(IF Ok(res(a)) THEN "no operands" ELSE res(a).err, res(a).args)
                  ELSE Done(IF Len(res(a).out) = 1 THEN res(a).out[1] ELSE q(a), res(a).args)
      BY <2>3, <3>1 DEF formatDisjunction, Joined, Disjunction, res
    <3> QED
      BY <1>2, <2>1, <2>3, <3>2
  <2>4. CASE p.tag = "coalesce"
    <3>1. of(a) = formatCoalesce(kind, sub, p, a) /\ embedBool = (kind = "logging")
      BY <2>4 DEF embedBool, EmbedOf
    <3>2. of(a) = IF Ok(res(a)) THEN Done(q(a), res(a).args) ELSE FailedWith(res(a).err, res(a).args)
      BY <2>4, <3>1 DEF formatCoalesce, CoalesceOf, res
    <3> QED
      BY <1>2, <2>4, <3>2
  <2> QED
    BY <2>2, <2>3, <2>4 DEF OperandTags
<1> HIDE DEF of, q, one, whole
<1>5. ASSUME NEW a \in Seq(ValueExprs) PROVE of(a).args = res(a).args /\ (Ok(of(a)) <=> whole)
  <2>1. CASE whole
    <3>1. of(a) = Done(IF one(a) THEN res(a).out[1] ELSE q(a), res(a).args)
      BY <1>4, <2>1
    <3> QED
      BY <2>1, <3>1, ResultFields
  <2>2. CASE ~whole
    <3> DEFINE err == IF Ok(res(a)) THEN "no operands" ELSE res(a).err
    <3>1. err # NoError
      <4>1. "no operands" # NoError
        BY ErrorsAreErrors, Zenon DEF Errors
      <4> QED
        BY <4>1, Zenon DEF Ok
    <3>2. of(a) = FailedWith(err, res(a).args)
      BY <1>4, <2>2
    <3> HIDE DEF err
    <3>3. of(a).args = res(a).args /\ of(a).err = err
      BY <3>2, ResultFields
    <3> QED
      BY <2>2, <3>1, <3>3 DEF Ok
  <2> QED
    BY <2>1, <2>2
<1>7. Ok(of(args)) <=> Whole(kind, n, p)
  BY <1>5 DEF whole, fit, sub, embedBool, Whole
<1>8. ASSUME whole
      PROVE  LET out == of(args).out
             IN out \in Nested[n + 1] /\ Means(n + 1, p, out, res(args).args)
                /\ Spans(n + 1, out, Len(args), Len(res(args).args))
  <2>1. CASE one(args)
    <3>1. of(args).out = res(args).out[1]
      <4>1. of(args) = Done(res(args).out[1], res(args).args)
        BY <1>4, <1>8, <2>1
      <4> QED
        BY <4>1, ResultFields
    <3>2. res(args).out[1] \in Nested[n]
      BY <1>2, <2>1, FirstOf DEF one
    <3>3. res(args).out[1] \in Nested[n + 1]
      BY <3>2, NestedGrows
    <3> QED
      BY <1>2, <1>8, <2>1, <3>1, <3>3 DEF whole
  <2>2. CASE ~one(args)
    <3>1. of(args).out = q(args)
      <4>1. of(args) = Done(q(args), res(args).args)
        BY <1>4, <1>8, <2>2
      <4> QED
        BY <4>1, ResultFields
    <3> QED
      BY <1>2, <1>8, <3>1 DEF whole
  <2> QED
    BY <2>1, <2>2
<1>9. Kept(n + 1, p, args, of(args))
  BY <1>2, <1>5, <1>8 DEF Kept
<1> QED
  BY <1>7, <1>9 DEF of, sub

\* Below the top, a predicate of any depth is formatted with its meaning or not at all.
LEMMA AllFaithful ==
  ASSUME NEW kind
  PROVE  \A n \in Nat : Faithful(kind, n)
<1> DEFINE S == {n \in Nat : Faithful(kind, n)}
<1>1. ASSUME NEW m \in Nat, m # 0 => Faithful(kind, m - 1) PROVE Faithful(kind, m)
  <2> SUFFICES ASSUME NEW p \in Nested[m], NEW embedBool \in BOOLEAN, NEW args \in Seq(ValueExprs)
               PROVE  LET of(a) == Builder(kind)[m][p][FALSE][embedBool][a]
                      IN Kept(m, p, args, of(args)) /\ (Ok(of(args)) <=> Ok(of(<<>>)))
    BY Zenon DEF Faithful
  <2> DEFINE of(a) == Builder(kind)[m][p][FALSE][embedBool][a]
             sub == BuilderBelow(kind, m)
             made(a) == formatPayload(kind, sub, p, FALSE, embedBool, a)
  <2>1. \A b \in BOOLEAN : \A a \in Seq(ValueExprs) :
          Builder(kind)[m][p][b][embedBool][a] = formatPayload(kind, sub, p, b, embedBool, a)
    BY BuilderSteps
  <2>2. of(args) = made(args) /\ of(<<>>) = made(<<>>)
    <3>1. <<>> \in Seq(ValueExprs)
      OBVIOUS
    <3> QED
      BY <2>1, <3>1, Zenon
  <2> HIDE DEF of, sub
  <2>3. m # 0 => sub = Builder(kind)[m - 1] /\ m - 1 \in Nat /\ m = (m - 1) + 1
    BY DEF sub, BuilderBelow
  <2>4. CASE p.tag = "negation"
    <3>1. m # 0
      BY <2>4, PartsBelow
    <3>2. \A a : made(a) = formatNegation(Builder(kind)[m - 1], p, a)
      BY <2>3, <2>4, <3>1 DEF formatPayload
    <3>3. Kept(m, p, args, made(args)) /\ (Ok(made(args)) <=> Ok(made(<<>>)))
      BY <1>1, <2>3, <2>4, <3>1, <3>2, NegationIsKept
    <3> QED
      BY <2>2, <3>3 DEF of
  <2>5. CASE p.tag \in OperandTags
    <3>1. m # 0
      BY <2>5, PartsBelow DEF OperandTags
    <3> DEFINE whole == Whole(kind, m - 1, p)
    <3>2. \A a : made(a) = CASE p.tag = "conjunction" -> formatConjunction(Builder(kind)[m - 1], p, FALSE, a)
                             [] p.tag = "disjunction" -> formatDisjunction(Builder(kind)[m - 1], p, a)
                             [] p.tag = "coalesce" -> formatCoalesce(kind, Builder(kind)[m - 1], p, a)
      BY <2>3, <2>5, <3>1 DEF formatPayload, OperandTags
    <3>3. \A a \in Seq(ValueExprs) : Kept(m, p, a, made(a)) /\ (Ok(made(a)) <=> whole)
      BY <1>1, <2>3, <2>5, <3>1, <3>2, CombinationIsKept
    <3>4. <<>> \in Seq(ValueExprs)
      OBVIOUS
    <3> QED
      BY <2>2, <3>3, <3>4, Zenon DEF of
  <2>6. CASE p.tag = "comparison"
    <3>1. \A a : made(a) = formatComparison(kind, p, embedBool, a)
      BY <2>6 DEF formatPayload
    <3>2. Kept(m, p, args, made(args)) /\ (Ok(made(args)) <=> Ok(made(<<>>)))
      BY <2>6, <3>1, ComparisonIsKept
    <3> QED
      BY <2>2, <3>2 DEF of
  <2>7. CASE p.tag = "bool"
    <3>1. \A a : made(a) = formatUnary(kind, p, embedBool, a)
      BY <2>7 DEF formatPayload
    <3>2. Kept(m, p, args, made(args)) /\ (Ok(made(args)) <=> Ok(made(<<>>)))
      BY <2>7, <3>1, UnaryIsKept
    <3> QED
      BY <2>2, <3>2 DEF of
  <2>8. CASE p.tag \in {"is_null", "is_not_null"}
    <3>1. \A a : made(a) = formatUnary(kind, p, FALSE, a)
      BY <2>8 DEF formatPayload
    <3>2. \A b \in BOOLEAN : /\ Kept(m, p, args, formatUnary(kind, p, b, args))
                             /\ Ok(formatUnary(kind, p, b, args)) <=> Ok(formatUnary(kind, p, b, <<>>))
      BY <2>8, UnaryIsKept
    <3>3. Kept(m, p, args, made(args)) /\ (Ok(made(args)) <=> Ok(made(<<>>)))
      BY <3>1, <3>2, Zenon
    <3> QED
      BY <2>2, <3>3 DEF of
  <2>9. CASE p.tag = "between"
    <3> DEFINE err == "unimplemented predicate type"
    <3>1. \A a : made(a) = FailedWith(err, a)
      BY <2>9, Zenon DEF formatPayload
    <3>2. err # NoError
      BY ErrorsAreErrors, Zenon DEF Errors
    <3> HIDE DEF err, made
    <3>0. \A a : made(a).err = err /\ made(a).args = a
      BY <3>1, ResultFields
    <3>3. \A a : ~Ok(made(a)) /\ made(a).args = a
      BY <3>0, <3>2, Zenon DEF Ok
    <3>4. Kept(m, p, args, made(args)) /\ (Ok(made(args)) <=> Ok(made(<<>>)))
      BY <3>3, ExtendsItself DEF Kept
    <3> QED
      BY <2>2, <3>4 DEF of
  <2> QED
    BY <2>4, <2>5, <2>6, <2>7, <2>8, <2>9, PartsBelow DEF OperandTags
<1>2. 0 \in S
  BY <1>1
<1>3. ASSUME NEW n \in Nat, n \in S PROVE n + 1 \in S
  <2>1. n + 1 \in Nat /\ (n + 1) - 1 = n
    OBVIOUS
  <2> QED
    BY <1>1, <1>3, <2>1
<1>4. Nat \subseteq S
  <2> HIDE DEF S
  <2> QED
    BY <1>2, <1>3, SetInduction
<1> QED
  BY <1>4

\* Whether a predicate can be formatted is the same at every depth that has it.
LEMMA FitStays ==
  ASSUME NEW kind, NEW n \in Nat, NEW p \in Nested[n], NEW embedBool \in BOOLEAN
  PROVE  Ok(Builder(kind)[n + 1][p][FALSE][embedBool][<<>>]) <=> Ok(Builder(kind)[n][p][FALSE][embedBool][<<>>])
<1> DEFINE can(m, q, b) == Ok(Builder(kind)[m][q][FALSE][b][<<>>])
           S == {m \in Nat : \A q \in Nested[m], b \in BOOLEAN : can(m + 1, q, b) <=> can(m, q, b)}
<1>e. <<>> \in Seq(ValueExprs)
  OBVIOUS
<1>1. ASSUME NEW m \in Nat, m # 0 => m - 1 \in S PROVE m \in S
  <2> SUFFICES ASSUME NEW q \in Nested[m], NEW b \in BOOLEAN PROVE can(m + 1, q, b) <=> can(m, q, b)
    OBVIOUS
  <2> DEFINE made(sub) == formatPayload(kind, sub, q, FALSE, b, <<>>)
             above == Builder(kind)[m]
             below == BuilderBelow(kind, m)
  <2>1. can(m, q, b) <=> Ok(made(below))
    <3>1. \A t \in BOOLEAN : \A a \in Seq(ValueExprs) :
            Builder(kind)[m][q][t][b][a] = formatPayload(kind, below, q, t, b, a)
      BY BuilderSteps
    <3> QED
      BY <1>e, <3>1, Zenon
  <2>2. can(m + 1, q, b) <=> Ok(made(above))
    <3>1. q \in Nested[m + 1] /\ m + 1 \in Nat
      BY NestedGrows
    <3>2. BuilderBelow(kind, m + 1) = above
      BY DEF BuilderBelow
    <3>3. \A t \in BOOLEAN : \A a \in Seq(ValueExprs) :
            Builder(kind)[m + 1][q][t][b][a] = formatPayload(kind, above, q, t, b, a)
      BY <3>1, <3>2, BuilderSteps
    <3> QED
      BY <1>e, <3>3, Zenon
  <2>3. ASSUME m # 0 PROVE m - 1 \in Nat /\ m = (m - 1) + 1 /\ below = Builder(kind)[m - 1]
    BY <2>3 DEF BuilderBelow
  <2>4. ASSUME m # 0, NEW x \in Nested[m - 1], NEW c \in BOOLEAN PROVE can(m, x, c) <=> can(m - 1, x, c)
    <3>1. m - 1 \in S
      BY <1>1, <2>4
    <3>2. \A y \in Nested[m - 1], d \in BOOLEAN : can((m - 1) + 1, y, d) <=> can(m - 1, y, d)
      BY <3>1
    <3> HIDE DEF can
    <3> QED
      BY <2>3, <2>4, <3>2
  <2> HIDE DEF made, above, below
  <2>5. CASE q.tag = "negation"
    <3>1. m # 0 /\ q.p \in Nested[m - 1]
      BY <2>5, PartsBelow
    <3>2. \A sub : made(sub) = formatNegation(sub, q, <<>>)
      BY <2>5 DEF made, formatPayload
    <3>3. \A sub : Ok(made(sub)) <=> Ok(sub[q.p][FALSE][FALSE][<<>>])
      BY <3>2, ResultFields, Zenon DEF formatNegation
    <3>4. can(m, q.p, FALSE) <=> can(m - 1, q.p, FALSE)
      BY <2>4, <3>1, Zenon
    <3> QED
      BY <2>1, <2>2, <2>3, <3>1, <3>3, <3>4 DEF above
  <2>6. CASE q.tag \in OperandTags
    <3>1. m # 0 /\ q.ps \in Seq(Nested[m - 1])
      BY <2>6, PartsBelow DEF OperandTags
    <3>2. \A sub : made(sub) = CASE q.tag = "conjunction" -> formatConjunction(sub, q, FALSE, <<>>)
                                 [] q.tag = "disjunction" -> formatDisjunction(sub, q, <<>>)
                                 [] q.tag = "coalesce" -> formatCoalesce(kind, sub, q, <<>>)
      BY <2>6 DEF made, formatPayload, OperandTags
    <3>3. Ok(made(above)) <=> Whole(kind, m, q)
      <4>1. Faithful(kind, m) /\ q \in Nested[m + 1]
        BY AllFaithful, NestedGrows
      <4> QED
        BY <1>e, <2>6, <3>2, <4>1, CombinationIsKept DEF above
    <3>4. Ok(made(below)) <=> Whole(kind, m - 1, q)
      <4>1. Faithful(kind, m - 1) /\ q \in Nested[(m - 1) + 1]
        BY <2>3, <3>1, AllFaithful
      <4> QED
        BY <1>e, <2>3, <2>6, <3>1, <3>2, <4>1, CombinationIsKept
    <3>5. EmbedOf(kind, q) \in BOOLEAN
      BY <2>6 DEF EmbedOf, OperandTags
    <3>6. \A i \in 1 .. Len(q.ps) : can(m, q.ps[i], EmbedOf(kind, q)) <=> can(m - 1, q.ps[i], EmbedOf(kind, q))
      <4>1. \A i \in 1 .. Len(q.ps) : q.ps[i] \in Nested[m - 1]
        BY <3>1
      <4> QED
        BY <2>4, <3>1, <3>5, <4>1, Zenon
    <3>7. Whole(kind, m, q) <=> Whole(kind, m - 1, q)
      BY <3>6, Zenon DEF Whole, Fit
    <3> QED
      BY <2>1, <2>2, <3>3, <3>4, <3>7
  <2>7. CASE q.tag \notin OperandTags \cup {"negation"}
    <3>1. made(above) = made(below)
      <4>1. CASE q.tag \in {"is_null", "is_not_null"}
        BY <4>1 DEF made, formatPayload
      <4>2. CASE q.tag \in {"comparison", "bool"}
        BY <4>2 DEF made, formatPayload
      <4>3. CASE q.tag = "between"
        BY <4>3, Zenon DEF made, formatPayload
      <4> QED
        BY <2>7, <4>1, <4>2, <4>3, PartsBelow DEF OperandTags
    <3> QED
      BY <2>1, <2>2, <3>1
  <2> QED
    BY <2>5, <2>6, <2>7
<1> HIDE DEF can
<1>2. 0 \in S
  BY <1>1
<1>3. ASSUME NEW m \in Nat, m \in S PROVE m + 1 \in S
  <2>1. m + 1 \in Nat /\ (m + 1) - 1 = m
    OBVIOUS
  <2> QED
    BY <1>1, <1>3, <2>1
<1>4. n \in S
  <2> HIDE DEF S
  <2> QED
    BY <1>2, <1>3, SetInduction
<1> QED
  BY <1>4 DEF can

\* No operand of the conjunction at the top is left out.
AllFit(kind, p) ==
  p.tag = "conjunction" =>
    \A i \in DOMAIN p.ps : Ok(formatPredicate(kind, p.ps[i], FALSE, FALSE, <<>>))

\* What formatPredicate makes of a filter.
Pushed(kind, p, r) ==
  /\ r.out \in Nested[MaxNesting] /\ r.args \in Seq(ValueExprs)
  /\ \A row \in Rows : Meanings[MaxNesting][p][row][<<>>] = 1 => Meanings[MaxNesting][r.out][row][r.args] = 1
  /\ AllFit(kind, p) => Means(MaxNesting, p, r.out, r.args) /\ Spans(MaxNesting, r.out, 0, Len(r.args))

\* A filter that is no conjunction: what is pushed down is the filter itself.
LEMMA OtherIsPushed ==
  ASSUME NEW kind, NEW p \in Nested[MaxNesting], p.tag # "conjunction",
         NEW r, r = formatPredicate(kind, p, TRUE, FALSE, <<>>), Ok(r)
  PROVE  Pushed(kind, p, r)
<1> DEFINE sub == BuilderBelow(kind, MaxNesting)
<1>1. MaxNesting \in Nat /\ <<>> \in Seq(ValueExprs)
  BY PushdownAssumption
<1>2. \A t \in BOOLEAN, b \in BOOLEAN : \A a \in Seq(ValueExprs) :
        Builder(kind)[MaxNesting][p][t][b][a] = formatPayload(kind, sub, p, t, b, a)
  BY <1>1, BuilderSteps
<1> HIDE DEF sub
<1>3. formatPayload(kind, sub, p, TRUE, FALSE, <<>>) = formatPayload(kind, sub, p, FALSE, FALSE, <<>>)
  BY Zenon DEF formatPayload
<1>4. r = Builder(kind)[MaxNesting][p][FALSE][FALSE][<<>>]
  <2>1. r = formatPayload(kind, sub, p, TRUE, FALSE, <<>>)
    BY <1>1, <1>2, Zenon DEF formatPredicate
  <2>2. Builder(kind)[MaxNesting][p][FALSE][FALSE][<<>>] = formatPayload(kind, sub, p, FALSE, FALSE, <<>>)
    BY <1>1, <1>2, Zenon
  <2> QED
    BY <1>3, <2>1, <2>2
<1>5. Kept(MaxNesting, p, <<>>, r)
  <2>1. Faithful(kind, MaxNesting)
    BY <1>1, AllFaithful
  <2>2. \A b \in BOOLEAN : \A a \in Seq(ValueExprs) : Kept(MaxNesting, p, a, Builder(kind)[MaxNesting][p][FALSE][b][a])
    BY <2>1, Zenon DEF Faithful
  <2> QED
    BY <1>1, <1>4, <2>2, Zenon
<1>6. /\ r.args \in Seq(ValueExprs) /\ r.out \in Nested[MaxNesting]
      /\ Means(MaxNesting, p, r.out, r.args) /\ Spans(MaxNesting, r.out, Len(<<>>), Len(r.args))
  BY <1>5 DEF Kept
<1>7. Len(<<>>) = 0 /\ Extends(r.args, r.args)
  BY <1>6, ExtendsItself
<1>8. \A row \in Rows : Meanings[MaxNesting][r.out][row][r.args] = Meanings[MaxNesting][p][row][<<>>]
  BY <1>6, <1>7 DEF Means
<1> QED
  BY <1>6, <1>7, <1>8 DEF Pushed

\* A conjunction at the top: an operand that cannot be formatted is left out, the others keep their meaning.
LEMMA ConjunctionIsPushed ==
  ASSUME NEW kind, NEW p \in Nested[MaxNesting], p.tag = "conjunction",
         NEW r, r = formatPredicate(kind, p, TRUE, FALSE, <<>>), Ok(r)
  PROVE  Pushed(kind, p, r)
<1> DEFINE n == MaxNesting - 1
           sub == Builder(kind)[n]
           ops == formatOperands(sub, p.ps, TRUE, FALSE, <<>>)
           q == [tag |-> p.tag, ps |-> ops.out]
<1>1. MaxNesting \in Nat /\ MaxNesting # 0 /\ n \in Nat /\ MaxNesting = n + 1 /\ <<>> \in Seq(ValueExprs)
  BY PushdownAssumption, PartsBelow
<1>2. r = formatConjunction(sub, p, TRUE, <<>>)
  <2>1. \A t \in BOOLEAN, b \in BOOLEAN : \A a \in Seq(ValueExprs) :
          Builder(kind)[MaxNesting][p][t][b][a] = formatPayload(kind, BuilderBelow(kind, MaxNesting), p, t, b, a)
    BY <1>1, BuilderSteps
  <2>2. BuilderBelow(kind, MaxNesting) = sub
    BY <1>1 DEF BuilderBelow
  <2>3. r = formatPayload(kind, sub, p, TRUE, FALSE, <<>>)
    BY <1>1, <2>1, <2>2, Zenon DEF formatPredicate
  <2> HIDE DEF sub
  <2> QED
    BY <2>3 DEF formatPayload
<1>3. OperandsDone(kind, n, p, TRUE, FALSE, <<>>, ops)
  <2>1. Faithful(kind, n) /\ p \in Nested[n + 1]
    BY <1>1, AllFaithful
  <2>2. \A t \in BOOLEAN, b \in BOOLEAN : \A a \in Seq(ValueExprs) :
          OperandsDone(kind, n, p, t, b, a, formatOperands(sub, p.ps, t, b, a))
    <3> HIDE DEF n
    <3> QED
      BY <1>1, <2>1, OperandsResult DEF OperandTags
  <2> QED
    BY <1>1, <2>2, Zenon
<1> HIDE DEF n, ops, sub
<1>4. /\ p.ps \in Seq(Nested[n])
      /\ ops.args \in Seq(ValueExprs)
      /\ ops.out \in Seq(Nested[n])
      /\ q \in Nested[MaxNesting]
      /\ \A j \in 1 .. Len(ops.out) : \E i \in 1 .. Len(p.ps) : Means(n, p.ps[i], ops.out[j], ops.args)
      /\ Fit(sub, p.ps, FALSE, Len(p.ps)) =>
           /\ Means(MaxNesting, p, q, ops.args) /\ Spans(MaxNesting, q, Len(<<>>), Len(ops.args))
           /\ Len(ops.out) = 1 =>
                Means(MaxNesting, p, ops.out[1], ops.args) /\ Spans(MaxNesting, ops.out[1], Len(<<>>), Len(ops.args))
  BY <1>1, <1>3 DEF OperandsDone, sub
<1>5. /\ r.args = ops.args
      /\ r.out = IF Len(ops.out) = 1 THEN ops.out[1] ELSE q
      /\ ops.out # <<>>
  <2> DEFINE err == IF Ok(ops) THEN "no operands" ELSE ops.err
  <2>1. r = IF ops.out = <<>> THEN FailedWith(err, ops.args)
            ELSE Done(IF Len(ops.out) = 1 THEN ops.out[1] ELSE q, ops.args)
    BY <1>2, Zenon DEF formatConjunction, Joined, Conjunction, ops
  <2>2. err # NoError
    <3>1. "no operands" # NoError
      BY ErrorsAreErrors, Zenon DEF Errors
    <3> QED
      BY <3>1, Zenon DEF Ok
  <2> HIDE DEF err, q
  <2>3. ops.out # <<>>
    <3> SUFFICES ASSUME ops.out = <<>> PROVE FALSE
      OBVIOUS
    <3>1. r = FailedWith(err, ops.args)
      BY <2>1
    <3>2. r.err = err
      BY <3>1, ErrorOf, Zenon
    <3> QED
      BY <2>2, <3>2 DEF Ok
  <2> DEFINE out == IF Len(ops.out) = 1 THEN ops.out[1] ELSE q
  <2>4. r = Done(out, ops.args)
    BY <2>1, <2>3
  <2> HIDE DEF out
  <2>5. r.args = ops.args /\ r.out = out
    BY <2>4, FieldsOf, Zenon
  <2> QED
    BY <2>3, <2>5 DEF out
<1> HIDE DEF q
<1>6. r.out \in Nested[MaxNesting]
  <2>1. CASE Len(ops.out) = 1
    <3>1. ops.out[1] \in Nested[n]
      BY <1>4, <2>1, FirstOf
    <3>2. ops.out[1] \in Nested[MaxNesting]
      BY <1>1, <3>1, NestedGrows
    <3> QED
      BY <1>5, <2>1, <3>2
  <2>2. CASE Len(ops.out) # 1
    BY <1>4, <1>5, <2>2
  <2> QED
    BY <2>1, <2>2
<1>7. ASSUME NEW row \in Rows, Meanings[MaxNesting][p][row][<<>>] = 1
      PROVE  Meanings[MaxNesting][r.out][row][r.args] = 1
  <2> DEFINE ts == Operands(Meanings[n], p, row, <<>>)
             us == Operands(Meanings[n], q, row, ops.args)
  <2>1. MeaningsBelow(MaxNesting) = Meanings[n]
    BY <1>1 DEF MeaningsBelow, n
  <2>2. Meanings[MaxNesting][p][row][<<>>] = And({ts[i] : i \in DOMAIN ts})
    <3>1. Meanings[MaxNesting][p][row][<<>>] = Meaning(Meanings[n], p, row, <<>>)
      BY <1>1, <2>1, MeaningSteps
    <3>2. Meaning(Meanings[n], p, row, <<>>) = Combined(p.tag, ts)
      BY MeaningCombined DEF OperandTags
    <3> QED
      BY <3>1, <3>2 DEF Combined
  <2>3. DOMAIN ts = 1 .. Len(p.ps) /\ \A i \in 1 .. Len(p.ps) : ts[i] = Meanings[n][p.ps[i]][row][<<>>]
    <3>1. DOMAIN p.ps = 1 .. Len(p.ps)
      BY <1>4, SeqPlaces, Zenon
    <3> QED
      BY <3>1, Zenon DEF Operands
  <2>4. q.tag = "conjunction" /\ q.ps = ops.out
    BY DEF q
  <2>5. DOMAIN us = 1 .. Len(ops.out) /\ \A j \in 1 .. Len(ops.out) : us[j] = Meanings[n][ops.out[j]][row][ops.args]
    <3> HIDE DEF q
    <3>1. DOMAIN ops.out = 1 .. Len(ops.out)
      BY <1>4, SeqPlaces, Zenon
    <3>2. us = [i \in 1 .. Len(ops.out) |-> Meanings[n][ops.out[i]][row][ops.args]]
      BY <2>4, <3>1, Zenon DEF Operands
    <3> HIDE DEF us
    <3> QED
      BY <3>2, Zenon
  <2> HIDE DEF ts, us
  <2>6. \A i \in 1 .. Len(p.ps) : ts[i] # 0 /\ ts[i] # NullValue
    BY <1>7, <2>2, <2>3 DEF And, NullValue
  <2>7. \A j \in 1 .. Len(ops.out) : us[j] = 1
    <3> TAKE j \in 1 .. Len(ops.out)
    <3>1. PICK i \in 1 .. Len(p.ps) : Means(n, p.ps[i], ops.out[j], ops.args)
      BY <1>4
    <3>2. Extends(ops.args, ops.args)
      BY <1>4, ExtendsItself
    <3>3. Meanings[n][ops.out[j]][row][ops.args] = ts[i] /\ ts[i] \in Scalars
      BY <1>4, <2>3, <3>1, <3>2 DEF Means
    <3> QED
      BY <2>5, <2>6, <3>3 DEF Scalars
  <2>8. CASE Len(ops.out) = 1
    <3>1. ops.out[1] \in Nested[n] /\ 1 \in 1 .. Len(ops.out)
      BY <1>4, <2>8, FirstOf
    <3>2. Meanings[n + 1][ops.out[1]][row][ops.args] = Meanings[n][ops.out[1]][row][ops.args]
      BY <1>1, <1>4, <3>1, MeaningStays
    <3> QED
      BY <1>1, <1>5, <2>5, <2>7, <2>8, <3>1, <3>2
  <2>9. CASE Len(ops.out) # 1
    <3>1. Meanings[MaxNesting][q][row][ops.args] = Meaning(Meanings[n], q, row, ops.args)
      BY <1>1, <1>4, <2>1, MeaningSteps
    <3>2. Meaning(Meanings[n], q, row, ops.args) = Combined(q.tag, us)
      BY <2>4, MeaningCombined DEF OperandTags, us
    <3>3. Combined(q.tag, us) = And({us[j] : j \in DOMAIN us})
      BY <2>4 DEF Combined
    <3>4. And({us[j] : j \in DOMAIN us}) = 1
      BY <2>5, <2>7 DEF And, NullValue
    <3> QED
      BY <1>5, <2>9, <3>1, <3>2, <3>3, <3>4
  <2> QED
    BY <2>8, <2>9
<1>8. ASSUME AllFit(kind, p) PROVE Means(MaxNesting, p, r.out, r.args) /\ Spans(MaxNesting, r.out, 0, Len(r.args))
  <2>1. ASSUME NEW i \in 1 .. Len(p.ps) PROVE Ok(sub[p.ps[i]][FALSE][FALSE][<<>>])
    <3>1. p.ps[i] \in Nested[n] /\ i \in DOMAIN p.ps
      BY <1>4
    <3>2. Ok(formatPredicate(kind, p.ps[i], FALSE, FALSE, <<>>))
      BY <1>8, <3>1, Zenon DEF AllFit
    <3>3. \A b \in BOOLEAN : Ok(Builder(kind)[n + 1][p.ps[i]][FALSE][b][<<>>]) <=>
                               Ok(Builder(kind)[n][p.ps[i]][FALSE][b][<<>>])
      BY <1>1, <3>1, FitStays
    <3> QED
      BY <1>1, <3>2, <3>3, Zenon DEF formatPredicate, sub
  <2>2. Fit(sub, p.ps, FALSE, Len(p.ps))
    BY <2>1, Zenon DEF Fit
  <2>3. Len(<<>>) = 0
    OBVIOUS
  <2> QED
    BY <1>4, <1>5, <2>2, <2>3
<1> QED
  BY <1>4, <1>5, <1>6, <1>7, <1>8 DEF Pushed

\* What formatPredicate pushes down of any filter.
LEMMA FilterIsPushed ==
  ASSUME NEW kind, NEW p \in Nested[MaxNesting],
         NEW r, r = formatPredicate(kind, p, TRUE, FALSE, <<>>), Ok(r)
  PROVE  Pushed(kind, p, r)
BY OtherIsPushed, ConjunctionIsPushed
\* The clause and the arguments of a query are what formatWhereClause made of the filter.
WhereOf(r) ==
  IF r.where = NoWhere THEN Done(NoClause, <<>>) ELSE formatWhereClause(r.kind, r.filtering, r.where)

PushdownInv ==
  /\ request \in SelectRequests
  /\ query.err = NoError => /\ Ok(WhereOf(request))
                            /\ query.clause = WhereOf(request).out /\ query.args = WhereOf(request).args

\* MakeSelectQuery builds the clause of the request it answers.
LEMMA QueriesAre ==
  ASSUME PushdownInv, MakeSelectQuery
  PROVE  PushdownInv'
<1> DEFINE where == WhereOf(request)
           refused(err) == query' = [NoQuery EXCEPT !.err = err]
           made == [err |-> NoError, select |-> SelectClause(request.what), clause |-> where.out,
                    args |-> where.args, tablets |-> request.shard.tablets]
<1>1. /\ request' = request
      /\ IF NotColumn(request.what) THEN refused("not a column")
         ELSE IF request.table = "" THEN refused("empty table name")
         ELSE IF ~Ok(where) THEN refused(where.err)
         ELSE IF RenderPanics(request) THEN refused("panic")
         ELSE IF RenderError(request) THEN refused("render query text")
         ELSE query' = made
  BY Zenon DEF MakeSelectQuery, WhereOf
<1>2. request' \in SelectRequests /\ WhereOf(request)' = where
  BY <1>1, Zenon DEF PushdownInv, WhereOf
<1>3. ASSUME NEW err, err # NoError, refused(err) PROVE query'.err # NoError
  BY <1>3 DEF NoQuery
<1>4. /\ "not a column" # NoError /\ "empty table name" # NoError
      /\ "panic" # NoError /\ "render query text" # NoError
  BY Zenon DEF NoError
<1> HIDE DEF where, refused, made
<1>5. \/ query'.err # NoError
      \/ Ok(where) /\ query' = made
  <2>1. CASE NotColumn(request.what)
    BY <1>1, <1>3, <1>4, <2>1, Zenon
  <2>2. CASE ~NotColumn(request.what) /\ request.table = ""
    BY <1>1, <1>3, <1>4, <2>2, Zenon
  <2>3. CASE ~NotColumn(request.what) /\ request.table # "" /\ ~Ok(where)
    BY <1>1, <1>3, <2>3, Zenon DEF Ok
  <2>4. CASE /\ ~NotColumn(request.what) /\ request.table # "" /\ Ok(where)
             /\ RenderPanics(request) \/ RenderError(request)
    BY <1>1, <1>3, <1>4, <2>4, Zenon
  <2>5. CASE /\ ~NotColumn(request.what) /\ request.table # "" /\ Ok(where)
             /\ ~RenderPanics(request) /\ ~RenderError(request)
    BY <1>1, <2>5, Zenon
  <2> QED
    BY <2>1, <2>2, <2>3, <2>4, <2>5
<1>6. made.clause = where.out /\ made.args = where.args
  BY DEF made
<1>7. query'.err = NoError => Ok(where) /\ query'.clause = where.out /\ query'.args = where.args
  BY <1>5, <1>6
<1> QED
  BY <1>2, <1>7 DEF PushdownInv

\* Whatever the request, the clause and the arguments of the query are what formatWhereClause made of the
\* filter, or nothing where the filtering mode allows an error to be passed over.
THEOREM PushdownInvariant == PushdownSpec => []PushdownInv
<1>1. PushdownInit => PushdownInv
  <2>1. NoQuery.err # NoError
    BY Zenon DEF NoQuery, NoError
  <2> QED
    BY <2>1 DEF PushdownInit, PushdownInv
<1>2. PushdownInv /\ [PushdownNext]_pushdownVars => PushdownInv'
  <2>1. ASSUME PushdownInv, UNCHANGED pushdownVars PROVE PushdownInv'
    BY <2>1, Zenon DEF PushdownInv, pushdownVars, WhereOf
  <2> QED
    BY <2>1, QueriesAre DEF PushdownNext
<1> QED
  BY <1>1, <1>2, PTL DEF PushdownSpec

\* The clause of a query is empty, or what formatPredicate made of the filter.
LEMMA ClausesAre ==
  ASSUME PushdownInv, Filtered
  PROVE  LET kind == request.kind
             p == request.where
             r == formatPredicate(kind, p, TRUE, FALSE, <<>>)
         IN /\ p \in Nested[MaxNesting] /\ p # NoClause
            /\ \/ query.clause = NoClause /\ request.filtering # "MANDATORY"
               \/ query.clause = r.out /\ query.args = r.args /\ Pushed(kind, p, r) /\ r.out # NoClause
<1> DEFINE kind == request.kind
           p == request.where
           r == formatPredicate(kind, p, TRUE, FALSE, <<>>)
           w == formatWhereClause(kind, request.filtering, p)
<1>1. p # NoWhere /\ Ok(w) /\ query.clause = w.out /\ query.args = w.args
  BY Zenon DEF PushdownInv, Filtered, WhereOf
<1>2. w = IF p = NoFilter THEN FailedWith("invalid request", <<>>)
          ELSE IF request.filtering \in {"UNSPECIFIED", "OPTIONAL"} /\ r.err \in acceptableErrors
          THEN Done(NoClause, r.args)
          ELSE IF request.filtering \notin FilteringModes THEN FailedWith("unknown filtering mode", <<>>)
          ELSE r
  BY Zenon DEF formatWhereClause
<1>3. \A a : ~Ok(FailedWith("invalid request", a)) /\ ~Ok(FailedWith("unknown filtering mode", a))
  BY Zenon DEF FailedWith, Ok, NoError
<1>4. \A n \in Nat : NoClause \notin Nested[n]
  BY PartsBelow DEF NoClause
<1> HIDE DEF p, w, r, kind
<1>5. p # NoFilter
  BY <1>1, <1>2, <1>3, Zenon
<1>6. p \in Nested[MaxNesting] /\ MaxNesting \in Nat
  BY <1>1, <1>5, PushdownAssumption DEF PushdownInv, p
<1>7. CASE w = r
  <2>1. Pushed(kind, p, r)
    BY <1>1, <1>6, <1>7, FilterIsPushed DEF r
  <2>2. r.out # NoClause
    BY <1>4, <1>6, <2>1 DEF Pushed
  <2> QED
    BY <1>1, <1>4, <1>6, <1>7, <2>1, <2>2 DEF kind, p, r
<1>8. CASE w # r
  <2>1. w = Done(NoClause, r.args) /\ request.filtering \in {"UNSPECIFIED", "OPTIONAL"}
    BY <1>1, <1>2, <1>3, <1>8, Zenon
  <2>2. query.clause = NoClause /\ request.filtering # "MANDATORY"
    BY <1>1, <2>1, ResultFields
  <2> QED
    BY <1>4, <1>6, <2>2 DEF kind, p, r
<1> QED
  BY <1>7, <1>8

\* For filters nested to any depth, any rows and any of the sources: the query that is built selects every row
\* the filter selects, selects no other when the whole filter was pushed down, and its placeholders take the
\* arguments in their order (makeSelectQuery, formatWhereClause and the predicate builder under it).
THEOREM FiltersAreFaithful == PushdownSpec => []FilterIsFaithful
<1>1. PushdownInv => FilterIsFaithful
  <2> SUFFICES ASSUME PushdownInv PROVE FilterIsFaithful
    OBVIOUS
  <2> DEFINE kind == request.kind
             p == request.where
             r == formatPredicate(kind, p, TRUE, FALSE, <<>>)
  <2>1. ASSUME Filtered
        PROVE  /\ p # NoClause
               /\ \/ query.clause = NoClause /\ request.filtering # "MANDATORY"
                  \/ query.clause = r.out /\ query.args = r.args /\ Pushed(kind, p, r) /\ r.out # NoClause
    BY <2>1, ClausesAre
  <2>2. conjunctionErrors = {} => AllFit(kind, p)
    BY Zenon DEF conjunctionErrors, AllFit
  <2> HIDE DEF kind, p, r
  <2>3. ASSUME Filtered, NEW row \in Rows, Wanted(row) PROVE Selected(row)
    <3>1. CASE query.clause = NoClause
      BY <3>1 DEF Selected, Eval
    <3>2. CASE query.clause # NoClause
      <4>1. query.clause = r.out /\ query.args = r.args /\ Pushed(kind, p, r) /\ p # NoClause
        BY <2>1, <2>3, <3>2
      <4>2. Meanings[MaxNesting][p][row][<<>>] = 1
        BY <2>3, <4>1 DEF Wanted, Eval, p
      <4>3. Meanings[MaxNesting][r.out][row][r.args] = 1
        BY <4>1, <4>2 DEF Pushed
      <4> QED
        BY <3>2, <4>1, <4>3 DEF Selected, Eval
    <3> QED
      BY <3>1, <3>2
  <2>4. NoRowLost
    BY <2>1, <2>3 DEF NoRowLost
  <2>5. ASSUME Filtered, query.clause # NoClause, conjunctionErrors = {}
        PROVE  InOrder /\ \A row \in Rows : Wanted(row) <=> Selected(row)
    <3>1. query.clause = r.out /\ query.args = r.args /\ Pushed(kind, p, r) /\ p # NoClause
      BY <2>1, <2>5
    <3>2. /\ r.args \in Seq(ValueExprs)
          /\ Means(MaxNesting, p, r.out, r.args) /\ Spans(MaxNesting, r.out, 0, Len(r.args))
      BY <2>2, <2>5, <3>1 DEF Pushed
    <3>3. InOrder
      BY <2>5, <3>1, <3>2 DEF InOrder, Spans
    <3>4. \A row \in Rows : Meanings[MaxNesting][r.out][row][r.args] = Meanings[MaxNesting][p][row][<<>>]
      BY <3>2, ExtendsItself DEF Means
    <3>5. \A row \in Rows : Wanted(row) <=> Selected(row)
      BY <2>5, <3>1, <3>4 DEF Wanted, Selected, Eval, p
    <3> QED
      BY <3>3, <3>5
  <2>6. WholeIsExact
    BY <2>5 DEF WholeIsExact
  <2> QED
    BY <2>4, <2>6 DEF FilterIsFaithful
<1> QED
  BY <1>1, PushdownInvariant, PTL
=============================================================================
