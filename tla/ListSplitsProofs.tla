-------------------------- MODULE ListSplitsProofs ---------------------------
(* The mappings of OpenSearch, of any depth: they follow recursive functions,      *)
(* which are reasoned about by induction over the natural numbers.  And the        *)
(* ListSplits call, for any selects, sources, tablets, retries and capacity of the *)
(* channel.                                                                        *)
EXTENDS ListSplits, Mappings, WellFoundedInduction, TLAPS
-----------------------------------------------------------------------------
(* The mappings *)

\* The order of the natural numbers, as a set of pairs.
Less == {ss \in Nat \X Nat : ss[1] < ss[2]}

\* The order of the natural numbers is well founded.
LEMMA LessWellFounded == IsWellFoundedOn(Less, Nat)
BY NatLessThanWellFounded DEF OpToRel, Less

\* A set of natural numbers that is not empty has a least member.
LEMMA LeastOf ==
  ASSUME NEW T, T \subseteq Nat, T # {}
  PROVE  \E x \in T : \A y \in T : x <= y
<1>1. PICK x \in T : \A y \in T : ~ (<<y, x>> \in Less)
  BY LessWellFounded, WFMin
<1>2. \A y \in T : ~ (y < x)
  BY <1>1 DEF Less
<1>3. \A y \in T : x <= y
  BY <1>2
<1> QED
  BY <1>3

\* Induction over the natural numbers, on a set instead of a formula.
LEMMA SetInduction ==
  ASSUME NEW S, 0 \in S, \A n \in Nat : n \in S => n + 1 \in S
  PROVE  Nat \subseteq S
<1> DEFINE T == Nat \ S
<1> SUFFICES ASSUME T # {} PROVE FALSE
  OBVIOUS
<1>1. PICK x \in T : \A y \in T : x <= y
  BY LeastOf
<1>2. x # 0 /\ x - 1 \in Nat
  OBVIOUS
<1>3. x - 1 \notin S
  BY <1>2
<1> QED
  BY <1>1, <1>2, <1>3

\* The properties, depth by depth.
LEMMA PropertiesAre ==
  Properties = [m \in Nat |-> IF m = 0 THEN PropertiesOver({}) ELSE PropertiesOver(Properties[m - 1])]
<1> DEFINE Step(m, x) == IF m = 0 THEN PropertiesOver({}) ELSE PropertiesOver(x)
           Part(h, n) == h = [m \in 0 .. n |-> Step(m, h[m - 1])]
           part(n) == CHOOSE h : Part(h, n)
           f == [n \in Nat |-> part(n)[n]]
           S == {n \in Nat : \E h : Part(h, n)}
<1>1. \A x, y : Step(0, x) = Step(0, y)
  OBVIOUS
<1> HIDE DEF Step
<1>2. 0 \in S
  <2> DEFINE h0 == [m \in 0 .. 0 |-> Step(0, 0)]
  <2>1. h0 = [m \in 0 .. 0 |-> Step(m, h0[m - 1])]
    <3>1. \A m \in 0 .. 0 : m = 0
      OBVIOUS
    <3> QED
      BY <1>1, <3>1, Zenon
  <2> HIDE DEF h0
  <2> QED
    BY <2>1
<1>3. ASSUME NEW n \in Nat, n \in S PROVE n + 1 \in S
  <2>1. PICK h : Part(h, n)
    BY <1>3
  <2> DEFINE k == [m \in 0 .. (n + 1) |-> Step(m, h[m - 1])]
  <2>2. \A m \in 0 .. n : k[m] = h[m]
    BY <2>1
  <2> HIDE DEF k
  <2>3. \A m \in 0 .. (n + 1) : Step(m, k[m - 1]) = Step(m, h[m - 1])
    <3> TAKE m \in 0 .. (n + 1)
    <3>1. CASE m = 0
      BY <1>1, <3>1
    <3>2. CASE m # 0
      <4>1. k[m - 1] = h[m - 1]
        BY <2>2, <3>2
      <4> QED
        BY <4>1
    <3> QED
      BY <3>1, <3>2
  <2>4. k = [m \in 0 .. (n + 1) |-> Step(m, k[m - 1])]
    BY <2>3, Zenon DEF k
  <2> QED
    BY <2>4
<1>4. \A n \in Nat : Part(part(n), n)
  BY <1>2, <1>3, SetInduction
<1>5. ASSUME NEW a \in Nat, NEW b \in Nat, NEW h, NEW k, Part(h, a), Part(k, b)
      PROVE  \A m \in Nat : m <= a /\ m <= b => h[m] = k[m]
  <2> DEFINE U == {m \in Nat : m <= a /\ m <= b => h[m] = k[m]}
  <2>1. \A m \in Nat : m <= a /\ m <= b => h[m] = Step(m, h[m - 1]) /\ k[m] = Step(m, k[m - 1])
    BY <1>5
  <2>2. 0 \in U
    BY <1>1, <2>1
  <2>3. ASSUME NEW m \in Nat, m \in U PROVE m + 1 \in U
    BY <2>1, <2>3, (m + 1) - 1 = m
  <2> QED
    BY <2>2, <2>3, SetInduction
<1> HIDE DEF part, Part
<1>6. ASSUME NEW n \in Nat PROVE f[n] = Step(n, f[n - 1])
  <2>1. part(n)[n] = Step(n, part(n)[n - 1])
    BY <1>4 DEF Part
  <2>2. CASE n = 0
    BY <1>1, <2>1, <2>2
  <2>3. CASE n # 0
    <3>1. n - 1 \in Nat /\ n - 1 <= n /\ n - 1 <= n - 1
      BY <2>3
    <3>2. part(n)[n - 1] = part(n - 1)[n - 1]
      BY <1>4, <1>5, <3>1
    <3> QED
      BY <2>1, <3>1, <3>2
  <2> QED
    BY <2>2, <2>3
<1>7. f = [n \in Nat |-> Step(n, f[n - 1])]
  BY <1>6
<1> HIDE DEF f
<1> QED
  BY <1>7, Zenon DEF Step, Properties

\* The types, depth by depth.
LEMMA TypesAre ==
  Types = [m \in Nat |-> IF m = 0 THEN TypesOver({}) ELSE TypesOver(Types[m - 1])]
<1> DEFINE Step(m, x) == IF m = 0 THEN TypesOver({}) ELSE TypesOver(x)
           Part(h, n) == h = [m \in 0 .. n |-> Step(m, h[m - 1])]
           part(n) == CHOOSE h : Part(h, n)
           f == [n \in Nat |-> part(n)[n]]
           S == {n \in Nat : \E h : Part(h, n)}
<1>1. \A x, y : Step(0, x) = Step(0, y)
  OBVIOUS
<1> HIDE DEF Step
<1>2. 0 \in S
  <2> DEFINE h0 == [m \in 0 .. 0 |-> Step(0, 0)]
  <2>1. h0 = [m \in 0 .. 0 |-> Step(m, h0[m - 1])]
    <3>1. \A m \in 0 .. 0 : m = 0
      OBVIOUS
    <3> QED
      BY <1>1, <3>1, Zenon
  <2> HIDE DEF h0
  <2> QED
    BY <2>1
<1>3. ASSUME NEW n \in Nat, n \in S PROVE n + 1 \in S
  <2>1. PICK h : Part(h, n)
    BY <1>3
  <2> DEFINE k == [m \in 0 .. (n + 1) |-> Step(m, h[m - 1])]
  <2>2. \A m \in 0 .. n : k[m] = h[m]
    BY <2>1
  <2> HIDE DEF k
  <2>3. \A m \in 0 .. (n + 1) : Step(m, k[m - 1]) = Step(m, h[m - 1])
    <3> TAKE m \in 0 .. (n + 1)
    <3>1. CASE m = 0
      BY <1>1, <3>1
    <3>2. CASE m # 0
      <4>1. k[m - 1] = h[m - 1]
        BY <2>2, <3>2
      <4> QED
        BY <4>1
    <3> QED
      BY <3>1, <3>2
  <2>4. k = [m \in 0 .. (n + 1) |-> Step(m, k[m - 1])]
    BY <2>3, Zenon DEF k
  <2> QED
    BY <2>4
<1>4. \A n \in Nat : Part(part(n), n)
  BY <1>2, <1>3, SetInduction
<1>5. ASSUME NEW a \in Nat, NEW b \in Nat, NEW h, NEW k, Part(h, a), Part(k, b)
      PROVE  \A m \in Nat : m <= a /\ m <= b => h[m] = k[m]
  <2> DEFINE U == {m \in Nat : m <= a /\ m <= b => h[m] = k[m]}
  <2>1. \A m \in Nat : m <= a /\ m <= b => h[m] = Step(m, h[m - 1]) /\ k[m] = Step(m, k[m - 1])
    BY <1>5
  <2>2. 0 \in U
    BY <1>1, <2>1
  <2>3. ASSUME NEW m \in Nat, m \in U PROVE m + 1 \in U
    BY <2>1, <2>3, (m + 1) - 1 = m
  <2> QED
    BY <2>2, <2>3, SetInduction
<1> HIDE DEF part, Part
<1>6. ASSUME NEW n \in Nat PROVE f[n] = Step(n, f[n - 1])
  <2>1. part(n)[n] = Step(n, part(n)[n - 1])
    BY <1>4 DEF Part
  <2>2. CASE n = 0
    BY <1>1, <2>1, <2>2
  <2>3. CASE n # 0
    <3>1. n - 1 \in Nat /\ n - 1 <= n /\ n - 1 <= n - 1
      BY <2>3
    <3>2. part(n)[n - 1] = part(n - 1)[n - 1]
      BY <1>4, <1>5, <3>1
    <3> QED
      BY <2>1, <3>1, <3>2
  <2> QED
    BY <2>2, <2>3
<1>7. f = [n \in Nat |-> Step(n, f[n - 1])]
  BY <1>6
<1> HIDE DEF f
<1> QED
  BY <1>7, Zenon DEF Step, Types

\* The types that inferField makes, depth by depth.
LEMMA InferredIs ==
  ASSUME NEW meta
  PROVE  Inferred(meta) =
           [m \in Nat |-> IF m = 0 THEN InferredOver(Properties[0], <<>>, meta)
                          ELSE InferredOver(Properties[m], Inferred(meta)[m - 1], meta)]
<1> DEFINE Step(m, x) == IF m = 0 THEN InferredOver(Properties[0], <<>>, meta) ELSE InferredOver(Properties[m], x, meta)
           Part(h, n) == h = [m \in 0 .. n |-> Step(m, h[m - 1])]
           part(n) == CHOOSE h : Part(h, n)
           f == [n \in Nat |-> part(n)[n]]
           S == {n \in Nat : \E h : Part(h, n)}
<1>1. \A x, y : Step(0, x) = Step(0, y)
  OBVIOUS
<1> HIDE DEF Step
<1>2. 0 \in S
  <2> DEFINE h0 == [m \in 0 .. 0 |-> Step(0, 0)]
  <2>1. h0 = [m \in 0 .. 0 |-> Step(m, h0[m - 1])]
    <3>1. \A m \in 0 .. 0 : m = 0
      OBVIOUS
    <3> QED
      BY <1>1, <3>1, Zenon
  <2> HIDE DEF h0
  <2> QED
    BY <2>1
<1>3. ASSUME NEW n \in Nat, n \in S PROVE n + 1 \in S
  <2>1. PICK h : Part(h, n)
    BY <1>3
  <2> DEFINE k == [m \in 0 .. (n + 1) |-> Step(m, h[m - 1])]
  <2>2. \A m \in 0 .. n : k[m] = h[m]
    BY <2>1
  <2> HIDE DEF k
  <2>3. \A m \in 0 .. (n + 1) : Step(m, k[m - 1]) = Step(m, h[m - 1])
    <3> TAKE m \in 0 .. (n + 1)
    <3>1. CASE m = 0
      BY <1>1, <3>1
    <3>2. CASE m # 0
      <4>1. k[m - 1] = h[m - 1]
        BY <2>2, <3>2
      <4> QED
        BY <4>1
    <3> QED
      BY <3>1, <3>2
  <2>4. k = [m \in 0 .. (n + 1) |-> Step(m, k[m - 1])]
    BY <2>3, Zenon DEF k
  <2> QED
    BY <2>4
<1>4. \A n \in Nat : Part(part(n), n)
  BY <1>2, <1>3, SetInduction
<1>5. ASSUME NEW a \in Nat, NEW b \in Nat, NEW h, NEW k, Part(h, a), Part(k, b)
      PROVE  \A m \in Nat : m <= a /\ m <= b => h[m] = k[m]
  <2> DEFINE U == {m \in Nat : m <= a /\ m <= b => h[m] = k[m]}
  <2>1. \A m \in Nat : m <= a /\ m <= b => h[m] = Step(m, h[m - 1]) /\ k[m] = Step(m, k[m - 1])
    BY <1>5
  <2>2. 0 \in U
    BY <1>1, <2>1
  <2>3. ASSUME NEW m \in Nat, m \in U PROVE m + 1 \in U
    BY <2>1, <2>3, (m + 1) - 1 = m
  <2> QED
    BY <2>2, <2>3, SetInduction
<1> HIDE DEF part, Part
<1>6. ASSUME NEW n \in Nat PROVE f[n] = Step(n, f[n - 1])
  <2>1. part(n)[n] = Step(n, part(n)[n - 1])
    BY <1>4 DEF Part
  <2>2. CASE n = 0
    BY <1>1, <2>1, <2>2
  <2>3. CASE n # 0
    <3>1. n - 1 \in Nat /\ n - 1 <= n /\ n - 1 <= n - 1
      BY <2>3
    <3>2. part(n)[n - 1] = part(n - 1)[n - 1]
      BY <1>4, <1>5, <3>1
    <3> QED
      BY <2>1, <3>1, <3>2
  <2> QED
    BY <2>2, <2>3
<1>7. f = [n \in Nat |-> Step(n, f[n - 1])]
  BY <1>6
<1> HIDE DEF f
<1> QED
  BY <1>7, Zenon DEF Step, Inferred

\* The declared fields, depth by depth.
LEMMA FieldsAre ==
  ASSUME NEW meta
  PROVE  FieldsBelow(meta) =
           [m \in Nat |-> IF m = 0 THEN FieldsOver(Properties[0], <<>>, meta)
                          ELSE FieldsOver(Properties[m], FieldsBelow(meta)[m - 1], meta)]
<1> DEFINE Step(m, x) == IF m = 0 THEN FieldsOver(Properties[0], <<>>, meta) ELSE FieldsOver(Properties[m], x, meta)
           Part(h, n) == h = [m \in 0 .. n |-> Step(m, h[m - 1])]
           part(n) == CHOOSE h : Part(h, n)
           f == [n \in Nat |-> part(n)[n]]
           S == {n \in Nat : \E h : Part(h, n)}
<1>1. \A x, y : Step(0, x) = Step(0, y)
  OBVIOUS
<1> HIDE DEF Step
<1>2. 0 \in S
  <2> DEFINE h0 == [m \in 0 .. 0 |-> Step(0, 0)]
  <2>1. h0 = [m \in 0 .. 0 |-> Step(m, h0[m - 1])]
    <3>1. \A m \in 0 .. 0 : m = 0
      OBVIOUS
    <3> QED
      BY <1>1, <3>1, Zenon
  <2> HIDE DEF h0
  <2> QED
    BY <2>1
<1>3. ASSUME NEW n \in Nat, n \in S PROVE n + 1 \in S
  <2>1. PICK h : Part(h, n)
    BY <1>3
  <2> DEFINE k == [m \in 0 .. (n + 1) |-> Step(m, h[m - 1])]
  <2>2. \A m \in 0 .. n : k[m] = h[m]
    BY <2>1
  <2> HIDE DEF k
  <2>3. \A m \in 0 .. (n + 1) : Step(m, k[m - 1]) = Step(m, h[m - 1])
    <3> TAKE m \in 0 .. (n + 1)
    <3>1. CASE m = 0
      BY <1>1, <3>1
    <3>2. CASE m # 0
      <4>1. k[m - 1] = h[m - 1]
        BY <2>2, <3>2
      <4> QED
        BY <4>1
    <3> QED
      BY <3>1, <3>2
  <2>4. k = [m \in 0 .. (n + 1) |-> Step(m, k[m - 1])]
    BY <2>3, Zenon DEF k
  <2> QED
    BY <2>4
<1>4. \A n \in Nat : Part(part(n), n)
  BY <1>2, <1>3, SetInduction
<1>5. ASSUME NEW a \in Nat, NEW b \in Nat, NEW h, NEW k, Part(h, a), Part(k, b)
      PROVE  \A m \in Nat : m <= a /\ m <= b => h[m] = k[m]
  <2> DEFINE U == {m \in Nat : m <= a /\ m <= b => h[m] = k[m]}
  <2>1. \A m \in Nat : m <= a /\ m <= b => h[m] = Step(m, h[m - 1]) /\ k[m] = Step(m, k[m - 1])
    BY <1>5
  <2>2. 0 \in U
    BY <1>1, <2>1
  <2>3. ASSUME NEW m \in Nat, m \in U PROVE m + 1 \in U
    BY <2>1, <2>3, (m + 1) - 1 = m
  <2> QED
    BY <2>2, <2>3, SetInduction
<1> HIDE DEF part, Part
<1>6. ASSUME NEW n \in Nat PROVE f[n] = Step(n, f[n - 1])
  <2>1. part(n)[n] = Step(n, part(n)[n - 1])
    BY <1>4 DEF Part
  <2>2. CASE n = 0
    BY <1>1, <2>1, <2>2
  <2>3. CASE n # 0
    <3>1. n - 1 \in Nat /\ n - 1 <= n /\ n - 1 <= n - 1
      BY <2>3
    <3>2. part(n)[n - 1] = part(n - 1)[n - 1]
      BY <1>4, <1>5, <3>1
    <3> QED
      BY <2>1, <3>1, <3>2
  <2> QED
    BY <2>2, <2>3
<1>7. f = [n \in Nat |-> Step(n, f[n - 1])]
  BY <1>6
<1> HIDE DEF f
<1> QED
  BY <1>7, Zenon DEF Step, FieldsBelow

\* The described fields, depth by depth.
LEMMA DescribedAre ==
  TypesBelow =
    [m \in Nat |-> IF m = 0 THEN DescribedOver(Types[0], <<>>)
                   ELSE DescribedOver(Types[m], TypesBelow[m - 1])]
<1> DEFINE Step(m, x) == IF m = 0 THEN DescribedOver(Types[0], <<>>) ELSE DescribedOver(Types[m], x)
           Part(h, n) == h = [m \in 0 .. n |-> Step(m, h[m - 1])]
           part(n) == CHOOSE h : Part(h, n)
           f == [n \in Nat |-> part(n)[n]]
           S == {n \in Nat : \E h : Part(h, n)}
<1>1. \A x, y : Step(0, x) = Step(0, y)
  OBVIOUS
<1> HIDE DEF Step
<1>2. 0 \in S
  <2> DEFINE h0 == [m \in 0 .. 0 |-> Step(0, 0)]
  <2>1. h0 = [m \in 0 .. 0 |-> Step(m, h0[m - 1])]
    <3>1. \A m \in 0 .. 0 : m = 0
      OBVIOUS
    <3> QED
      BY <1>1, <3>1, Zenon
  <2> HIDE DEF h0
  <2> QED
    BY <2>1
<1>3. ASSUME NEW n \in Nat, n \in S PROVE n + 1 \in S
  <2>1. PICK h : Part(h, n)
    BY <1>3
  <2> DEFINE k == [m \in 0 .. (n + 1) |-> Step(m, h[m - 1])]
  <2>2. \A m \in 0 .. n : k[m] = h[m]
    BY <2>1
  <2> HIDE DEF k
  <2>3. \A m \in 0 .. (n + 1) : Step(m, k[m - 1]) = Step(m, h[m - 1])
    <3> TAKE m \in 0 .. (n + 1)
    <3>1. CASE m = 0
      BY <1>1, <3>1
    <3>2. CASE m # 0
      <4>1. k[m - 1] = h[m - 1]
        BY <2>2, <3>2
      <4> QED
        BY <4>1
    <3> QED
      BY <3>1, <3>2
  <2>4. k = [m \in 0 .. (n + 1) |-> Step(m, k[m - 1])]
    BY <2>3, Zenon DEF k
  <2> QED
    BY <2>4
<1>4. \A n \in Nat : Part(part(n), n)
  BY <1>2, <1>3, SetInduction
<1>5. ASSUME NEW a \in Nat, NEW b \in Nat, NEW h, NEW k, Part(h, a), Part(k, b)
      PROVE  \A m \in Nat : m <= a /\ m <= b => h[m] = k[m]
  <2> DEFINE U == {m \in Nat : m <= a /\ m <= b => h[m] = k[m]}
  <2>1. \A m \in Nat : m <= a /\ m <= b => h[m] = Step(m, h[m - 1]) /\ k[m] = Step(m, k[m - 1])
    BY <1>5
  <2>2. 0 \in U
    BY <1>1, <2>1
  <2>3. ASSUME NEW m \in Nat, m \in U PROVE m + 1 \in U
    BY <2>1, <2>3, (m + 1) - 1 = m
  <2> QED
    BY <2>2, <2>3, SetInduction
<1> HIDE DEF part, Part
<1>6. ASSUME NEW n \in Nat PROVE f[n] = Step(n, f[n - 1])
  <2>1. part(n)[n] = Step(n, part(n)[n - 1])
    BY <1>4 DEF Part
  <2>2. CASE n = 0
    BY <1>1, <2>1, <2>2
  <2>3. CASE n # 0
    <3>1. n - 1 \in Nat /\ n - 1 <= n /\ n - 1 <= n - 1
      BY <2>3
    <3>2. part(n)[n - 1] = part(n - 1)[n - 1]
      BY <1>4, <1>5, <3>1
    <3> QED
      BY <2>1, <3>1, <3>2
  <2> QED
    BY <2>2, <2>3
<1>7. f = [n \in Nat |-> Step(n, f[n - 1])]
  BY <1>6
<1> HIDE DEF f
<1> QED
  BY <1>7, Zenon DEF Step, TypesBelow

\* The properties and the types that are one level down.
PropertiesUnder(n) == IF n = 0 THEN {} ELSE Properties[n - 1]
TypesUnder(n) == IF n = 0 THEN {} ELSE Types[n - 1]
InferredUnder(meta, n) == IF n = 0 THEN <<>> ELSE Inferred(meta)[n - 1]
FieldsUnder(meta, n) == IF n = 0 THEN <<>> ELSE FieldsBelow(meta)[n - 1]
DescribedUnder(n) == IF n = 0 THEN <<>> ELSE TypesBelow[n - 1]

\* The levels of the properties and of the types.
LEMMA LevelsAre ==
  ASSUME NEW n \in Nat
  PROVE  Properties[n] = PropertiesOver(PropertiesUnder(n)) /\ Types[n] = TypesOver(TypesUnder(n))
<1>1. Properties[n] = PropertiesOver(PropertiesUnder(n))
  BY PropertiesAre, Zenon DEF PropertiesUnder
<1>2. Types[n] = TypesOver(TypesUnder(n))
  BY TypesAre, Zenon DEF TypesUnder
<1> QED
  BY <1>1, <1>2

\* What the recursion makes of one level.
LEMMA StepsAre ==
  ASSUME NEW meta, NEW n \in Nat
  PROVE  /\ Inferred(meta)[n] = InferredOver(Properties[n], InferredUnder(meta, n), meta)
         /\ FieldsBelow(meta)[n] = FieldsOver(Properties[n], FieldsUnder(meta, n), meta)
         /\ TypesBelow[n] = DescribedOver(Types[n], DescribedUnder(n))
<1>1. Inferred(meta)[n] = InferredOver(Properties[n], InferredUnder(meta, n), meta)
  BY InferredIs, Zenon DEF InferredUnder
<1>2. FieldsBelow(meta)[n] = FieldsOver(Properties[n], FieldsUnder(meta, n), meta)
  BY FieldsAre, Zenon DEF FieldsUnder
<1>3. TypesBelow[n] = DescribedOver(Types[n], DescribedUnder(n))
  BY DescribedAre, Zenon DEF DescribedUnder
<1> QED
  BY <1>1, <1>2, <1>3

\* Why a property cannot be described.
Undescribable(d, meta) ==
  d.id = "unsupported" \/ (d.id = "Struct" /\ d.list /\ meta[d.name] # "list")

\* The type t of a property whose fields are given: described, or failed for a reason.
Described(n, name, meta, t, fields) ==
  IF t = Failed THEN \E d \in fields : Undescribable(d, meta)
  ELSE t \in Types[n] /\ TypesBelow[n][name][t] = fields

DescribedAll(n, meta) ==
  \A name \in Names, p \in Properties[n] :
    Described(n, name, meta, Inferred(meta)[n][name][p], FieldsBelow(meta)[n][name][p])

Ids == {"INT32", "INT64", "FLOAT", "DOUBLE", "BOOL", "UTF8", "TIMESTAMP"}

\* The primitive types.
LEMMA PrimitivesAre ==
  ASSUME NEW type
  PROVE  primitiveOf(type) \in Ids \cup {"unsupported"}
BY DEF primitiveOf, Ids

\* What is described of a type.
LEMMA TypeFields ==
  ASSUME NEW n \in Nat, NEW name \in Names, NEW t \in Types[n]
  PROVE  TypesBelow[n][name][t] =
           {[name |-> name, list |-> t.kind = "list", id |-> t.id]}
           \cup UNION {DescribedUnder(n)[Append(name, m.name)][m.type] : m \in t.members}
<1>1. TypesBelow[n] = DescribedOver(Types[n], DescribedUnder(n))
  BY StepsAre
<1> QED
  BY <1>1 DEF DescribedOver

\* The field that a property declares itself.
OwnField(name, meta, id) == [name |-> name, list |-> name \in DOMAIN meta, id |-> id]

\* What is declared by a property.
LEMMA PropertyFields ==
  ASSUME NEW meta, NEW n \in Nat, NEW name \in Names, NEW p \in Properties[n]
  PROVE  LET fields == FieldsBelow(meta)[n][name][p]
         IN /\ p.type # "object" => fields = {OwnField(name, meta, primitiveOf(p.type))}
            /\ p.type = "object" =>
                 fields = {OwnField(name, meta, "Struct")} \cup
                            UNION {FieldsUnder(meta, n)[Append(name, c.name)][c.property] : c \in p.children}
<1> DEFINE own == [name |-> name, list |-> name \in DOMAIN meta,
                   id |-> IF p.type = "object" THEN "Struct" ELSE primitiveOf(p.type)]
           below == UNION {FieldsUnder(meta, n)[Append(name, c.name)][c.property] : c \in p.children}
<1>1. FieldsBelow(meta)[n] = FieldsOver(Properties[n], FieldsUnder(meta, n), meta)
  BY StepsAre
<1>2. FieldsBelow(meta)[n][name][p] = {own} \cup IF p.type # "object" THEN {} ELSE below
  BY <1>1 DEF FieldsOver
<1>3. p.type # "object" => own = OwnField(name, meta, primitiveOf(p.type))
  BY DEF OwnField
<1>4. p.type = "object" => own = OwnField(name, meta, "Struct")
  BY DEF OwnField
<1> HIDE DEF own, below
<1>5. {own} \cup {} = {own}
  OBVIOUS
<1>6. p.type # "object" => FieldsBelow(meta)[n][name][p] = {OwnField(name, meta, primitiveOf(p.type))}
  BY <1>2, <1>3, <1>5, Zenon
<1>7. p.type = "object" => FieldsBelow(meta)[n][name][p] = {OwnField(name, meta, "Struct")} \cup below
  BY <1>2, <1>4, Zenon
<1> QED
  BY <1>6, <1>7, Zenon DEF below

\* What inferField makes of a property.
LEMMA PropertyTypes ==
  ASSUME NEW meta, NEW n \in Nat, NEW name \in Names, NEW p \in Properties[n]
  PROVE  Inferred(meta)[n][name][p] =
           IF p.type # "object" THEN handleSimpleField(name, p, meta)
           ELSE handleStructField(InferredUnder(meta, n), name, p, meta)
<1>1. Inferred(meta)[n] = InferredOver(Properties[n], InferredUnder(meta, n), meta)
  BY StepsAre
<1> QED
  BY <1>1 DEF InferredOver

\* A field without children.
LEMMA SimpleIsDescribed ==
  ASSUME NEW meta, NEW n \in Nat, NEW name \in Names, NEW p \in Properties[n], p.type # "object"
  PROVE  Described(n, name, meta, Inferred(meta)[n][name][p], FieldsBelow(meta)[n][name][p])
<1> DEFINE id == primitiveOf(p.type)
           listed == name \in DOMAIN meta
           t == Inferred(meta)[n][name][p]
           own == OwnField(name, meta, id)
           fields == FieldsBelow(meta)[n][name][p]
<1>1. id \in Ids \cup {"unsupported"}
  BY PrimitivesAre
<1>2. t = handleSimpleField(name, p, meta)
  BY PropertyTypes, Zenon
<1>3. fields = {own}
  BY PropertyFields
<1>4. own.id = id /\ own = [name |-> name, list |-> listed, id |-> id]
  BY Zenon DEF OwnField
<1> HIDE DEF id, listed, t, own, fields
<1>5. CASE id = "unsupported"
  <2>1. t = Failed
    BY <1>2, <1>5, Zenon DEF handleSimpleField, id
  <2>2. Undescribable(own, meta)
    BY <1>4, <1>5, Zenon DEF Undescribable
  <2> QED
    BY <1>3, <2>1, <2>2, Zenon DEF Described, t, fields
<1>6. CASE id # "unsupported"
  <2> DEFINE kind == IF listed THEN "list" ELSE "optional"
             u == [kind |-> kind, id |-> id, members |-> {}]
  <2>1. t = u
    BY <1>2, <1>6 DEF handleSimpleField, id, listed, Leaf, List
  <2>2. u # Failed
    BY DEF Failed
  <2>3. u \in Types[n]
    <3>1. u \in TypesOver(TypesUnder(n))
      BY <1>1, <1>6 DEF TypesOver, Ids
    <3> QED
      BY <3>1, LevelsAre
  <2>4. [name |-> name, list |-> u.kind = "list", id |-> u.id] = own
    <3>1. (u.kind = "list") = listed
      <4>1. listed \in BOOLEAN
        BY DEF listed
      <4>2. CASE listed
        BY <4>2
      <4>3. CASE ~listed
        BY <4>1, <4>3
      <4> QED
        BY <4>2, <4>3
    <3>2. u.id = id
      OBVIOUS
    <3> QED
      BY <1>4, <3>1, <3>2, Zenon
  <2>5. u.members = {}
    OBVIOUS
  <2> HIDE DEF u
  <2>6. TypesBelow[n][name][u] = {own}
    <3> DEFINE below == UNION {DescribedUnder(n)[Append(name, m.name)][m.type] : m \in u.members}
    <3>0. TypesBelow[n][name][u] = {[name |-> name, list |-> u.kind = "list", id |-> u.id]} \cup below
      BY <2>3, TypeFields, Zenon
    <3>1. TypesBelow[n][name][u] = {own} \cup below
      BY <2>4, <3>0, Zenon
    <3>2. below = {}
      BY <2>5
    <3> HIDE DEF below
    <3> QED
      BY <3>1, <3>2
  <2> QED
    BY <1>3, <2>1, <2>2, <2>3, <2>6, Zenon DEF Described, t, fields
<1> QED
  BY <1>5, <1>6

\* The children of a property are one level down, where there is one.
LEMMA ChildrenBelow ==
  ASSUME NEW n \in Nat, NEW p \in Properties[n], NEW c \in p.children
  PROVE  n # 0 /\ n - 1 \in Nat /\ c.name \in STRING /\ c.property \in Properties[n - 1]
<1>0. Properties[n] = PropertiesOver(PropertiesUnder(n))
  BY LevelsAre, Zenon
<1>1. p \in [type : STRING, children : SUBSET [name : STRING, property : PropertiesUnder(n)]]
  BY <1>0, Zenon DEF PropertiesOver
<1>2. c \in [name : STRING, property : PropertiesUnder(n)]
  <2>1. p.children \in SUBSET [name : STRING, property : PropertiesUnder(n)]
    BY <1>1, Zenon
  <2> QED
    BY <2>1, Zenon
<1>3. c.name \in STRING /\ c.property \in PropertiesUnder(n)
  BY <1>2, Zenon
<1> QED
  BY <1>3 DEF PropertiesUnder

\* A struct, once its children are described.
LEMMA StructIsDescribed ==
  ASSUME NEW meta, NEW n \in Nat, NEW name \in Names, NEW p \in Properties[n], p.type = "object",
         n # 0 => DescribedAll(n - 1, meta)
  PROVE  Described(n, name, meta, Inferred(meta)[n][name][p], FieldsBelow(meta)[n][name][p])
<1> DEFINE t == Inferred(meta)[n][name][p]
           fields == FieldsBelow(meta)[n][name][p]
           own == OwnField(name, meta, "Struct")
           in(c) == Append(name, c.name)
           type(c) == InferredUnder(meta, n)[in(c)][c.property]
           inner(c) == FieldsUnder(meta, n)[in(c)][c.property]
           children == {Member(c.name, type(c)) : c \in p.children}
<1>1. t = handleStructField(InferredUnder(meta, n), name, p, meta)
  BY PropertyTypes
<1>2. fields = {own} \cup UNION {inner(c) : c \in p.children}
  BY PropertyFields
<1>3. \A c \in p.children : n # 0 /\ Described(n - 1, in(c), meta, type(c), inner(c))
  <2> SUFFICES ASSUME NEW c \in p.children
               PROVE  n # 0 /\ Described(n - 1, in(c), meta, type(c), inner(c))
    OBVIOUS
  <2>1. n # 0 /\ c.name \in STRING /\ c.property \in Properties[n - 1]
    BY ChildrenBelow
  <2>2. in(c) \in Names
    BY <2>1 DEF Names
  <2>3. InferredUnder(meta, n) = Inferred(meta)[n - 1] /\ FieldsUnder(meta, n) = FieldsBelow(meta)[n - 1]
    BY <2>1 DEF InferredUnder, FieldsUnder
  <2> QED
    BY <2>1, <2>2, <2>3, Zenon DEF DescribedAll
<1>4. t = IF \E m \in children : m.type = Failed THEN Failed
          ELSE applyMetaAnnotation(name, meta, Struct(children))
  BY <1>1, Zenon DEF handleStructField, childName
<1>5. \A c \in p.children : Member(c.name, type(c)) \in children
  BY Zenon
<1>6. \A m \in children : \E c \in p.children : m = Member(c.name, type(c))
  BY Zenon
<1>7. \A c \in p.children : Member(c.name, type(c)).name = c.name /\ Member(c.name, type(c)).type = type(c)
  BY Zenon DEF Member
<1>8. own.id = "Struct" /\ own.name = name /\ (own.list <=> name \in DOMAIN meta)
  BY Zenon DEF OwnField
<1>9. own \in fields /\ \A c \in p.children : inner(c) \subseteq fields
  BY <1>2, Zenon
<1> HIDE DEF t, fields, own, in, type, inner, children
<1>10. CASE \E m \in children : m.type = Failed
  <2>1. PICK c \in p.children : type(c) = Failed
    BY <1>6, <1>7, <1>10, Zenon
  <2>2. PICK d \in inner(c) : Undescribable(d, meta)
    BY <1>3, <2>1, Zenon DEF Described
  <2>3. d \in fields
    BY <1>9, <2>2, Zenon
  <2>4. t = Failed
    BY <1>4, <1>10, Zenon
  <2> QED
    BY <2>2, <2>3, <2>4, Zenon DEF Described, t, fields
<1>11. CASE ~(\E m \in children : m.type = Failed) /\ name \in DOMAIN meta /\ meta[name] # "list"
  <2>1. t = Failed
    BY <1>4, <1>11, Zenon DEF applyMetaAnnotation
  <2>2. Undescribable(own, meta)
    BY <1>8, <1>11, Zenon DEF Undescribable
  <2> QED
    BY <1>9, <2>1, <2>2, Zenon DEF Described, t, fields
<1>12. CASE ~(\E m \in children : m.type = Failed) /\ (name \in DOMAIN meta => meta[name] = "list")
  <2> DEFINE listed == name \in DOMAIN meta
             kind == IF listed THEN "list" ELSE "optional"
             u == [kind |-> kind, id |-> "Struct", members |-> children]
  <2>1. t = u
    BY <1>4, <1>12 DEF applyMetaAnnotation, Struct, List
  <2>2. u # Failed
    BY DEF Failed
  <2>3. \A c \in p.children : /\ n # 0 /\ type(c) \in TypesUnder(n) /\ c.name \in STRING
                              /\ DescribedUnder(n)[in(c)][type(c)] = inner(c)
    <3> SUFFICES ASSUME NEW c \in p.children
                 PROVE  /\ n # 0 /\ type(c) \in TypesUnder(n) /\ c.name \in STRING
                        /\ DescribedUnder(n)[in(c)][type(c)] = inner(c)
      OBVIOUS
    <3>1. type(c) # Failed
      BY <1>5, <1>7, <1>12, Zenon
    <3>2. n # 0 /\ type(c) \in Types[n - 1] /\ TypesBelow[n - 1][in(c)][type(c)] = inner(c)
      BY <1>3, <3>1, Zenon DEF Described
    <3>3. c.name \in STRING
      BY ChildrenBelow
    <3> QED
      BY <3>2, <3>3, Zenon DEF TypesUnder, DescribedUnder
  <2>4. u \in Types[n]
    <3>1. children \subseteq [name : STRING, type : TypesUnder(n)]
      BY <2>3 DEF children, Member
    <3>2. u \in TypesOver(TypesUnder(n))
      BY <3>1 DEF TypesOver
    <3> QED
      BY <3>2, LevelsAre
  <2>5. u.kind = kind /\ u.id = "Struct" /\ u.members = children
    OBVIOUS
  <2>6. [name |-> name, list |-> u.kind = "list", id |-> u.id] = own
    <3>1. (u.kind = "list") = listed
      <4>1. CASE listed
        BY <2>5, <4>1
      <4>2. CASE ~listed
        BY <2>5, <4>2
      <4> QED
        BY <4>1, <4>2
    <3> HIDE DEF u, listed
    <3> QED
      BY <2>5, <3>1, Zenon DEF own, OwnField, listed
  <2> HIDE DEF u
  <2>7. TypesBelow[n][name][u] = {own} \cup
          UNION {DescribedUnder(n)[Append(name, m.name)][m.type] : m \in children}
    <3>1. TypesBelow[n][name][u] = {[name |-> name, list |-> u.kind = "list", id |-> u.id]} \cup
            UNION {DescribedUnder(n)[Append(name, m.name)][m.type] : m \in u.members}
      BY <2>4, TypeFields, Zenon
    <3> QED
      BY <2>5, <2>6, <3>1, Zenon
  <2>8. \A c \in p.children : LET m == Member(c.name, type(c))
                             IN DescribedUnder(n)[Append(name, m.name)][m.type] = inner(c)
    BY <1>7, <2>3, Zenon DEF in
  <2>9. UNION {DescribedUnder(n)[Append(name, m.name)][m.type] : m \in children} =
          UNION {inner(c) : c \in p.children}
    BY <1>5, <1>6, <2>8, Zenon
  <2>10. TypesBelow[n][name][u] = fields
    BY <1>2, <2>7, <2>9, Zenon
  <2> QED
    BY <2>1, <2>2, <2>4, <2>10, Zenon DEF Described, t, fields
<1> QED
  BY <1>10, <1>11, <1>12, Zenon

\* Every property is described, however deep it is nested: by induction on the depth.
LEMMA EveryPropertyIsDescribed ==
  ASSUME NEW meta
  PROVE  \A n \in Nat : DescribedAll(n, meta)
<1> DEFINE T == {n \in Nat : DescribedAll(n, meta)}
<1>1. \A n \in Nat : (n # 0 => DescribedAll(n - 1, meta)) => DescribedAll(n, meta)
  <2> SUFFICES ASSUME NEW n \in Nat, n # 0 => DescribedAll(n - 1, meta),
                      NEW name \in Names, NEW p \in Properties[n]
               PROVE  Described(n, name, meta, Inferred(meta)[n][name][p], FieldsBelow(meta)[n][name][p])
    BY Zenon DEF DescribedAll
  <2>1. CASE p.type = "object"
    BY <2>1, StructIsDescribed, Zenon
  <2>2. CASE p.type # "object"
    BY <2>2, SimpleIsDescribed, Zenon
  <2> QED
    BY <2>1, <2>2
<1>2. 0 \in T
  BY <1>1
<1>3. \A n \in Nat : n \in T => n + 1 \in T
  <2> SUFFICES ASSUME NEW n \in Nat, n \in T
               PROVE  n + 1 \in T
    OBVIOUS
  <2>1. n \in Nat /\ n + 1 \in Nat /\ n + 1 # 0 /\ n + 1 - 1 = n
    OBVIOUS
  <2>2. DescribedAll(n + 1 - 1, meta)
    BY <2>1
  <2>3. DescribedAll(n + 1, meta)
    BY <1>1, <2>1, <2>2
  <2> QED
    BY <2>1, <2>3, Zenon
<1>4. Nat \subseteq T
  <2> HIDE DEF T
  <2> QED
    BY <1>2, <1>3, SetInduction, Zenon
<1> QED
  BY <1>4, Zenon

\* The columns of an index, and the fields it declares.
ColumnsOf(i) == {Member(f.name, inferField(<<f.name>>, f.property, i.meta)) : f \in i.properties}
DeclaredBy(i) == UNION {FieldsBelow(i.meta)[MaxDepth][<<f.name>>][f.property] : f \in i.properties}

\* The columns are there once the index is described, and it failed for one of them.
MappingsInv ==
  /\ index \in Indices
  /\ columns = {} \/ columns = ColumnsOf(index)
  /\ mappingPc = "ask" => columns = {}
  /\ mappingPc = "described" =>
       columns = ColumnsOf(index) /\ \A c \in columns : c.type # Failed
  /\ mappingPc = "failed" /\ columns # {} => \E c \in columns : c.type = Failed

\* A field of an index is described, or it is one that cannot be.
LEMMA EveryFieldIsDescribed ==
  ASSUME NEW i \in Indices, NEW f \in i.properties
  PROVE  Described(MaxDepth, <<f.name>>, i.meta, inferField(<<f.name>>, f.property, i.meta),
                   FieldsBelow(i.meta)[MaxDepth][<<f.name>>][f.property])
<1>1. f.name \in STRING /\ f.property \in Properties[MaxDepth] /\ MaxDepth \in Nat
  <2>1. f \in [name : STRING, property : Properties[MaxDepth]] /\ MaxDepth \in Nat
    BY MappingsAssumption
  <2> QED
    BY <2>1
<1>2. <<f.name>> \in Names
  BY <1>1 DEF Names
<1>3. DescribedAll(MaxDepth, i.meta)
  BY <1>1, EveryPropertyIsDescribed, Zenon
<1> QED
  BY <1>1, <1>2, <1>3, Zenon DEF DescribedAll, inferField

\* A described index has all its fields in its columns.
LEMMA DescriptionIsWhole ==
  ASSUME NEW i \in Indices, \A c \in ColumnsOf(i) : c.type # Failed
  PROVE  DeclaredBy(i) = UNION {TypesBelow[MaxDepth][<<c.name>>][c.type] : c \in ColumnsOf(i)}
<1> DEFINE type(f) == inferField(<<f.name>>, f.property, i.meta)
           fields(f) == FieldsBelow(i.meta)[MaxDepth][<<f.name>>][f.property]
           all == ColumnsOf(i)
<1>1. \A f \in i.properties : Member(f.name, type(f)) \in all
  BY Zenon DEF ColumnsOf
<1>2. \A c \in all : \E f \in i.properties : c = Member(f.name, type(f))
  BY Zenon DEF ColumnsOf
<1>3. \A f \in i.properties : Member(f.name, type(f)).name = f.name /\ Member(f.name, type(f)).type = type(f)
  BY Zenon DEF Member
<1>4. \A f \in i.properties : Described(MaxDepth, <<f.name>>, i.meta, type(f), fields(f))
  BY EveryFieldIsDescribed, Zenon
<1>5. DeclaredBy(i) = UNION {fields(f) : f \in i.properties}
  BY Zenon DEF DeclaredBy
<1> HIDE DEF type, fields, all
<1>6. \A f \in i.properties : type(f) # Failed
  BY <1>1, <1>3, Zenon DEF all
<1>7. \A f \in i.properties : TypesBelow[MaxDepth][<<f.name>>][type(f)] = fields(f)
  BY <1>4, <1>6, Zenon DEF Described
<1>8. \A f \in i.properties : LET c == Member(f.name, type(f))
                              IN TypesBelow[MaxDepth][<<c.name>>][c.type] = fields(f)
  BY <1>3, <1>7, Zenon
<1>9. UNION {TypesBelow[MaxDepth][<<c.name>>][c.type] : c \in all} = UNION {fields(f) : f \in i.properties}
  BY <1>1, <1>2, <1>8, Zenon
<1> QED
  BY <1>5, <1>9, Zenon DEF all

\* An index fails only for a field that cannot be described.
LEMMA FailureIsDeclared ==
  ASSUME NEW i \in Indices, \E c \in ColumnsOf(i) : c.type = Failed
  PROVE  \E d \in DeclaredBy(i) : Undescribable(d, i.meta)
<1> DEFINE type(f) == inferField(<<f.name>>, f.property, i.meta)
           fields(f) == FieldsBelow(i.meta)[MaxDepth][<<f.name>>][f.property]
<1>1. PICK f \in i.properties : Member(f.name, type(f)).type = Failed
  BY Zenon DEF ColumnsOf
<1>2. type(f) = Failed
  BY <1>1, Zenon DEF Member
<1>3. Described(MaxDepth, <<f.name>>, i.meta, type(f), fields(f))
  BY EveryFieldIsDescribed, Zenon
<1>4. \A d \in fields(f) : d \in DeclaredBy(i)
  BY Zenon DEF DeclaredBy
<1> HIDE DEF type, fields
<1> QED
  BY <1>2, <1>3, <1>4, Zenon DEF Described

\* The invariant of describing an index.
THEOREM MappingsInvariant == MappingsSpec => []MappingsInv
<1>1. MappingsInit => MappingsInv
  BY DEF MappingsInit, MappingsInv
<1>2. MappingsInv /\ [MappingsNext]_mappingVars => MappingsInv'
  <2> SUFFICES ASSUME MappingsInv, [MappingsNext]_mappingVars
               PROVE  MappingsInv'
    OBVIOUS
  <2>1. CASE DescribeIndex
    <3>1. columns' = ColumnsOf(index) /\ index' = index
      BY <2>1, Zenon DEF DescribeIndex, ColumnsOf
    <3>2. mappingPc' = IF \E c \in columns' : c.type = Failed THEN "failed" ELSE "described"
      BY <2>1, Zenon DEF DescribeIndex
    <3>3. ColumnsOf(index)' = ColumnsOf(index)
      BY <3>1, Zenon DEF ColumnsOf
    <3> QED
      BY <3>1, <3>2, <3>3 DEF MappingsInv
  <2>2. CASE NoMapping
    <3>1. columns' = columns /\ index' = index /\ columns = {} /\ mappingPc' \in {"failed", "panic"}
      BY <2>2 DEF NoMapping, MappingsInv
    <3> QED
      BY <3>1 DEF MappingsInv
  <2>3. CASE UNCHANGED mappingVars
    <3>1. columns' = columns /\ index' = index /\ mappingPc' = mappingPc
      BY <2>3 DEF mappingVars
    <3>2. ColumnsOf(index)' = ColumnsOf(index)
      BY <3>1, Zenon DEF ColumnsOf
    <3> QED
      BY <3>1, <3>2, Zenon DEF MappingsInv
  <2> QED
    BY <2>1, <2>2, <2>3 DEF MappingsNext
<1> QED
  BY <1>1, <1>2, PTL DEF MappingsSpec

\* A mapping of any depth is described with every field of the index under its own
\* qualified name and with its own type, and fails only for a field that has none.
THEOREM MappingsAreKept == MappingsSpec => []MappingIsKept
<1>1. MappingsInv => MappingIsKept
  <2> SUFFICES ASSUME MappingsInv
               PROVE  MappingIsKept
    OBVIOUS
  <2>0. index \in Indices
    BY DEF MappingsInv
  <2>1. mappingPc = "described" =>
          DeclaredBy(index) = UNION {TypesBelow[MaxDepth][<<c.name>>][c.type] : c \in columns}
    <3> SUFFICES ASSUME mappingPc = "described"
                 PROVE  DeclaredBy(index) = UNION {TypesBelow[MaxDepth][<<c.name>>][c.type] : c \in columns}
      OBVIOUS
    <3>1. columns = ColumnsOf(index) /\ \A c \in ColumnsOf(index) : c.type # Failed
      BY Zenon DEF MappingsInv
    <3>2. DeclaredBy(index) = UNION {TypesBelow[MaxDepth][<<c.name>>][c.type] : c \in ColumnsOf(index)}
      BY <2>0, <3>1, DescriptionIsWhole, Zenon
    <3> QED
      BY <3>1, <3>2, Zenon
  <2>2. mappingPc = "failed" /\ columns # {} => \E d \in DeclaredBy(index) : Undescribable(d, index.meta)
    <3> SUFFICES ASSUME mappingPc = "failed", columns # {}
                 PROVE  \E d \in DeclaredBy(index) : Undescribable(d, index.meta)
      OBVIOUS
    <3>1. \E c \in ColumnsOf(index) : c.type = Failed
      BY Zenon DEF MappingsInv
    <3> QED
      BY <2>0, <3>1, FailureIsDeclared, Zenon
  <2> QED
    BY <2>1, <2>2, Zenon DEF MappingIsKept, DeclaredBy, Undescribable
<1> QED
  BY <1>1, MappingsInvariant, PTL
-----------------------------------------------------------------------------
(* ListSplits *)

AtRest(s) == pc[s] \in {"idle", "end"}

\* The sources work only between Resolve and GroupDone, which waits for all of them,
\* and the handler ends only after the provider.
Joined ==
  /\ pc \in [Sources -> {"idle", "connect", "query", "emit", "end"}]
  /\ prov # "group" => \A s \in Sources : AtRest(s)
  /\ handler = "done" => prov = "gone"

\* The sources start at rest.
LEMMA InitJoined == Init => Joined
  BY DEF Init, Joined, AtRest, FirstProvider

\* A step of a source is one of the group.
LEMMA SourceJoined ==
  ASSUME Joined, NEW s \in Sources, Source(s) PROVE Joined'
<1>1. /\ pc[s] \notin {"idle", "end"} /\ UNCHANGED <<handler, prov>>
      /\ \/ pc' = pc \/ \E x \in {"query", "emit", "end"} : pc' = [pc EXCEPT ![s] = x]
  BY DEF Source, Connect, SourceFails, NextTablet, RetryQuery, TabletsKnown, Emit, SendGivesUp,
         SourceDone, streamVars
<1>2. prov = "group"
  BY <1>1 DEF Joined, AtRest
<1> QED
  BY <1>1, <1>2, SMTT(60) DEF Joined

\* Every step keeps the provider ahead of its sources, and the handler behind it.
LEMMA StepJoined == Joined /\ [Next]_vars => Joined'
<1> SUFFICES ASSUME Joined, [Next]_vars PROVE Joined'
  OBVIOUS
<1>1. CASE \E s \in Sources : Source(s)
  BY <1>1, SourceJoined, SMTT(60)
<1>2. CASE Resolve
  <2>1. prov' = "group" /\ handler' = handler /\ handler # "done"
    BY <1>2 DEF Resolve, Joined, streamVars
  <2>2. pc' \in [Sources -> {"idle", "connect", "query", "emit", "end"}]
    BY <1>2 DEF Resolve
  <2> QED
    BY <2>1, <2>2, Zenon DEF Joined
<1>3. CASE ResolveFails \/ GroupDone \/ Report \/ CloseChan
  BY <1>3 DEF ResolveFails, GroupDone, Report, CloseChan, Joined, AtRest, streamVars
<1>4. CASE NextSelect
  BY <1>4 DEF NextSelect, StreamerReturned, FirstProvider, Joined, AtRest
<1>5. CASE AllListed \/ ReplyError
  BY <1>5, SMTT(60) DEF AllListed, ReplyError, StreamerReturned, Joined, AtRest, provVars
<1>6. CASE Receive \/ ChanExhausted \/ ReceiveErr \/ ContextDone \/ SendSplit \/ SendFails
  BY <1>6, SMTT(60) DEF Receive, ChanExhausted, ReceiveErr, ContextDone, SendSplit, SendFails, Joined,
              AtRest, provVars
<1>7. CASE Cancel \/ Finished \/ UNCHANGED vars
  BY <1>7 DEF Cancel, Finished, vars, streamVars, provVars, Joined, AtRest
<1> QED
  BY <1>1, <1>2, <1>3, <1>4, <1>5, <1>6, <1>7, SMTT(60) DEF Next, Provider, Streamer

\* When the handler of ListSplits returns, the goroutine of the provider and those of
\* its sources have returned, whatever failed and whoever left: the deferred wg.Wait of
\* Run and errGroup.Wait of the logging provider.
THEOREM NothingLeftBehind == Spec => []NoOrphans
<1>1. Joined => NoOrphans
  BY DEF Joined, NoOrphans, AtRest
<1> QED
  BY <1>1, InitJoined, StepJoined, PTL DEF Spec
-----------------------------------------------------------------------------
\* An error ends the handler, and a handler that has ended has no streamer at work.
Ended ==
  /\ \E S : sent \in Seq(S)
  /\ ErrorIsLast
  /\ handler = "done" => streamer \in {"ok", "err"}

\* What one more message does to the messages before it.
LEMMA OneMore ==
  ASSUME NEW m, \E S : sent \in Seq(S), sent' = Append(sent, m)
  PROVE  /\ \E S : sent' \in Seq(S)
         /\ Len(sent) \in Nat /\ Len(sent') = Len(sent) + 1
         /\ DOMAIN sent = 1 .. Len(sent) /\ DOMAIN sent' = 1 .. Len(sent')
         /\ \A k \in DOMAIN sent : sent'[k] = sent[k]
         /\ sent'[Len(sent')] = m
<1>1. PICK S : sent \in Seq(S)
  OBVIOUS
<1>2. sent \in Seq(S \cup {m}) /\ m \in S \cup {m}
  BY <1>1
<1>3. sent' \in Seq(S \cup {m})
  BY <1>2
<1>4. \E T : sent' \in Seq(T)
  BY <1>3
<1>5. /\ Len(sent) \in Nat /\ Len(sent') = Len(sent) + 1
      /\ DOMAIN sent = 1 .. Len(sent) /\ DOMAIN sent' = 1 .. Len(sent')
  BY <1>2, <1>3
<1>6. /\ \A k \in DOMAIN sent : sent'[k] = sent[k]
      /\ sent'[Len(sent')] = m
  BY <1>2, <1>5, SMTT(60)
<1> QED
  BY <1>4, <1>5, <1>6, SMTT(60)

\* Nothing has been sent at the beginning.
LEMMA InitEnded == Init => Ended
<1> SUFFICES ASSUME Init PROVE Ended
  OBVIOUS
<1>1. sent = <<>> /\ sent \in Seq({}) /\ handler = "running"
  BY DEF Init
<1>2. ErrorIsLast
  BY <1>1 DEF ErrorIsLast
<1> QED
  BY <1>1, <1>2, SMTT(60) DEF Ended

\* Every step keeps an error the last message.
LEMMA StepEnded == Ended /\ [Next]_vars => Ended'
<1> SUFFICES ASSUME Ended, [Next]_vars PROVE Ended'
  OBVIOUS
<1>1. CASE UNCHANGED <<handler, sent, streamer>>
  BY <1>1 DEF Ended, ErrorIsLast
<1>2. CASE Receive \/ ChanExhausted \/ ReceiveErr \/ ContextDone \/ SendFails
  <2>1. UNCHANGED <<handler, sent>> /\ handler # "done"
    BY <1>2 DEF Receive, ChanExhausted, ReceiveErr, ContextDone, SendFails, Ended
  <2> QED
    BY <2>1, SMTT(60) DEF Ended, ErrorIsLast
<1>3. CASE NextSelect \/ AllListed
  <2>1. /\ handler = "running" /\ sent' = sent
        /\ handler' = "running" \/ (handler' = "done" /\ streamer' = "ok")
    BY <1>3, SMTT(60) DEF NextSelect, AllListed
  <2> QED
    BY <2>1 DEF Ended, ErrorIsLast
<1>4. CASE SendSplit
  <2>1. /\ handler # "done" /\ handler' = handler
        /\ sent' = Append(sent, SplitMessage(counter, cur)) /\ SplitMessage(counter, cur).kind = "split"
    BY <1>4 DEF SendSplit, SplitMessage, Ended
  <2>2. /\ \E S : sent' \in Seq(S)
        /\ \A k \in DOMAIN sent' : k \in DOMAIN sent \/ k = Len(sent')
        /\ \A k \in DOMAIN sent : sent'[k] = sent[k]
        /\ sent'[Len(sent')] = SplitMessage(counter, cur)
    BY <2>1, OneMore, SMTT(60) DEF Ended
  <2>3. \A k \in DOMAIN sent' : sent'[k].kind # "error"
    BY <2>1, <2>2, SMTT(60) DEF Ended, ErrorIsLast
  <2> QED
    BY <2>1, <2>2, <2>3, SMTT(60) DEF Ended, ErrorIsLast
<1>5. CASE ReplyError
  <2>1. handler = "running" /\ handler' = "done" /\ streamer' \in {"ok", "err"}
    BY <1>5 DEF ReplyError
  <2>2. \A k \in DOMAIN sent : sent[k].kind # "error"
    BY <2>1 DEF Ended, ErrorIsLast
  <2>3. CASE sent' = sent
    BY <2>1, <2>2, <2>3, SMTT(60) DEF Ended, ErrorIsLast
  <2>4. CASE sent' = Append(sent, ErrorMessage)
    <3>1. /\ \E S : sent' \in Seq(S)
          /\ \A k \in DOMAIN sent' : k \in DOMAIN sent \/ k = Len(sent')
          /\ \A k \in DOMAIN sent : sent'[k] = sent[k]
      BY <2>4, OneMore, SMTT(60) DEF Ended
    <3> QED
      BY <2>1, <2>2, <3>1, SMTT(60) DEF Ended, ErrorIsLast
  <2> QED
    BY <1>5, <2>3, <2>4, SMTT(60) DEF ReplyError
<1>6. CASE Provider \/ \E s \in Sources : Source(s)
  <2>1. UNCHANGED <<handler, sent, streamer>>
    BY <1>6, Zenon DEF Provider, Resolve, ResolveFails, GroupDone, Report, CloseChan, Source, Connect,
                SourceFails, NextTablet, RetryQuery, TabletsKnown, Emit, SendGivesUp, SourceDone,
                streamVars
  <2> QED
    BY <1>1, <2>1, SMTT(60)
<1>7. CASE Cancel \/ Finished \/ UNCHANGED vars
  BY <1>1, <1>7, SMTT(60) DEF Cancel, Finished, vars, streamVars
<1> QED
  BY <1>2, <1>3, <1>4, <1>5, <1>6, <1>7, SMTT(60) DEF Next, Streamer

\* The handler of ListSplits sends nothing after an error, of whichever select it is:
\* it returns instead of listing the selects that are left.
THEOREM ErrorEndsListing == Spec => []ErrorIsLast
<1>1. Ended => ErrorIsLast
  BY DEF Ended
<1> QED
  BY <1>1, InitEnded, StepEnded, PTL DEF Spec
-----------------------------------------------------------------------------
(* Nothing is lost on the way from a source to the client.                         *)

Tablets(i, s) == Selects[i].shards[s]

\* The splits on their way and the ones the client has, in the order in which it
\* receives them: sent, the one in the hands of the streamer, those in the channel.
FlowOf(msgs, i, rest) ==
  [k \in 1 .. Len(msgs) + Len(rest) |->
     IF k <= Len(msgs) THEN [sel |-> msgs[k].sel, split |-> msgs[k].split]
     ELSE [sel |-> i, split |-> rest[k - Len(msgs)]]]

OnTheWay == IF streamer = "send" THEN <<cur>> \o chan ELSE chan
Flow == FlowOf(sent, sel, OnTheWay)

\* at[k] is the place of the k-th tablet of source s of select i in the flow f, for
\* the first m, and no split of that source is among or after them.
PlacedAt(f, i, s, m, at) ==
  /\ \A k, l \in 1 .. m : k < l => at[k] < at[l]
  /\ \A k \in 1 .. m : f[at[k]] = [sel |-> i, split |-> [src |-> s, tablet |-> Tablets(i, s)[k]]]
  /\ \A p \in DOMAIN f :
       f[p].sel = i /\ f[p].split.src = s /\ (\E k \in 1 .. m : at[k] <= p) =>
         \E k \in 1 .. m : at[k] = p

Placed(f, i, s, m) == \E at \in [1 .. m -> DOMAIN f] : PlacedAt(f, i, s, m, at)

\* q ends with the first n tablets, those of this attempt of the query.
Gathered(i, s, q, n) ==
  /\ n \in 0 .. Len(Tablets(i, s)) /\ n <= Len(q)
  /\ \A k \in 1 .. n : q[Len(q) - n + k] = Tablets(i, s)[k]

\* The last tablets are at the end of q and the others in the flow f; what precedes
\* them comes from attempts that were repeated.
Handed(f, i, s, q) ==
  LET n == Len(Tablets(i, s)) IN
  \E left \in 0 .. n :
    /\ left <= Len(q) /\ (left < n => left = Len(q))
    /\ \A k \in 1 .. left : q[Len(q) - left + k] = Tablets(i, s)[n - left + k]
    /\ Placed(f, i, s, n - left)

\* What the sources of the select in hand have done.
Working ==
  \A s \in SourcesOf(sel) :
    /\ pc[s] = "connect" => ids[s] = <<>> /\ pos[s] = 0
    /\ pc[s] = "query" => Gathered(sel, s, ids[s], pos[s])
    /\ pc[s] \in {"emit", "end"} => Handed(Flow, sel, s, ids[s])
    /\ pc[s] = "end" => ids[s] = <<>>
    /\ pc[s] = "idle" => prov = "resolve"

\* What the handler and the streamer owe the client, unless they owe it an error.
Owed ==
  /\ \A i \in 1 .. sel - 1 : i \notin erred =>
       \A s \in SourcesOf(i) : Placed(Flow, i, s, Len(Tablets(i, s)))
  /\ sel \notin erred => Working
  /\ streamer = "ok" => closed /\ chan = <<>>

Messages == [kind : {"split", "error"}, sel : Nat, id : Nat, split : Splits \cup {NoSplit}]

FlowTypeOK ==
  /\ handler \in {"running", "done"}
  /\ sel \in 1 .. Len(Selects)
  /\ streamer \in {"select", "send", "ok", "err"}
  /\ cur \in Splits \cup {NoSplit} /\ counter \in Nat
  /\ chan \in Seq(Splits)
  /\ sent \in Seq(Messages)
  /\ ids \in [Sources -> Seq(Nat)]
  /\ pos \in [Sources -> Nat]
  /\ \A s \in Sources : ~AtRest(s) => s \in SourcesOf(sel)
  /\ closed => prov = "gone"
  /\ streamer = "send" => cur \in Splits

Complete ==
  /\ FlowTypeOK
  /\ ~ErrorSent /\ streamer # "err" => Owed
  /\ handler = "done" /\ streamer = "err" => ErrorSent \/ canceled
  /\ handler = "done" => streamer \in {"ok", "err"}
  /\ handler = "done" /\ streamer = "ok" => sel = Len(Selects)

\* The fields of an element of the flow.
LEMMA RecordOf ==
  ASSUME NEW e, NEW a, NEW b, e = [sel |-> a, split |-> b] PROVE e.sel = a /\ e.split = b
  OBVIOUS

\* None of the tablets are anywhere.
LEMMA PlacedNone ==
  ASSUME NEW f, NEW i, NEW s PROVE Placed(f, i, s, 0)
<1> DEFINE none == [k \in 1 .. 0 |-> 1]
<1>1. none \in [1 .. 0 -> DOMAIN f]
  BY SMT
<1>2. PlacedAt(f, i, s, 0, none)
  BY SMT DEF PlacedAt
<1> QED
  BY <1>1, <1>2, Zenon DEF Placed

\* A split of another source or select may follow.
LEMMA PlacedMore ==
  ASSUME NEW f, NEW g, NEW N \in Nat, DOMAIN f = 1 .. N, DOMAIN g = 1 .. N + 1,
         \A k \in 1 .. N : g[k] = f[k], NEW i, NEW s, NEW m \in Nat,
         ~(g[N + 1].sel = i /\ g[N + 1].split.src = s), Placed(f, i, s, m)
  PROVE  Placed(g, i, s, m)
<1>0. PICK at \in [1 .. m -> 1 .. N] : PlacedAt(f, i, s, m, at)
  BY Zenon DEF Placed
<1>1. /\ \A k, l \in 1 .. m : k < l => at[k] < at[l]
      /\ \A k \in 1 .. m : f[at[k]] = [sel |-> i, split |-> [src |-> s, tablet |-> Tablets(i, s)[k]]]
      /\ \A p \in 1 .. N :
           f[p].sel = i /\ f[p].split.src = s /\ (\E k \in 1 .. m : at[k] <= p) =>
             \E k \in 1 .. m : at[k] = p
  BY <1>0 DEF PlacedAt
<1>2. at \in [1 .. m -> DOMAIN g]
  BY <1>1
<1>3. \A k \in 1 .. m : g[at[k]] = [sel |-> i, split |-> [src |-> s, tablet |-> Tablets(i, s)[k]]]
  BY <1>1
<1>4. \A p \in 1 .. N + 1 :
        g[p].sel = i /\ g[p].split.src = s /\ (\E k \in 1 .. m : at[k] <= p) =>
          \E k \in 1 .. m : at[k] = p
  <2> SUFFICES ASSUME NEW p \in 1 .. N + 1, g[p].sel = i, g[p].split.src = s,
                      \E k \in 1 .. m : at[k] <= p
               PROVE  \E k \in 1 .. m : at[k] = p
    OBVIOUS
  <2>1. p \in 1 .. N
    OBVIOUS
  <2> QED
    BY <1>1, <2>1
<1>5. PlacedAt(g, i, s, m, at)
  BY <1>1, <1>3, <1>4, Zenon DEF PlacedAt
<1> QED
  BY <1>2, <1>5, Zenon DEF Placed

\* The next tablet of the source follows those that are there.
LEMMA PlacedOne ==
  ASSUME NEW f, NEW g, NEW N \in Nat, DOMAIN f = 1 .. N, DOMAIN g = 1 .. N + 1,
         \A k \in 1 .. N : g[k] = f[k], NEW i, NEW s, NEW m \in Nat,
         g[N + 1] = [sel |-> i, split |-> [src |-> s, tablet |-> Tablets(i, s)[m + 1]]],
         Placed(f, i, s, m)
  PROVE  Placed(g, i, s, m + 1)
<1>0. PICK at \in [1 .. m -> 1 .. N] : PlacedAt(f, i, s, m, at)
  BY Zenon DEF Placed
<1>1. /\ \A k, l \in 1 .. m : k < l => at[k] < at[l]
      /\ \A k \in 1 .. m : f[at[k]] = [sel |-> i, split |-> [src |-> s, tablet |-> Tablets(i, s)[k]]]
      /\ \A p \in 1 .. N :
           f[p].sel = i /\ f[p].split.src = s /\ (\E k \in 1 .. m : at[k] <= p) =>
             \E k \in 1 .. m : at[k] = p
  BY <1>0, Zenon DEF PlacedAt
<1> DEFINE on == [k \in 1 .. m + 1 |-> IF k <= m THEN at[k] ELSE N + 1]
<1>2. /\ on \in [1 .. m + 1 -> DOMAIN g] /\ on[m + 1] = N + 1
      /\ \A k \in 1 .. m : on[k] = at[k] /\ on[k] \in 1 .. N
  BY <1>1
<1>3. \A k \in 1 .. m + 1 : k \in 1 .. m \/ k = m + 1
  OBVIOUS
<1> HIDE DEF on
<1>4. \A k, l \in 1 .. m + 1 : k < l => on[k] < on[l]
  BY <1>1, <1>2
<1>5. \A k \in 1 .. m + 1 : g[on[k]] = [sel |-> i, split |-> [src |-> s, tablet |-> Tablets(i, s)[k]]]
  <2>1. \A k \in 1 .. m : g[on[k]] = f[at[k]]
    BY <1>2
  <2> QED
    BY <1>1, <1>2, <1>3, <2>1
<1>6. \A p \in 1 .. N + 1 :
        g[p].sel = i /\ g[p].split.src = s /\ (\E k \in 1 .. m + 1 : on[k] <= p) =>
          \E k \in 1 .. m + 1 : on[k] = p
  <2> SUFFICES ASSUME NEW p \in 1 .. N + 1, g[p].sel = i, g[p].split.src = s,
                      NEW k \in 1 .. m + 1, on[k] <= p
               PROVE  \E l \in 1 .. m + 1 : on[l] = p
    OBVIOUS
  <2>1. CASE p = N + 1
    BY <1>2, <2>1
  <2>2. CASE p # N + 1
    <3>1. p \in 1 .. N /\ k \in 1 .. m /\ at[k] <= p /\ g[p] = f[p]
      BY <1>2, <1>3, <2>2
    <3>2. PICK l \in 1 .. m : at[l] = p
      BY <1>1, <3>1
    <3> QED
      BY <1>2, <3>2
  <2> QED
    BY <2>1, <2>2
<1>7. PlacedAt(g, i, s, m + 1, on)
  BY <1>4, <1>5, <1>6, Zenon DEF PlacedAt
<1> QED
  BY <1>2, <1>7, Zenon DEF Placed

\* A message that leaves the hands of the streamer keeps its place.
LEMMA FlowSend ==
  ASSUME NEW msgs \in Seq(Messages), NEW rest \in Seq(Splits), NEW m, NEW x, NEW i,
         m.sel = i, m.split = x
  PROVE  FlowOf(Append(msgs, m), i, rest) = FlowOf(msgs, i, <<x>> \o rest)
<1> DEFINE a == Len(msgs)
           b == Len(rest)
<1>1. a \in Nat /\ b \in Nat
  OBVIOUS
<1>2. /\ Len(Append(msgs, m)) = a + 1 /\ Append(msgs, m)[a + 1] = m
      /\ \A k \in 1 .. a : Append(msgs, m)[k] = msgs[k]
  OBVIOUS
<1>3. /\ Len(<<x>> \o rest) = b + 1 /\ (<<x>> \o rest)[1] = x
      /\ \A k \in 1 .. b : (<<x>> \o rest)[k + 1] = rest[k]
  OBVIOUS
<1> DEFINE r == <<x>> \o rest
           q == Append(msgs, m)
<1> HIDE DEF a, b, r, q
<1>4. \A k \in 1 .. a + 1 + b :
        (IF k <= a + 1 THEN [sel |-> q[k].sel, split |-> q[k].split]
         ELSE [sel |-> i, split |-> rest[k - (a + 1)]])
        = (IF k <= a THEN [sel |-> msgs[k].sel, split |-> msgs[k].split]
           ELSE [sel |-> i, split |-> r[k - a]])
  <2> TAKE k \in 1 .. a + 1 + b
  <2>1. CASE k <= a
    BY <1>1, <1>2, <2>1 DEF q
  <2>2. CASE k = a + 1
    <3>1. k - a = 1 /\ ~(k <= a) /\ k <= a + 1
      BY <1>1, <2>2
    <3> QED
      BY <1>2, <1>3, <2>2, <3>1 DEF q, r
  <2>3. CASE k > a + 1
    <3>1. /\ k - (a + 1) \in 1 .. b /\ k - a = (k - (a + 1)) + 1 /\ ~(k <= a) /\ ~(k <= a + 1)
      BY <1>1, <2>3
    <3>2. r[k - a] = rest[k - (a + 1)]
      BY <1>3, <3>1, Zenon DEF r
    <3> QED
      BY <3>1, <3>2
  <2> QED
    BY <1>1, <2>1, <2>2, <2>3
<1>5. Len(q) = a + 1 /\ Len(r) = b + 1 /\ (a + 1) + b = a + (b + 1) /\ (a + 1) + b = a + 1 + b
  BY <1>1, <1>2, <1>3 DEF q, r
<1> QED
  BY <1>4, <1>5, Zenon DEF FlowOf, q, r, a, b

\* A split that enters the channel takes the place after the last one.
LEMMA FlowEmit ==
  ASSUME NEW msgs \in Seq(Messages), NEW rest \in Seq(Splits), NEW x \in Splits, NEW i,
         NEW f, f = FlowOf(msgs, i, rest), NEW g, g = FlowOf(msgs, i, Append(rest, x)),
         NEW N, N = Len(msgs) + Len(rest)
  PROVE  /\ N \in Nat /\ DOMAIN f = 1 .. N /\ DOMAIN g = 1 .. N + 1
         /\ \A k \in 1 .. N : g[k] = f[k]
         /\ g[N + 1] = [sel |-> i, split |-> x]
<1> DEFINE a == Len(msgs)
           b == Len(rest)
           r == Append(rest, x)
<1>1. a \in Nat /\ b \in Nat /\ N = a + b /\ N \in Nat /\ (a + b) + 1 = a + (b + 1)
  OBVIOUS
<1>2. Len(r) = b + 1 /\ r[b + 1] = x /\ \A k \in 1 .. b : r[k] = rest[k]
  OBVIOUS
<1> HIDE DEF r
<1>3. DOMAIN f = 1 .. N /\ DOMAIN g = 1 .. N + 1
  BY <1>1, <1>2 DEF FlowOf, r
<1>4. ASSUME NEW k \in 1 .. N PROVE g[k] = f[k]
  <2>1. k \in 1 .. N + 1 /\ (~(k <= a) => k - a \in 1 .. b)
    BY <1>1
  <2> QED
    BY <1>1, <1>2, <2>1 DEF FlowOf, r
<1>5. g[N + 1] = [sel |-> i, split |-> x]
  <2>1. N + 1 \in 1 .. N + 1 /\ ~(N + 1 <= a) /\ (N + 1) - a = b + 1
    BY <1>1
  <2> QED
    BY <1>1, <1>2, <2>1 DEF FlowOf, r
<1> QED
  BY <1>1, <1>3, <1>4, <1>5

\* g is f with the element e added at the end.
GrowsBy(f, g, n, e) ==
  /\ n \in Nat /\ DOMAIN f = 1 .. n /\ DOMAIN g = 1 .. n + 1
  /\ \A k \in 1 .. n : g[k] = f[k]
  /\ g[n + 1] = e

\* The same with the flows themselves.
LEMMA FlowGrows ==
  ASSUME NEW msgs \in Seq(Messages), NEW rest \in Seq(Splits), NEW x \in Splits, NEW i
  PROVE  GrowsBy(FlowOf(msgs, i, rest), FlowOf(msgs, i, Append(rest, x)), Len(msgs) + Len(rest),
                 [sel |-> i, split |-> x])
BY FlowEmit DEF GrowsBy

\* With nothing on the way, the flow is what was sent, whichever select is next.
LEMMA FlowSent ==
  ASSUME NEW msgs \in Seq(Messages), NEW i, NEW j
  PROVE  /\ FlowOf(msgs, i, <<>>) = FlowOf(msgs, j, <<>>)
         /\ DOMAIN FlowOf(msgs, i, <<>>) = 1 .. Len(msgs)
         /\ \A k \in 1 .. Len(msgs) :
              FlowOf(msgs, i, <<>>)[k] = [sel |-> msgs[k].sel, split |-> msgs[k].split]
<1>1. Len(msgs) \in Nat /\ Len(msgs) + Len(<<>>) = Len(msgs) /\ \A k \in 1 .. Len(msgs) : k <= Len(msgs)
  OBVIOUS
<1> QED
  BY <1>1 DEF FlowOf

\* The places of the tablets in the flow are those of their messages.
LEMMA PlacedIsSent ==
  ASSUME FlowTypeOK, ~ErrorSent, NEW i, NEW s, Tablets(i, s) \in Seq(Nat),
         Placed(FlowOf(sent, sel, <<>>), i, s, Len(Tablets(i, s)))
  PROVE  SourceSent(i, s)
<1>1. PICK f : f = FlowOf(sent, sel, <<>>)
  OBVIOUS
<1>2. /\ DOMAIN f = DOMAIN sent /\ DOMAIN sent = 1 .. Len(sent)
      /\ \A k \in DOMAIN sent : f[k] = [sel |-> sent[k].sel, split |-> sent[k].split]
      /\ \A k \in DOMAIN sent : f[k].sel = sent[k].sel /\ f[k].split = sent[k].split
  <2>1. sent \in Seq(Messages) /\ DOMAIN sent = 1 .. Len(sent)
    BY DEF FlowTypeOK
  <2>2. /\ DOMAIN f = 1 .. Len(sent)
        /\ \A k \in 1 .. Len(sent) : f[k] = [sel |-> sent[k].sel, split |-> sent[k].split]
    BY <1>1, <2>1, FlowSent, Zenon
  <2>3. \A k \in DOMAIN sent : f[k].sel = sent[k].sel /\ f[k].split = sent[k].split
    BY <2>1, <2>2
  <2> QED
    BY <2>1, <2>2, <2>3, Zenon
<1>3. \A k \in DOMAIN sent : sent[k].kind = "split"
  <2>1. \A k \in DOMAIN sent : sent[k] \in Messages
    BY DEF FlowTypeOK
  <2>2. \A k \in DOMAIN sent : sent[k].kind \in {"split", "error"}
    BY <2>1 DEF Messages
  <2> QED
    BY <2>2 DEF ErrorSent
<1>4. PICK at \in [1 .. Len(Tablets(i, s)) -> DOMAIN sent] : PlacedAt(f, i, s, Len(Tablets(i, s)), at)
  BY <1>1, <1>2, Zenon DEF Placed
<1>5. DOMAIN Selects[i].shards[s] = 1 .. Len(Tablets(i, s)) /\ Selects[i].shards[s] = Tablets(i, s)
  BY DEF Tablets
<1>6. at \in [DOMAIN Selects[i].shards[s] -> DOMAIN sent] /\ DOMAIN at = 1 .. Len(Tablets(i, s))
  BY <1>4, <1>5
<1>7. \A k, l \in DOMAIN at : k < l => at[k] < at[l]
  BY <1>4, <1>6 DEF PlacedAt
<1>8. \A k \in DOMAIN at : /\ IsSplitOf(sent[at[k]], i, s)
                           /\ sent[at[k]].split.tablet = Selects[i].shards[s][k]
  <2> TAKE k \in DOMAIN at
  <2>1. f[at[k]] = [sel |-> i, split |-> [src |-> s, tablet |-> Tablets(i, s)[k]]] /\ at[k] \in DOMAIN sent
    BY <1>4, <1>6 DEF PlacedAt
  <2>2. /\ f[at[k]].sel = i /\ f[at[k]].split.src = s
        /\ f[at[k]].split.tablet = Tablets(i, s)[k]
    <3>1. f[at[k]].sel = i /\ f[at[k]].split = [src |-> s, tablet |-> Tablets(i, s)[k]]
      BY <2>1
    <3> QED
      BY <3>1
  <2>3. /\ sent[at[k]].sel = i /\ sent[at[k]].split.src = s
        /\ sent[at[k]].split.tablet = Tablets(i, s)[k] /\ sent[at[k]].kind = "split"
    BY <1>2, <1>3, <2>1, <2>2, Zenon
  <2> QED
    BY <1>5, <2>3, Zenon DEF IsSplitOf
<1>9. \A p \in DOMAIN sent :
        IsSplitOf(sent[p], i, s) /\ (\E k \in DOMAIN at : at[k] <= p) => \E k \in DOMAIN at : at[k] = p
  <2> SUFFICES ASSUME NEW p \in DOMAIN sent, IsSplitOf(sent[p], i, s), \E k \in DOMAIN at : at[k] <= p
               PROVE  \E k \in DOMAIN at : at[k] = p
    OBVIOUS
  <2>1. f[p].sel = i /\ f[p].split.src = s
    BY <1>2, Zenon DEF IsSplitOf
  <2>2. p \in DOMAIN f /\ \E k \in 1 .. Len(Tablets(i, s)) : at[k] <= p
    BY <1>2, <1>6, Zenon
  <2>3. \E k \in 1 .. Len(Tablets(i, s)) : at[k] = p
    BY <1>4, <2>1, <2>2, Zenon DEF PlacedAt
  <2> QED
    BY <1>6, <2>3, Zenon
<1> QED
  BY <1>6, <1>7, <1>8, <1>9, Zenon DEF SourceSent

\* The call starts with nothing gathered, nothing on the way and nothing sent.
LEMMA FlowTypeInit == Init => FlowTypeOK
<1> SUFFICES ASSUME Init PROVE FlowTypeOK
  OBVIOUS
<1>1. /\ handler = "running" /\ sel = 1 /\ streamer \in {"select", "err"} /\ cur = NoSplit
      /\ counter = 0 /\ chan = <<>> /\ sent = <<>> /\ closed = FALSE
      /\ ids = [s \in Sources |-> <<>>] /\ pos = [s \in Sources |-> 0]
      /\ \A s \in Sources : AtRest(s)
  BY DEF Init, FirstStep, AtRest
<1>2. sel \in 1 .. Len(Selects)
  BY <1>1, ListAssumption
<1> QED
  BY <1>1, <1>2 DEF FlowTypeOK

\* The steps of a source.
LEMMA FlowTypeSource ==
  ASSUME FlowTypeOK, Joined, NEW s \in Sources, Source(s) PROVE FlowTypeOK'
<1>1. /\ UNCHANGED <<handler, sel, streamer, cur, counter, sent, closed, prov>>
      /\ ~AtRest(s) /\ s \in SourcesOf(sel)
  BY DEF Source, Connect, SourceFails, NextTablet, RetryQuery, TabletsKnown, Emit, SendGivesUp,
         SourceDone, streamVars, FlowTypeOK, AtRest
<1>2. Tablets(sel, s) \in Seq(Nat) /\ Selects[sel].shards[s] = Tablets(sel, s)
  BY <1>1, ListAssumption DEF FlowTypeOK, SourcesOf, Tablets
<1>3. \A t \in Sources : ~AtRest(t)' => t \in SourcesOf(sel)'
  <2>1. pc' = pc \/ \E x \in {"query", "emit", "end"} : pc' = [pc EXCEPT ![s] = x]
    BY DEF Source, Connect, SourceFails, NextTablet, RetryQuery, TabletsKnown, Emit, SendGivesUp,
           SourceDone
  <2>2. \A t \in Sources : t # s => pc'[t] = pc[t]
    BY <2>1 DEF Joined
  <2> QED
    BY <1>1, <2>2, Zenon DEF FlowTypeOK, AtRest, SourcesOf
<1>4. CASE Connect(s) \/ SourceFails(s) \/ TabletsKnown(s) \/ SendGivesUp(s) \/ SourceDone(s)
  <2>1. UNCHANGED <<ids, pos, chan>>
    BY <1>4 DEF Connect, SourceFails, TabletsKnown, SendGivesUp, SourceDone
  <2> QED
    BY <1>1, <1>3, <2>1 DEF FlowTypeOK
<1>5. CASE RetryQuery(s)
  BY <1>1, <1>3, <1>5 DEF FlowTypeOK, RetryQuery
<1>6. CASE NextTablet(s)
  <2>1. pos[s] + 1 \in 1 .. Len(Tablets(sel, s)) /\ pos[s] \in Nat
    <3>1. pos[s] \in Nat /\ pos[s] < Len(Tablets(sel, s))
      BY <1>2, <1>6, Zenon DEF NextTablet, FlowTypeOK
    <3> QED
      BY <1>2, <3>1
  <2>2. Append(ids[s], Tablets(sel, s)[pos[s] + 1]) \in Seq(Nat)
    BY <1>2, <2>1 DEF FlowTypeOK
  <2>3. ids' = [ids EXCEPT ![s] = Append(ids[s], Tablets(sel, s)[pos[s] + 1])]
    BY <1>6 DEF NextTablet, Tablets
  <2>4. ids \in [Sources -> Seq(Nat)] /\ pos \in [Sources -> Nat]
    BY DEF FlowTypeOK
  <2>5. pos' = [pos EXCEPT ![s] = pos[s] + 1] /\ pos[s] + 1 \in Nat
    BY <1>6, <2>1 DEF NextTablet
  <2>6. ids' \in [Sources -> Seq(Nat)] /\ pos' \in [Sources -> Nat]
    BY <2>2, <2>3, <2>4, <2>5
  <2> QED
    BY <1>1, <1>3, <1>6, <2>6 DEF FlowTypeOK, NextTablet
<1>7. CASE Emit(s)
  <2>1. ids[s] \in Seq(Nat) /\ ids[s] # <<>>
    BY <1>7 DEF Emit, FlowTypeOK
  <2>2. Head(ids[s]) \in Nat /\ Tail(ids[s]) \in Seq(Nat)
    BY <2>1
  <2>3. [src |-> s, tablet |-> Head(ids[s])] \in Splits
    BY <2>2 DEF Splits
  <2>4. ids' \in [Sources -> Seq(Nat)] /\ chan' \in Seq(Splits)
    BY <1>7, <2>2, <2>3 DEF Emit, FlowTypeOK
  <2> QED
    BY <1>1, <1>3, <1>7, <2>4 DEF FlowTypeOK, Emit
<1> QED
  BY <1>4, <1>5, <1>6, <1>7 DEF Source

\* Every step keeps the types of what flows.
LEMMA FlowTypeStep ==
  ASSUME FlowTypeOK, Joined, [Next]_vars PROVE FlowTypeOK'
<1>1. CASE \E s \in Sources : Source(s)
  BY <1>1, FlowTypeSource
<1>2. CASE Resolve
  <2>1. UNCHANGED <<handler, sel, streamer, cur, counter, sent, chan, closed>> /\ prov' = "group" /\ ~closed
    BY <1>2 DEF Resolve, streamVars, FlowTypeOK
  <2>2. \A s \in SourcesOf(sel) : Selects[sel].shards[s] \in Seq(Nat)
    BY ListAssumption DEF FlowTypeOK, SourcesOf
  <2>3. ids' \in [Sources -> Seq(Nat)] /\ pos' \in [Sources -> Nat]
    BY <1>2, <2>2 DEF Resolve
  <2>4. \A s \in Sources : ~AtRest(s)' => s \in SourcesOf(sel)'
    BY <1>2, <2>1 DEF Resolve, AtRest, SourcesOf
  <2> QED
    BY <2>1, <2>3, <2>4 DEF FlowTypeOK
<1>3. CASE ResolveFails \/ GroupDone \/ Report \/ CloseChan
  <2>1. /\ UNCHANGED <<handler, sel, streamer, cur, counter, sent, chan, ids, pos, pc>>
        /\ closed' => prov' = "gone"
    BY <1>3 DEF ResolveFails, GroupDone, Report, CloseChan, streamVars, FlowTypeOK
  <2> QED
    BY <2>1 DEF FlowTypeOK, AtRest, SourcesOf
<1>4. CASE NextSelect
  <2>1. /\ UNCHANGED <<handler, ids, pos, sent>> /\ sel' = sel + 1 /\ sel < Len(Selects)
        /\ streamer' \in {"select", "err"} /\ cur' = NoSplit /\ counter' = 0
        /\ chan' = <<>> /\ closed' = FALSE /\ pc' = [s \in Sources |-> "idle"]
    BY <1>4 DEF NextSelect, FirstStep
  <2>2. sel' \in 1 .. Len(Selects)
    BY <2>1, ListAssumption DEF FlowTypeOK
  <2>3. \A s \in Sources : AtRest(s)'
    BY <2>1 DEF AtRest
  <2> QED
    BY <2>1, <2>2, <2>3 DEF FlowTypeOK
<1>5. CASE Receive
  <2>1. Head(chan) \in Splits /\ Tail(chan) \in Seq(Splits)
    BY <1>5 DEF Receive, FlowTypeOK
  <2> QED
    BY <1>5, <2>1 DEF Receive, provVars, FlowTypeOK, AtRest, SourcesOf
<1>6. CASE ChanExhausted \/ ReceiveErr \/ ContextDone \/ SendFails \/ AllListed
  <2>1. /\ UNCHANGED <<sel, cur, counter, sent, chan, ids, pos, pc, closed, prov>>
        /\ streamer' \in {"select", "ok", "err"} /\ handler' \in {handler, "done"}
    BY <1>6 DEF ChanExhausted, ReceiveErr, ContextDone, SendFails, AllListed, provVars
  <2> QED
    BY <2>1 DEF FlowTypeOK, AtRest, SourcesOf
<1>7. CASE SendSplit
  <2>1. /\ UNCHANGED <<handler, sel, chan, ids, pos, pc, closed, prov>>
        /\ sent' = Append(sent, SplitMessage(counter, cur)) /\ counter' = counter + 1
        /\ streamer' = "select" /\ cur' = NoSplit
    BY <1>7 DEF SendSplit, provVars
  <2>2. SplitMessage(counter, cur) \in Messages
    BY ListAssumption DEF FlowTypeOK, SplitMessage, Messages
  <2>3. sent' \in Seq(Messages) /\ counter' \in Nat
    BY <2>1, <2>2 DEF FlowTypeOK
  <2> QED
    BY <2>1, <2>3 DEF FlowTypeOK, AtRest, SourcesOf
<1>8. CASE ReplyError
  <2>1. /\ UNCHANGED <<sel, streamer, cur, counter, chan, ids, pos, pc, closed, prov>> /\ handler' = "done"
        /\ sent' = sent \/ sent' = Append(sent, ErrorMessage)
    BY <1>8 DEF ReplyError, provVars
  <2>2. ErrorMessage \in Messages
    BY ListAssumption DEF FlowTypeOK, ErrorMessage, Messages
  <2>3. Append(sent, ErrorMessage) \in Seq(Messages) /\ sent \in Seq(Messages)
    BY <2>2 DEF FlowTypeOK
  <2>4. sent' \in Seq(Messages)
    BY <2>1, <2>3
  <2> QED
    BY <2>1, <2>4 DEF FlowTypeOK, AtRest, SourcesOf
<1>9. CASE Cancel \/ Finished \/ UNCHANGED vars
  <2>1. UNCHANGED <<handler, sel, streamer, cur, counter, chan, sent, ids, pos, pc, prov, closed>>
    BY <1>9, Zenon DEF Cancel, Finished, vars, streamVars, provVars
  <2> QED
    BY <2>1 DEF FlowTypeOK, AtRest, SourcesOf
<1>10. Cancel \/ Provider \/ Streamer \/ Finished \/ UNCHANGED vars \/ \E s \in Sources : Source(s)
  BY DEF Next
<1> QED
  BY <1>1, <1>2, <1>3, <1>4, <1>5, <1>6, <1>7, <1>8, <1>9, <1>10, Zenon DEF Provider, Streamer

\* What one more row of the tablet query does.
LEMMA GatheredNext ==
  ASSUME NEW i, NEW s, Tablets(i, s) \in Seq(Nat), NEW q \in Seq(Nat), NEW n \in Nat,
         n < Len(Tablets(i, s)), Gathered(i, s, q, n)
  PROVE  Gathered(i, s, Append(q, Tablets(i, s)[n + 1]), n + 1)
<1> DEFINE x == Tablets(i, s)[n + 1]
           r == Append(q, x)
           l == Len(q)
<1>1. l \in Nat /\ n <= l /\ Len(Tablets(i, s)) \in Nat /\ n + 1 \in 0 .. Len(Tablets(i, s))
  BY DEF Gathered
<1>2. Len(r) = l + 1 /\ r[l + 1] = x /\ \A k \in 1 .. l : r[k] = q[k]
  BY <1>1
<1>3. \A k \in 1 .. n : q[l - n + k] = Tablets(i, s)[k]
  BY DEF Gathered
<1> HIDE DEF x, r, l
<1>4. ASSUME NEW k \in 1 .. n + 1 PROVE r[(l + 1) - (n + 1) + k] = Tablets(i, s)[k]
  <2>1. CASE k = n + 1
    <3>1. (l + 1) - (n + 1) + k = l + 1
      BY <1>1, <2>1
    <3> QED
      BY <1>2, <2>1, <3>1 DEF x
  <2>2. CASE k # n + 1
    <3>1. (l + 1) - (n + 1) + k = l - n + k /\ l - n + k \in 1 .. l /\ k \in 1 .. n
      BY <1>1, <2>2
    <3> QED
      BY <1>2, <1>3, <3>1, Zenon
  <2> QED
    BY <2>1, <2>2
<1>5. Gathered(i, s, r, n + 1)
  <2>1. n + 1 <= l + 1
    BY <1>1
  <2>2. \A k \in 1 .. n + 1 : r[Len(r) - (n + 1) + k] = Tablets(i, s)[k]
    BY <1>2, <1>4
  <2> QED
    BY <1>1, <1>2, <2>1, <2>2, Zenon DEF Gathered
<1> QED
  BY <1>5 DEF r, x

\* All of the tablets are gathered and none handed over.
LEMMA GatheredAll ==
  ASSUME NEW f, NEW i, NEW s, Tablets(i, s) \in Seq(Nat), NEW q \in Seq(Nat),
         Gathered(i, s, q, Len(Tablets(i, s)))
  PROVE  Handed(f, i, s, q)
<1> DEFINE n == Len(Tablets(i, s))
<1>1. n \in Nat /\ n \in 0 .. n /\ n - n = 0 /\ \A k \in 1 .. n : n - n + k = k
  OBVIOUS
<1>2. Placed(f, i, s, n - n)
  BY <1>1, PlacedNone
<1>3. n <= Len(q) /\ ~(n < n) /\ \A k \in 1 .. n : q[Len(q) - n + k] = Tablets(i, s)[n - n + k]
  BY <1>1 DEF Gathered
<1> HIDE DEF n
<1>4. \E left \in 0 .. n :
        /\ left <= Len(q) /\ (left < n => left = Len(q))
        /\ \A k \in 1 .. left : q[Len(q) - left + k] = Tablets(i, s)[n - left + k]
        /\ Placed(f, i, s, n - left)
  BY <1>1, <1>2, <1>3
<1> QED
  BY <1>4, Zenon DEF Handed, n

\* The places of the tablets that are left, after the first of them is taken.
LEMMA PlacesAfterFirst ==
  ASSUME NEW l \in Nat, NEW n \in Nat, NEW k \in 1 .. l - 1
  PROVE  /\ (l - 1) - (l - 1) + k = k /\ k + 1 \in 1 .. l /\ l - l + (k + 1) = k + 1
         /\ n - l + (k + 1) = n - (l - 1) + k
OBVIOUS

\* Other tablets wait before those that are left: then all of them are left.
LEMMA AllLeft ==
  ASSUME NEW n \in Nat, NEW l \in Nat \ {0}, NEW left \in 0 .. n,
         left <= l, left < n => left = l, left # l
  PROVE  left \in Nat /\ left = n /\ left <= l - 1 /\ n - left = 0 /\ ~(left < n)
OBVIOUS

\* The first tablet that waits is the first of those that are left.
LEMMA FirstLeft ==
  ASSUME NEW n \in Nat, NEW l \in Nat \ {0}, NEW left \in 0 .. n, left = l
  PROVE  /\ n - left \in Nat /\ left - 1 \in 0 .. n /\ left - 1 = l - 1
         /\ (n - left) + 1 = n - (left - 1) /\ l - left + 1 = 1
         /\ 1 \in 1 .. left /\ left - 1 <= l - 1
OBVIOUS

\* A source hands over its next tablet.
LEMMA HandedMine ==
  ASSUME NEW f, NEW g, NEW N \in Nat, DOMAIN f = 1 .. N, DOMAIN g = 1 .. N + 1,
         \A k \in 1 .. N : g[k] = f[k], NEW i, NEW s, Tablets(i, s) \in Seq(Nat),
         NEW q \in Seq(Nat), q # <<>>, Handed(f, i, s, q),
         g[N + 1] = [sel |-> i, split |-> [src |-> s, tablet |-> Head(q)]]
  PROVE  Handed(g, i, s, Tail(q))
<1> DEFINE n == Len(Tablets(i, s))
           l == Len(q)
           r == Tail(q)
<1>1. n \in Nat /\ l \in Nat \ {0} /\ Len(r) = l - 1 /\ Head(q) = q[1] /\ \A k \in 1 .. l - 1 : r[k] = q[k + 1]
  OBVIOUS
<1>2. PICK left \in 0 .. n :
        /\ left <= l /\ (left < n => left = l)
        /\ \A k \in 1 .. left : q[l - left + k] = Tablets(i, s)[n - left + k]
        /\ Placed(f, i, s, n - left)
  BY Zenon DEF Handed
<1> HIDE DEF n, l, r
<1>3. CASE left = l
  <2> DEFINE m == n - left
             rest == left - 1
  <2>1. m \in Nat /\ rest \in 0 .. n /\ rest = l - 1 /\ m + 1 = n - rest /\ l - left + 1 = 1 /\ n - left + 1 = m + 1
        /\ 1 \in 1 .. left /\ rest <= l - 1
    <3>1. n \in Nat /\ l \in Nat \ {0}
      BY <1>1, Zenon
    <3> QED
      BY <1>3, <3>1, FirstLeft, Zenon
  <2> HIDE DEF m, rest
  <2>2. Tablets(i, s)[m + 1] = Head(q)
    <3>1. q[l - left + 1] = Tablets(i, s)[n - left + 1]
      BY <1>2, <2>1, Zenon
    <3> QED
      BY <1>1, <2>1, <3>1, Zenon
  <2>3. Placed(g, i, s, m + 1)
    BY <1>2, <2>1, <2>2, PlacedOne, Zenon DEF m
  <2>4. ASSUME NEW k \in 1 .. rest PROVE r[(l - 1) - rest + k] = Tablets(i, s)[n - rest + k]
    <3>1. /\ (l - 1) - rest + k = k /\ k \in 1 .. l - 1 /\ k + 1 \in 1 .. left /\ l - left + (k + 1) = k + 1
          /\ n - left + (k + 1) = n - rest + k
      <4>1. l \in Nat /\ n \in Nat /\ left = l /\ rest = l - 1
        BY <1>1, <1>3, <2>1, Zenon
      <4> QED
        BY <4>1, PlacesAfterFirst, Zenon
    <3>2. r[k] = q[k + 1]
      BY <1>1, <3>1
    <3>3. q[l - left + (k + 1)] = Tablets(i, s)[n - left + (k + 1)]
      BY <1>2, <3>1
    <3> QED
      BY <3>1, <3>2, <3>3
  <2>5. \E rst \in 0 .. n :
          /\ rst <= l - 1 /\ (rst < n => rst = l - 1)
          /\ \A k \in 1 .. rst : r[(l - 1) - rst + k] = Tablets(i, s)[n - rst + k]
          /\ Placed(g, i, s, n - rst)
    <3>1. rest <= l - 1
      BY <2>1, Zenon
    <3>2. (rest < n => rest = l - 1) /\ Placed(g, i, s, n - rest)
      BY <2>1, <2>3, Zenon
    <3>3. \A k \in 1 .. rest : r[(l - 1) - rest + k] = Tablets(i, s)[n - rest + k]
      BY <2>4
    <3> QED
      BY <2>1, <3>1, <3>2, <3>3, Zenon
  <2> QED
    BY <1>1, <2>5, Zenon DEF Handed, r, n
<1>4. CASE left # l
  <2>1. /\ left \in 0 .. n /\ left \in Nat /\ l \in Nat /\ left = n /\ left <= l - 1 /\ n - left = 0
        /\ left < n => left = l - 1
    <3>1. n \in Nat /\ l \in Nat \ {0} /\ l \in Nat /\ left <= l /\ (left < n => left = l)
      BY <1>1, <1>2
    <3>2. left \in Nat /\ left = n /\ left <= l - 1 /\ n - left = 0 /\ ~(left < n)
      BY <1>4, <3>1, AllLeft, Zenon
    <3> QED
      BY <3>1, <3>2, Zenon
  <2>2. Placed(g, i, s, n - left)
    BY <2>1, PlacedNone
  <2>3. ASSUME NEW k \in 1 .. left PROVE r[(l - 1) - left + k] = Tablets(i, s)[n - left + k]
    <3>1. (l - 1) - left + k \in 1 .. l - 1 /\ ((l - 1) - left + k) + 1 = l - left + k
      BY <2>1
    <3>2. r[(l - 1) - left + k] = q[l - left + k]
      BY <1>1, <3>1, Zenon
    <3> QED
      BY <1>2, <3>2, Zenon
  <2>4. \E rst \in 0 .. n :
          /\ rst <= l - 1 /\ (rst < n => rst = l - 1)
          /\ \A k \in 1 .. rst : r[(l - 1) - rst + k] = Tablets(i, s)[n - rst + k]
          /\ Placed(g, i, s, n - rst)
    BY <2>1, <2>2, <2>3, Zenon
  <2> QED
    BY <1>1, <2>4, Zenon DEF Handed, r, n
<1> QED
  BY <1>3, <1>4

\* Another source hands over a tablet.
LEMMA HandedOther ==
  ASSUME NEW f, NEW g, NEW N \in Nat, DOMAIN f = 1 .. N, DOMAIN g = 1 .. N + 1,
         \A k \in 1 .. N : g[k] = f[k], NEW i, NEW s, Tablets(i, s) \in Seq(Nat),
         NEW q, Handed(f, i, s, q), ~(g[N + 1].sel = i /\ g[N + 1].split.src = s)
  PROVE  Handed(g, i, s, q)
<1> DEFINE n == Len(Tablets(i, s))
<1>1. PICK left \in 0 .. n :
        /\ left <= Len(q) /\ (left < n => left = Len(q))
        /\ \A k \in 1 .. left : q[Len(q) - left + k] = Tablets(i, s)[n - left + k]
        /\ Placed(f, i, s, n - left)
  BY Zenon DEF Handed
<1>2. n - left \in Nat /\ Placed(f, i, s, n - left)
  <2>1. n \in Nat
    OBVIOUS
  <2> HIDE DEF n
  <2>2. n - left \in Nat
    BY <2>1
  <2> QED
    BY <1>1, <2>2, Zenon
<1>3. Placed(g, i, s, n - left)
  <2>1. PICK m \in Nat : m = n - left /\ Placed(f, i, s, m)
    BY <1>2, Zenon
  <2>2. Placed(g, i, s, m)
    BY <2>1, PlacedMore, Zenon
  <2> QED
    BY <2>1, <2>2, Zenon
<1> HIDE DEF n
<1>4. \E rst \in 0 .. n :
        /\ rst <= Len(q) /\ (rst < n => rst = Len(q))
        /\ \A k \in 1 .. rst : q[Len(q) - rst + k] = Tablets(i, s)[n - rst + k]
        /\ Placed(g, i, s, n - rst)
  BY <1>1, <1>3, Zenon
<1> QED
  BY <1>4, Zenon DEF Handed, n

\* Nothing is left to hand over.
LEMMA HandedAll ==
  ASSUME NEW f, NEW i, NEW s, Tablets(i, s) \in Seq(Nat), Handed(f, i, s, <<>>)
  PROVE  Placed(f, i, s, Len(Tablets(i, s)))
<1>1. PICK left \in 0 .. Len(Tablets(i, s)) :
        left <= Len(<<>>) /\ Placed(f, i, s, Len(Tablets(i, s)) - left)
  BY DEF Handed
<1>2. left = 0 /\ Len(Tablets(i, s)) - left = Len(Tablets(i, s))
  BY <1>1
<1> QED
  BY <1>1, <1>2

\* What is owed does not change while the flow and the sources stand still.
LEMMA OwedKept ==
  ASSUME Owed, Flow' = Flow, UNCHANGED <<sel, ids, pos, pc>>, erred \subseteq erred',
         prov' = prov \/ prov # "resolve" \/ sel \in erred',
         streamer' = "ok" => closed' /\ chan' = <<>>
  PROVE  Owed'
<1>1. \A i \in 1 .. sel' - 1 : i \notin erred' =>
        \A s \in SourcesOf(i) : Placed(Flow', i, s, Len(Tablets(i, s)))
  BY DEF Owed
<1>2. ASSUME sel \notin erred' PROVE Working'
  <2>1. Working /\ (prov' = prov \/ prov # "resolve")
    BY <1>2 DEF Owed
  <2> QED
    BY <2>1, Zenon DEF Working, SourcesOf
<1> QED
  BY <1>1, <1>2, Zenon DEF Owed, SourcesOf, Tablets

\* A source that moves leaves to the others what they have.
LEMMA OwedByOthers ==
  ASSUME Owed, Joined, FlowTypeOK, Flow' = Flow, sel' = sel, prov' = prov, prov # "resolve",
         erred' = erred, NEW s \in SourcesOf(sel), s \in Sources,
         \A t \in Sources : t # s => ids'[t] = ids[t] /\ pos'[t] = pos[t] /\ pc'[t] = pc[t],
         sel \notin erred =>
           /\ pc'[s] # "connect" /\ pc'[s] # "idle"
           /\ pc'[s] = "query" => Gathered(sel, s, ids'[s], pos'[s])
           /\ pc'[s] \in {"emit", "end"} => Handed(Flow, sel, s, ids'[s])
           /\ pc'[s] = "end" => ids'[s] = <<>>,
         streamer' = "ok" => closed' /\ chan' = <<>>
  PROVE  Owed'
<1>1. \A i \in 1 .. sel' - 1 : i \notin erred' =>
        \A t \in SourcesOf(i) : Placed(Flow', i, t, Len(Tablets(i, t)))
  BY DEF Owed
<1>2. ASSUME sel \notin erred PROVE Working'
  <2>1. Working
    BY <1>2 DEF Owed
  <2>2. ASSUME NEW t \in SourcesOf(sel)
        PROVE  /\ pc'[t] = "connect" => ids'[t] = <<>> /\ pos'[t] = 0
               /\ pc'[t] = "query" => Gathered(sel, t, ids'[t], pos'[t])
               /\ pc'[t] \in {"emit", "end"} => Handed(Flow', sel, t, ids'[t])
               /\ pc'[t] = "end" => ids'[t] = <<>>
               /\ pc'[t] = "idle" => prov' = "resolve"
    <3>1. t \in Sources
      BY ListAssumption DEF FlowTypeOK, SourcesOf
    <3>2. CASE t = s
      BY <1>2, <3>2
    <3>3. CASE t # s
      BY <2>1, <3>1, <3>3 DEF Working
    <3> QED
      BY <3>2, <3>3
  <2> QED
    BY <2>2, Zenon DEF Working, SourcesOf
<1> QED
  BY <1>1, <1>2, Zenon DEF Owed, SourcesOf, Tablets

\* A split that enters the channel.
LEMMA OwedEmit ==
  ASSUME Owed, Joined, FlowTypeOK, NEW s \in Sources, Emit(s) PROVE Owed'
<1> DEFINE x == [src |-> s, tablet |-> Head(ids[s])]
<1>1. /\ UNCHANGED <<sel, streamer, cur, sent, closed, prov, pc, pos, erred>>
      /\ pc[s] = "emit" /\ chan' = Append(chan, x) /\ ids' = [ids EXCEPT ![s] = Tail(ids[s])]
      /\ ids[s] # <<>> /\ ids[s] \in Seq(Nat) /\ x \in Splits
  <2>1. ids[s] \in Seq(Nat) /\ ids[s] # <<>>
    BY DEF Emit, FlowTypeOK
  <2>2. Head(ids[s]) \in Nat
    BY <2>1
  <2> QED
    BY <2>1, <2>2, Zenon DEF Emit, streamVars, Splits
<1>2. s \in SourcesOf(sel) /\ prov = "group" /\ ~closed /\ streamer # "ok"
  BY <1>1, Zenon DEF Joined, AtRest, FlowTypeOK, Owed
<1>3. OnTheWay \in Seq(Splits) /\ OnTheWay' = Append(OnTheWay, x)
  <2>1. chan \in Seq(Splits) /\ (streamer = "send" => cur \in Splits)
    BY DEF FlowTypeOK
  <2> HIDE DEF x
  <2>2. streamer = "send" => /\ <<cur>> \o chan \in Seq(Splits)
                             /\ <<cur>> \o Append(chan, x) = Append(<<cur>> \o chan, x)
    BY <1>1, <2>1
  <2> QED
    BY <1>1, <2>1, <2>2 DEF OnTheWay
<1> HIDE DEF x
<1>4. PICK f, g, n : f = Flow /\ g = Flow' /\ n = Len(sent) + Len(OnTheWay)
  OBVIOUS
<1>5. /\ n \in Nat /\ DOMAIN f = 1 .. n /\ DOMAIN g = 1 .. n + 1
      /\ \A k \in 1 .. n : g[k] = f[k]
      /\ g[n + 1] = [sel |-> sel, split |-> x]
  <2>1. f = FlowOf(sent, sel, OnTheWay) /\ g = FlowOf(sent, sel, Append(OnTheWay, x))
    BY <1>1, <1>3, <1>4 DEF Flow
  <2>2. sent \in Seq(Messages) /\ OnTheWay \in Seq(Splits) /\ x \in Splits
    BY <1>1, <1>3, Zenon DEF FlowTypeOK
  <2>3. n = Len(sent) + Len(OnTheWay)
    BY <1>4, Zenon
  <2>4. GrowsBy(FlowOf(sent, sel, OnTheWay), FlowOf(sent, sel, Append(OnTheWay, x)),
                Len(sent) + Len(OnTheWay), [sel |-> sel, split |-> x])
    BY <2>2, FlowGrows, Zenon
  <2>5. GrowsBy(f, g, n, [sel |-> sel, split |-> x])
    BY <2>1, <2>3, <2>4, Zenon
  <2> QED
    BY <2>5, Zenon DEF GrowsBy
<1>6. \A i \in 1 .. Len(Selects) : \A t \in SourcesOf(i) : t \in Sources /\ Tablets(i, t) \in Seq(Nat)
  BY ListAssumption DEF SourcesOf, Tablets
<1>7. \A i \in 1 .. sel - 1 : i \notin erred =>
        \A t \in SourcesOf(i) : Placed(g, i, t, Len(Tablets(i, t)))
  <2> SUFFICES ASSUME NEW i \in 1 .. sel - 1, i \notin erred, NEW t \in SourcesOf(i)
               PROVE  Placed(g, i, t, Len(Tablets(i, t)))
    OBVIOUS
  <2>1. Placed(f, i, t, Len(Tablets(i, t)))
    BY <1>4 DEF Owed
  <2>2. i \in 1 .. Len(Selects) /\ i # sel
    BY DEF FlowTypeOK
  <2>3. Len(Tablets(i, t)) \in Nat
    BY <1>6, <2>2
  <2>4. ~(g[n + 1].sel = i /\ g[n + 1].split.src = t)
    BY <1>5, <2>2
  <2> QED
    BY <1>5, <2>1, <2>3, <2>4, PlacedMore
<1>8. ASSUME sel \notin erred, NEW t \in SourcesOf(sel)
      PROVE  /\ pc'[t] = "connect" => ids'[t] = <<>> /\ pos'[t] = 0
             /\ pc'[t] = "query" => Gathered(sel, t, ids'[t], pos'[t])
             /\ pc'[t] \in {"emit", "end"} => Handed(g, sel, t, ids'[t])
             /\ pc'[t] = "end" => ids'[t] = <<>>
             /\ pc'[t] = "idle" => prov' = "resolve"
  <2>1. Working /\ t \in Sources /\ Tablets(sel, t) \in Seq(Nat)
    BY <1>6, <1>8 DEF Owed, FlowTypeOK
  <2>2. CASE t = s
    <3>1. Handed(f, sel, s, ids[s])
      BY <1>1, <1>2, <1>4, <2>1 DEF Working
    <3>2. Handed(g, sel, s, Tail(ids[s]))
      <4>1. g[n + 1] = [sel |-> sel, split |-> [src |-> s, tablet |-> Head(ids[s])]]
        BY <1>5 DEF x
      <4> QED
        BY <1>1, <1>5, <2>1, <2>2, <3>1, <4>1, HandedMine, Zenon
    <3>3. ids'[s] = Tail(ids[s])
      BY <1>1 DEF FlowTypeOK
    <3> QED
      BY <1>1, <2>2, <3>2, <3>3
  <2>3. CASE t # s
    <3>1. ids'[t] = ids[t]
      BY <1>1, <2>1, <2>3 DEF FlowTypeOK
    <3>2. ~(g[n + 1].sel = sel /\ g[n + 1].split.src = t)
      <4>1. x.src = s
        BY DEF x
      <4>2. g[n + 1].split = x
        BY <1>5
      <4> QED
        BY <2>3, <4>1, <4>2, Zenon
    <3>3. Handed(f, sel, t, ids[t]) => Handed(g, sel, t, ids[t])
      BY <1>5, <2>1, <3>2, HandedOther, Zenon
    <3> QED
      BY <1>1, <1>4, <1>8, <2>1, <3>1, <3>3 DEF Working
  <2> QED
    BY <2>2, <2>3
<1> QED
  <2>1. sel \notin erred => Working'
    BY <1>1, <1>4, <1>8, Zenon DEF Working, SourcesOf
  <2>2. \A i \in 1 .. sel' - 1 : i \notin erred' =>
          \A t \in SourcesOf(i) : Placed(Flow', i, t, Len(Tablets(i, t)))
    BY <1>1, <1>4, <1>7
  <2> QED
    BY <1>1, <1>2, <2>1, <2>2, Zenon DEF Owed, SourcesOf, Tablets

\* The steps of a source.
LEMMA OwedSource ==
  ASSUME Owed, Joined, FlowTypeOK, NEW s \in Sources, Source(s) PROVE Owed'
<1>1. /\ UNCHANGED <<sel, streamer, cur, sent, closed, prov>> /\ ~AtRest(s) /\ s \in SourcesOf(sel)
  BY DEF Source, Connect, SourceFails, NextTablet, RetryQuery, TabletsKnown, Emit, SendGivesUp,
         SourceDone, streamVars, FlowTypeOK, AtRest
<1>2. prov = "group" /\ streamer # "ok"
  BY <1>1 DEF Joined, AtRest, FlowTypeOK, Owed
<1>3. /\ ids \in [Sources -> Seq(Nat)] /\ pos \in [Sources -> Nat] /\ DOMAIN pc = Sources
      /\ Tablets(sel, s) \in Seq(Nat) /\ Len(Tablets(sel, s)) \in Nat
  BY <1>1, ListAssumption DEF FlowTypeOK, Joined, SourcesOf, Tablets
<1>4. chan' = chan => Flow' = Flow
  BY <1>1 DEF Flow, OnTheWay
<1>5. sel \notin erred => Working
  BY DEF Owed
<1>6. CASE SourceFails(s) \/ SendGivesUp(s)
  <2>1. /\ UNCHANGED chan /\ erred' = erred \cup {sel}
    BY <1>6 DEF SourceFails, SendGivesUp
  <2>2. \A i \in 1 .. sel' - 1 : i \notin erred' =>
          \A t \in SourcesOf(i) : Placed(Flow', i, t, Len(Tablets(i, t)))
    BY <1>1, <1>4, <2>1 DEF Owed
  <2> QED
    BY <1>1, <1>2, <2>1, <2>2 DEF Owed, SourcesOf, Tablets
<1>7. CASE Connect(s)
  <2>1. UNCHANGED <<chan, erred, ids, pos>> /\ pc[s] = "connect" /\ pc' = [pc EXCEPT ![s] = "query"]
    BY <1>7 DEF Connect
  <2>2. sel \notin erred => Gathered(sel, s, ids[s], pos[s])
    <3>1. sel \notin erred => ids[s] = <<>> /\ pos[s] = 0
      BY <1>1, <1>5, <2>1 DEF Working
    <3> QED
      BY <1>3, <3>1 DEF Gathered
  <2>3. pc'[s] = "query" /\ \A t \in Sources : t # s => pc'[t] = pc[t]
    BY <1>3, <2>1
  <2> QED
    BY <1>1, <1>2, <1>4, <2>1, <2>2, <2>3, OwedByOthers
<1>8. CASE NextTablet(s)
  <2>1. /\ UNCHANGED <<chan, erred, pc>> /\ pc[s] = "query" /\ pos[s] < Len(Tablets(sel, s))
        /\ ids' = [ids EXCEPT ![s] = Append(ids[s], Tablets(sel, s)[pos[s] + 1])]
        /\ pos' = [pos EXCEPT ![s] = pos[s] + 1]
    BY <1>8 DEF NextTablet, Tablets
  <2>2. /\ ids'[s] = Append(ids[s], Tablets(sel, s)[pos[s] + 1]) /\ pos'[s] = pos[s] + 1
        /\ \A t \in Sources : t # s => ids'[t] = ids[t] /\ pos'[t] = pos[t]
    BY <1>3, <2>1
  <2>3. sel \notin erred => Gathered(sel, s, ids'[s], pos'[s])
    <3>1. sel \notin erred => Gathered(sel, s, ids[s], pos[s])
      BY <1>1, <1>5, <2>1 DEF Working
    <3> QED
      BY <1>3, <2>1, <2>2, <3>1, GatheredNext
  <2> QED
    BY <1>1, <1>2, <1>4, <2>1, <2>2, <2>3, OwedByOthers
<1>9. CASE RetryQuery(s)
  <2>1. UNCHANGED <<chan, erred, pc, ids>> /\ pc[s] = "query" /\ pos' = [pos EXCEPT ![s] = 0]
    BY <1>9 DEF RetryQuery
  <2>2. pos'[s] = 0 /\ \A t \in Sources : t # s => pos'[t] = pos[t]
    BY <1>3, <2>1
  <2>3. Gathered(sel, s, ids'[s], 0)
    <3>1. ids'[s] \in Seq(Nat) /\ Tablets(sel, s) \in Seq(Nat)
      BY <1>3, <2>1
    <3>2. 0 \in 0 .. Len(Tablets(sel, s)) /\ 0 <= Len(ids'[s]) /\ 1 .. 0 = {}
      BY <3>1
    <3> QED
      BY <3>2, Zenon DEF Gathered
  <2>4. Gathered(sel, s, ids'[s], pos'[s])
    BY <2>2, <2>3
  <2> QED
    BY <1>1, <1>2, <1>4, <2>1, <2>2, <2>4, OwedByOthers
<1>10. CASE TabletsKnown(s)
  <2>1. /\ UNCHANGED <<chan, erred, pos, ids>> /\ pc[s] = "query" /\ pos[s] = Len(Tablets(sel, s))
        /\ pc' = [pc EXCEPT ![s] = "emit"]
    BY <1>10 DEF TabletsKnown, Tablets
  <2>2. pc'[s] = "emit" /\ \A t \in Sources : t # s => pc'[t] = pc[t]
    BY <1>3, <2>1
  <2>3. sel \notin erred => Handed(Flow, sel, s, ids[s])
    <3>1. sel \notin erred => Gathered(sel, s, ids[s], Len(Tablets(sel, s)))
      BY <1>1, <1>5, <2>1 DEF Working
    <3> QED
      BY <1>3, <3>1, GatheredAll
  <2> QED
    BY <1>1, <1>2, <1>4, <2>1, <2>2, <2>3, OwedByOthers, Zenon
<1>11. CASE SourceDone(s)
  <2>1. /\ UNCHANGED <<chan, erred, pos, ids>> /\ pc[s] = "emit" /\ ids[s] = <<>>
        /\ pc' = [pc EXCEPT ![s] = "end"]
    BY <1>11 DEF SourceDone
  <2>2. pc'[s] = "end" /\ \A t \in Sources : t # s => pc'[t] = pc[t]
    BY <1>3, <2>1
  <2>3. sel \notin erred => Handed(Flow, sel, s, ids[s])
    BY <1>1, <1>5, <2>1 DEF Working
  <2> QED
    BY <1>1, <1>2, <1>4, <2>1, <2>2, <2>3, OwedByOthers
<1> QED
  BY <1>6, <1>7, <1>8, <1>9, <1>10, <1>11, OwedEmit DEF Source

\* When the streamer has returned without an error, all is with the client.
LEMMA OwedNothing ==
  ASSUME Owed, Joined, FlowTypeOK, streamer = "ok"
  PROVE  /\ Flow = FlowOf(sent, sel, <<>>)
         /\ \A i \in 1 .. sel : i \notin erred =>
              \A s \in SourcesOf(i) : Placed(Flow, i, s, Len(Tablets(i, s)))
<1>1. closed /\ chan = <<>> /\ prov = "gone" /\ \A s \in Sources : AtRest(s)
  BY DEF Owed, FlowTypeOK, Joined
<1>2. Flow = FlowOf(sent, sel, <<>>)
  BY <1>1 DEF Flow, OnTheWay
<1>3. ASSUME sel \notin erred, NEW s \in SourcesOf(sel)
      PROVE  Placed(Flow, sel, s, Len(Tablets(sel, s)))
  <2>1. s \in Sources /\ Tablets(sel, s) \in Seq(Nat)
    BY ListAssumption DEF FlowTypeOK, SourcesOf, Tablets
  <2>2. pc[s] = "end" /\ ids[s] = <<>> /\ Handed(Flow, sel, s, <<>>)
    BY <1>1, <1>3, <2>1 DEF Owed, Working, AtRest
  <2> QED
    BY <2>1, <2>2, HandedAll
<1>4. \A i \in 1 .. sel : i \in 1 .. sel - 1 \/ i = sel
  BY ListAssumption DEF FlowTypeOK
<1> QED
  BY <1>2, <1>3, <1>4 DEF Owed

\* The provider starts its sources.
LEMMA OwedResolve ==
  ASSUME Owed, FlowTypeOK, Resolve PROVE Owed'
<1>1. /\ UNCHANGED <<sel, streamer, cur, sent, chan, closed, erred>> /\ ~closed
      /\ pc' = [s \in Sources |-> IF s \notin SourcesOf(sel) THEN "end"
                                  ELSE IF Asks(sel) THEN "connect" ELSE "emit"]
      /\ ids' = [s \in Sources |-> IF s \in SourcesOf(sel) /\ ~Asks(sel)
                                   THEN Selects[sel].shards[s] ELSE <<>>]
      /\ pos' = [s \in Sources |-> 0]
  BY DEF Resolve, streamVars, FlowTypeOK
<1>2. Flow' = Flow
  BY <1>1 DEF Flow, OnTheWay
<1>3. ASSUME NEW s \in SourcesOf(sel)
      PROVE  /\ pc'[s] \in {"connect", "emit"}
             /\ pc'[s] = "connect" => ids'[s] = <<>> /\ pos'[s] = 0
             /\ pc'[s] = "emit" => Handed(Flow, sel, s, ids'[s])
  <2>1. s \in Sources /\ Tablets(sel, s) \in Seq(Nat) /\ Selects[sel].shards[s] = Tablets(sel, s)
    BY ListAssumption DEF FlowTypeOK, SourcesOf, Tablets
  <2>2. CASE Asks(sel)
    BY <1>1, <2>1, <2>2
  <2>3. CASE ~Asks(sel)
    <3>1. pc'[s] = "emit" /\ ids'[s] = Tablets(sel, s)
      BY <1>1, <2>1, <2>3
    <3>2. Gathered(sel, s, Tablets(sel, s), Len(Tablets(sel, s)))
      BY <2>1 DEF Gathered
    <3> QED
      BY <2>1, <3>1, <3>2, GatheredAll
  <2> QED
    BY <2>2, <2>3
<1>4. Working'
  BY <1>1, <1>2, <1>3, Zenon DEF Working, SourcesOf
<1>5. \A i \in 1 .. sel' - 1 : i \notin erred' =>
        \A s \in SourcesOf(i) : Placed(Flow', i, s, Len(Tablets(i, s)))
  BY <1>1, <1>2 DEF Owed
<1>6. streamer' # "ok"
  BY <1>1 DEF Owed
<1> QED
  BY <1>4, <1>5, <1>6, Zenon DEF Owed, SourcesOf, Tablets

\* The handler goes on with the next select.
LEMMA OwedNextSelect ==
  ASSUME Owed, Joined, FlowTypeOK, NextSelect, streamer' # "err" PROVE Owed'
<1>1. /\ streamer = "ok" /\ sel' = sel + 1 /\ chan' = <<>> /\ streamer' = "select" /\ prov' = "resolve"
      /\ pc' = [s \in Sources |-> "idle"] /\ UNCHANGED <<sent, erred>>
  BY DEF NextSelect, FirstStep, FirstProvider
<1>2. Flow' = Flow
  <2>1. Flow' = FlowOf(sent, sel + 1, <<>>)
    BY <1>1 DEF Flow, OnTheWay
  <2>2. sent \in Seq(Messages)
    BY DEF FlowTypeOK
  <2> QED
    BY <1>1, <2>1, <2>2, OwedNothing, FlowSent
<1>3. sel' - 1 = sel /\ sel' \in 1 .. Len(Selects)
  BY <1>1, ListAssumption DEF FlowTypeOK, NextSelect
<1>4. \A i \in 1 .. sel' - 1 : i \notin erred' =>
        \A s \in SourcesOf(i) : Placed(Flow', i, s, Len(Tablets(i, s)))
  BY <1>1, <1>2, <1>3, OwedNothing
<1>5. Working'
  <2>1. \A s \in SourcesOf(sel') : pc'[s] = "idle"
    BY <1>1, <1>3, ListAssumption DEF SourcesOf
  <2> QED
    BY <1>1, <2>1, Zenon DEF Working, SourcesOf
<1> QED
  BY <1>1, <1>4, <1>5, Zenon DEF Owed, SourcesOf, Tablets

\* The steps of the provider, the streamer and the handler that start no source.
LEMMA OwedStreamer ==
  ASSUME Owed, Joined, FlowTypeOK, streamer # "err", streamer' # "err",
         \/ ResolveFails \/ GroupDone \/ Report \/ CloseChan
         \/ Receive \/ ChanExhausted \/ ReceiveErr \/ ContextDone \/ SendSplit \/ SendFails
         \/ AllListed \/ ReplyError \/ Cancel \/ Finished \/ UNCHANGED vars
  PROVE  Owed'
<1>1. CASE ResolveFails \/ GroupDone \/ Report \/ CloseChan
  <2>1. /\ UNCHANGED <<sel, ids, pos, pc, sent, cur, streamer, chan>> /\ erred \subseteq erred'
        /\ prov # "resolve" \/ sel \in erred'
    BY <1>1 DEF ResolveFails, GroupDone, Report, CloseChan, streamVars
  <2>2. Flow' = Flow
    BY <2>1 DEF Flow, OnTheWay
  <2>3. streamer' = "ok" => closed' /\ chan' = <<>>
    BY <1>1, <2>1, Zenon DEF Owed, ResolveFails, GroupDone, Report, CloseChan
  <2> QED
    BY <2>1, <2>2, <2>3, OwedKept
<1>2. CASE Receive
  <2>1. /\ UNCHANGED <<sel, ids, pos, pc, sent, erred, prov>> /\ streamer = "select" /\ streamer' = "send"
        /\ cur' = Head(chan) /\ chan' = Tail(chan) /\ chan # <<>> /\ chan \in Seq(Splits)
    BY <1>2 DEF Receive, provVars, FlowTypeOK
  <2>2. <<Head(chan)>> \o Tail(chan) = chan
    BY <2>1
  <2>3. Flow' = Flow
    BY <2>1, <2>2, Zenon DEF Flow, OnTheWay
  <2> QED
    BY <2>1, <2>3, OwedKept
<1>3. CASE SendSplit
  <2>1. /\ UNCHANGED <<sel, ids, pos, pc, chan, erred, prov>> /\ streamer = "send" /\ streamer' = "select"
        /\ sent' = Append(sent, SplitMessage(counter, cur)) /\ chan \in Seq(Splits) /\ sent \in Seq(Messages)
    BY <1>3 DEF SendSplit, provVars, FlowTypeOK
  <2>2. SplitMessage(counter, cur).sel = sel /\ SplitMessage(counter, cur).split = cur
    BY DEF SplitMessage
  <2>3. Flow' = FlowOf(Append(sent, SplitMessage(counter, cur)), sel, chan)
    BY <2>1 DEF Flow, OnTheWay
  <2>4. Flow = FlowOf(sent, sel, <<cur>> \o chan)
    BY <2>1 DEF Flow, OnTheWay
  <2>5. FlowOf(Append(sent, SplitMessage(counter, cur)), sel, chan) = FlowOf(sent, sel, <<cur>> \o chan)
    <3>1. sent \in Seq(Messages) /\ chan \in Seq(Splits)
      BY <2>1, Zenon
    <3> QED
      BY <2>2, <3>1, FlowSend
  <2>6. Flow' = Flow
    BY <2>3, <2>4, <2>5, Zenon
  <2> QED
    BY <2>1, <2>6, OwedKept
<1>4. CASE ChanExhausted \/ ReceiveErr \/ AllListed \/ Cancel \/ Finished \/ UNCHANGED vars
  <2>1. /\ UNCHANGED <<sel, ids, pos, pc, sent, chan, cur, erred, prov, closed>>
        /\ streamer = "send" <=> streamer' = "send"
        /\ streamer' = "ok" => streamer = "ok" \/ (closed /\ chan = <<>>)
    BY <1>4 DEF ChanExhausted, ReceiveErr, AllListed, Cancel, Finished, vars, provVars, streamVars
  <2>2. Flow' = Flow
    BY <2>1 DEF Flow, OnTheWay
  <2>3. streamer' = "ok" => closed' /\ chan' = <<>>
    BY <2>1 DEF Owed
  <2> QED
    BY <2>1, <2>2, <2>3, OwedKept
<1>5. CASE ContextDone \/ SendFails \/ ReplyError
  BY <1>5 DEF ContextDone, SendFails, ReplyError
<1> QED
  BY <1>1, <1>2, <1>3, <1>4, <1>5

\* Appending changes no place that is there.
LEMMA AppendKeeps ==
  ASSUME NEW S, NEW s \in Seq(S), NEW e, NEW k \in DOMAIN s
  PROVE  k \in DOMAIN Append(s, e) /\ Append(s, e)[k] = s[k]
<1>1. k \in 1 .. Len(s) /\ Len(s) \in Nat
  OBVIOUS
<1>2. DOMAIN Append(s, e) = 1 .. Len(s) + 1
  OBVIOUS
<1>3. Append(s, e)[k] = s[k]
  BY <1>1
<1> QED
  BY <1>1, <1>2, <1>3

\* An error that was sent stays sent.
LEMMA ErrorStays ==
  ASSUME FlowTypeOK, [Next]_vars, ErrorSent PROVE ErrorSent'
<1>1. sent' = sent \/ (\E m : sent' = Append(sent, m))
  BY Zenon DEF Next, Provider, Streamer, Source, Cancel, Finished, vars, streamVars, Resolve, ResolveFails,
         GroupDone, Report, CloseChan, Connect, SourceFails, NextTablet, RetryQuery, TabletsKnown, Emit,
         SendGivesUp, SourceDone, Receive, ChanExhausted, ReceiveErr, ContextDone, SendSplit, SendFails,
         NextSelect, AllListed, ReplyError
<1>2. CASE sent' = sent
  BY <1>2 DEF ErrorSent
<1>3. CASE \E m : sent' = Append(sent, m)
  <2>1. PICK m : sent' = Append(sent, m)
    BY <1>3
  <2>2. PICK k \in DOMAIN sent : sent[k].kind = "error"
    BY DEF ErrorSent
  <2>3. k \in DOMAIN Append(sent, m) /\ Append(sent, m)[k] = sent[k]
    BY AppendKeeps DEF FlowTypeOK
  <2>4. k \in DOMAIN sent' /\ sent'[k] = sent[k]
    BY <2>1, <2>3
  <2> QED
    BY <2>2, <2>4 DEF ErrorSent
<1> QED
  BY <1>1, <1>2, <1>3

\* A call starts with everything to do.
LEMMA CompleteInit == Init => Complete
<1> SUFFICES ASSUME Init PROVE Complete
  OBVIOUS
<1>1. /\ sel = 1 /\ handler = "running" /\ streamer = FirstStep(1) /\ prov = FirstProvider(1)
      /\ \A s \in Sources : pc[s] = "idle"
  BY DEF Init
<1>2. \A s \in SourcesOf(sel) : pc[s] = "idle"
  BY <1>1, ListAssumption DEF SourcesOf
<1>3. streamer # "err" => prov = "resolve" /\ streamer = "select"
  BY <1>1 DEF FirstStep, FirstProvider
<1>4. streamer # "err" => Working
  BY <1>2, <1>3 DEF Working
<1>5. \A i \in 1 .. sel - 1 : FALSE
  BY <1>1
<1>6. streamer # "err" => Owed
  BY <1>3, <1>4, <1>5 DEF Owed
<1> QED
  BY <1>1, <1>6, FlowTypeInit DEF Complete

\* Every step keeps what is owed.
LEMMA CompleteStep ==
  ASSUME Complete, Joined, [Next]_vars PROVE Complete'
<1>1. FlowTypeOK /\ FlowTypeOK'
  BY FlowTypeStep DEF Complete
<1>2. ~ErrorSent' /\ streamer' # "err" => Owed'
  <2> SUFFICES ASSUME ~ErrorSent', streamer' # "err" PROVE Owed'
    OBVIOUS
  <2>1. streamer # "err"
    BY Zenon DEF Next, Provider, Streamer, Source, Cancel, Finished, vars, streamVars, Resolve, ResolveFails,
           GroupDone, Report, CloseChan, Connect, SourceFails, NextTablet, RetryQuery, TabletsKnown, Emit,
           SendGivesUp, SourceDone, Receive, ChanExhausted, ReceiveErr, ContextDone, SendSplit, SendFails,
           NextSelect, AllListed, ReplyError
  <2>2. Owed
    BY <1>1, <2>1, ErrorStays DEF Complete
  <2>3. CASE \E s \in Sources : Source(s)
    BY <1>1, <2>2, <2>3, OwedSource
  <2>4. CASE Resolve
    BY <1>1, <2>2, <2>4, OwedResolve
  <2>5. CASE NextSelect
    BY <1>1, <2>2, <2>5, OwedNextSelect
  <2> QED
    BY <1>1, <2>1, <2>2, <2>3, <2>4, <2>5, OwedStreamer DEF Next, Provider, Streamer
<1>3. /\ handler' = "done" /\ streamer' = "err" => ErrorSent' \/ canceled'
      /\ handler' = "done" => streamer' \in {"ok", "err"}
      /\ handler' = "done" /\ streamer' = "ok" => sel' = Len(Selects)
  <2>1. CASE handler = "done"
    <3>1. UNCHANGED <<handler, streamer, sel>> /\ (canceled => canceled')
      BY <2>1, Zenon DEF Complete, Joined, AtRest, Next, Provider, Streamer, Source, Cancel, Finished, vars, streamVars,
           Resolve, ResolveFails, GroupDone, Report, CloseChan, Connect, SourceFails, NextTablet,
           RetryQuery, TabletsKnown, Emit, SendGivesUp, SourceDone, Receive, ChanExhausted, ReceiveErr,
           ContextDone, SendSplit, SendFails, NextSelect, AllListed, ReplyError
    <3> QED
      BY <1>1, <2>1, <3>1, ErrorStays DEF Complete
  <2>2. CASE handler # "done" /\ handler' = "done"
    <3>1. AllListed \/ ReplyError
      BY <2>2, Zenon DEF Next, Provider, Streamer, Source, Cancel, Finished, vars, streamVars,
           Resolve, ResolveFails, GroupDone, Report, CloseChan, Connect, SourceFails, NextTablet,
           RetryQuery, TabletsKnown, Emit, SendGivesUp, SourceDone, Receive, ChanExhausted, ReceiveErr,
           ContextDone, SendSplit, SendFails, NextSelect
    <3>2. CASE AllListed
      BY <3>2 DEF AllListed
    <3>3. CASE ReplyError
      <4>1. streamer' = "err" /\ (canceled' \/ sent' = Append(sent, ErrorMessage))
        BY <3>3 DEF ReplyError
      <4>2. ASSUME sent' = Append(sent, ErrorMessage) PROVE ErrorSent'
        <5>1. Len(sent) + 1 \in DOMAIN sent' /\ sent'[Len(sent) + 1] = ErrorMessage
          BY <1>1, <4>2 DEF FlowTypeOK
        <5> QED
          BY <5>1 DEF ErrorSent, ErrorMessage
      <4> QED
        BY <4>1, <4>2
    <3> QED
      BY <3>1, <3>2, <3>3
  <2> QED
    BY <2>1, <2>2
<1> QED
  BY <1>1, <1>2, <1>3 DEF Complete

\* A ListSplits call that ends without an error, for a client that is still there, has
\* sent every split of every select whose provider worked, in the order of its source
\* and after those of an attempt that was repeated: none is lost between the query, the
\* goroutine of the source, the channel and the streamer, whichever way they interleave
\* and whatever the provider reports while splits are still in the channel.
THEOREM ListingIsComplete == Spec => []CompleteUnlessFailed
<1>1. Complete /\ Joined => CompleteUnlessFailed
  <2> SUFFICES ASSUME Complete, Joined, handler = "done", ~ErrorSent, ~canceled,
                      NEW i \in 1 .. Len(Selects), i \notin erred, NEW s \in SourcesOf(i)
               PROVE  SourceSent(i, s)
    BY Zenon DEF CompleteUnlessFailed, AllSent
  <2>1. FlowTypeOK /\ streamer = "ok" /\ sel = Len(Selects) /\ Owed
    BY DEF Complete
  <2>2. Placed(FlowOf(sent, sel, <<>>), i, s, Len(Tablets(i, s)))
    BY <2>1, OwedNothing
  <2>3. Tablets(i, s) \in Seq(Nat)
    BY ListAssumption DEF SourcesOf, Tablets
  <2> QED
    BY <2>1, <2>2, <2>3, PlacedIsSent
<1>2. Init => Complete /\ Joined
  BY CompleteInit, InitJoined
<1>3. Complete /\ Joined /\ [Next]_vars => (Complete /\ Joined)'
  BY CompleteStep, StepJoined
<1> QED
  BY <1>1, <1>2, <1>3, PTL DEF Spec
=============================================================================
