----------------------------- MODULE ToolsProofs -----------------------------
(***************************************************************************)
(* The programs on the command line, for any table, any streams and any    *)
(* number of shards.  The pages of the splits follow a recursive function, *)
(* which is reasoned about by induction over the natural numbers.          *)
(***************************************************************************)
EXTENDS Tools, WellFoundedInduction, TLAPS

\* The order of the natural numbers, as a set of pairs.
Less == {ss \in Nat \X Nat : ss[1] < ss[2]}

\* The order of the natural numbers is well founded.
LEMMA LessWellFounded == IsWellFoundedOn(Less, Nat)
BY NatLessThanWellFounded DEF OpToRel, Less

\* A set of natural numbers that is not empty has a least member.
LEMMA LeastOf ==
  ASSUME NEW T, T \subseteq Nat, T # {}
  PROVE  \E x \in T : \A y \in T : x <= y
<1>1. PICK x \in T : \A y \in T : ~ (<<y, x>> \in Less)
  BY LessWellFounded, WFMin
<1>2. \A y \in T : ~ (y < x)
  BY <1>1 DEF Less
<1>3. \A y \in T : x <= y
  BY <1>2
<1> QED
  BY <1>3

\* Induction over the natural numbers, on a set instead of a formula.
LEMMA SetInduction ==
  ASSUME NEW S, 0 \in S, \A n \in Nat : n \in S => n + 1 \in S
  PROVE  Nat \subseteq S
<1> DEFINE T == Nat \ S
<1> SUFFICES ASSUME T # {} PROVE FALSE
  OBVIOUS
<1>1. PICK x \in T : \A y \in T : x <= y
  BY LeastOf
<1>2. x # 0 /\ x - 1 \in Nat
  OBVIOUS
<1>3. x - 1 \notin S
  BY <1>2
<1> QED
  BY <1>1, <1>2, <1>3
-----------------------------------------------------------------------------
(* The clients *)

\* The pages of the splits, one after the other.
LEMMA PagesUpToIs ==
  ASSUME NEW splits
  PROVE  PagesUpTo(splits) = [m \in Nat |-> IF m = 0 THEN 0 ELSE PagesUpTo(splits)[m - 1] + splits[m]]
<1> DEFINE Step(m, x) == IF m = 0 THEN 0 ELSE x + splits[m]
           Part(h, n) == h = [m \in 0 .. n |-> Step(m, h[m - 1])]
           part(n) == CHOOSE h : Part(h, n)
           f == [n \in Nat |-> part(n)[n]]
           S == {n \in Nat : \E h : Part(h, n)}
<1>1. \A x, y : Step(0, x) = Step(0, y)
  OBVIOUS
<1> HIDE DEF Step
<1>2. 0 \in S
  <2> DEFINE h0 == [m \in 0 .. 0 |-> Step(0, 0)]
  <2>1. h0 = [m \in 0 .. 0 |-> Step(m, h0[m - 1])]
    <3>1. \A m \in 0 .. 0 : m = 0
      OBVIOUS
    <3> QED
      BY <1>1, <3>1, Zenon
  <2> HIDE DEF h0
  <2> QED
    BY <2>1
<1>3. ASSUME NEW n \in Nat, n \in S PROVE n + 1 \in S
  <2>1. PICK h : Part(h, n)
    BY <1>3
  <2> DEFINE k == [m \in 0 .. (n + 1) |-> Step(m, h[m - 1])]
  <2>2. \A m \in 0 .. n : k[m] = h[m]
    BY <2>1
  <2> HIDE DEF k
  <2>3. \A m \in 0 .. (n + 1) : Step(m, k[m - 1]) = Step(m, h[m - 1])
    <3> TAKE m \in 0 .. (n + 1)
    <3>1. CASE m = 0
      BY <1>1, <3>1
    <3>2. CASE m # 0
      <4>1. k[m - 1] = h[m - 1]
        BY <2>2, <3>2
      <4> QED
        BY <4>1
    <3> QED
      BY <3>1, <3>2
  <2>4. k = [m \in 0 .. (n + 1) |-> Step(m, k[m - 1])]
    BY <2>3, Zenon DEF k
  <2> QED
    BY <2>4
<1>4. \A n \in Nat : Part(part(n), n)
  BY <1>2, <1>3, SetInduction
<1>5. ASSUME NEW a \in Nat, NEW b \in Nat, NEW h, NEW k, Part(h, a), Part(k, b)
      PROVE  \A m \in Nat : m <= a /\ m <= b => h[m] = k[m]
  <2> DEFINE U == {m \in Nat : m <= a /\ m <= b => h[m] = k[m]}
  <2>1. \A m \in Nat : m <= a /\ m <= b => h[m] = Step(m, h[m - 1]) /\ k[m] = Step(m, k[m - 1])
    BY <1>5
  <2>2. 0 \in U
    BY <1>1, <2>1
  <2>3. ASSUME NEW m \in Nat, m \in U PROVE m + 1 \in U
    BY <2>1, <2>3, (m + 1) - 1 = m
  <2> QED
    BY <2>2, <2>3, SetInduction
<1> HIDE DEF part, Part
<1>6. ASSUME NEW n \in Nat PROVE f[n] = Step(n, f[n - 1])
  <2>1. part(n)[n] = Step(n, part(n)[n - 1])
    BY <1>4 DEF Part
  <2>2. CASE n = 0
    BY <1>1, <2>1, <2>2
  <2>3. CASE n # 0
    <3>1. n - 1 \in Nat /\ n - 1 <= n /\ n - 1 <= n - 1
      BY <2>3
    <3>2. part(n)[n - 1] = part(n - 1)[n - 1]
      BY <1>4, <1>5, <3>1
    <3> QED
      BY <2>1, <3>1, <3>2
  <2> QED
    BY <2>2, <2>3
<1>7. f = [n \in Nat |-> Step(n, f[n - 1])]
  BY <1>6
<1> HIDE DEF f
<1> QED
  BY <1>7, Zenon DEF Step, PagesUpTo

\* Pages up to a split: they grow, and are at most those of the table.
LEMMA PagesGrow ==
  ASSUME NEW l \in Seq(Nat)
  PROVE  /\ PagesUpTo(l)[0] = 0
         /\ \A k \in 1 .. Len(l) : PagesUpTo(l)[k] = PagesUpTo(l)[k - 1] + l[k] /\ l[k] \in Nat
         /\ \A k \in 0 .. Len(l) : PagesUpTo(l)[k] \in Nat /\ PagesUpTo(l)[k] <= Pages(l)
         /\ \A k \in 0 .. Len(l) : \A j \in 0 .. k : PagesUpTo(l)[j] <= PagesUpTo(l)[k]
<1> DEFINE P(n) == PagesUpTo(l)[n]
           U == {n \in Nat : n <= Len(l) => P(n) \in Nat}
           V == {n \in Nat : n <= Len(l) => \A k \in 0 .. n : P(k) <= P(n)}
<1>1. P(0) = 0 /\ \A n \in Nat : n + 1 <= Len(l) => P(n + 1) = P(n) + l[n + 1]
  <2>1. \A n \in Nat : P(n) = IF n = 0 THEN 0 ELSE P(n - 1) + l[n]
    <3> DEFINE f == PagesUpTo(l)
    <3>1. f = [m \in Nat |-> IF m = 0 THEN 0 ELSE f[m - 1] + l[m]]
      BY PagesUpToIs, Zenon
    <3> HIDE DEF f
    <3>2. \A n \in Nat : f[n] = IF n = 0 THEN 0 ELSE f[n - 1] + l[n]
      BY <3>1
    <3> QED
      BY <3>2 DEF f
  <2> HIDE DEF P
  <2>2. \A n \in Nat : n + 1 \in Nat /\ n + 1 # 0 /\ n + 1 - 1 = n
    OBVIOUS
  <2> QED
    BY <2>1, <2>2
<1>2. \A k \in 1 .. Len(l) : l[k] \in Nat
  OBVIOUS
<1> HIDE DEF P
<1>3. \A n \in Nat : n <= Len(l) => P(n) \in Nat
  <2>1. 0 \in U
    BY <1>1
  <2>2. \A n \in Nat : n \in U => n + 1 \in U
    <3> SUFFICES ASSUME NEW n \in Nat, n \in U, n + 1 <= Len(l) PROVE P(n + 1) \in Nat
      OBVIOUS
    <3>1. P(n) \in Nat /\ l[n + 1] \in Nat
      BY <1>2
    <3> QED
      BY <1>1, <3>1
  <2>3. Nat \subseteq U
    <3> HIDE DEF U
    <3> QED
      BY <2>1, <2>2, SetInduction
  <2> QED
    BY <2>3
<1>4. \A n \in Nat : n <= Len(l) => \A k \in 0 .. n : P(k) <= P(n)
  <2>1. 0 \in V
    BY <1>1
  <2>2. ASSUME NEW n \in Nat, n \in V PROVE n + 1 \in V
    <3> SUFFICES ASSUME n + 1 <= Len(l), NEW k \in 0 .. (n + 1) PROVE P(k) <= P(n + 1)
      OBVIOUS
    <3>1. P(n) <= P(n + 1) /\ P(n) \in Nat /\ P(n + 1) \in Nat /\ P(k) \in Nat
      BY <1>1, <1>2, <1>3
    <3>2. CASE k = n + 1
      BY <3>1, <3>2
    <3>3. CASE k \in 0 .. n
      <4>1. P(k) <= P(n)
        BY <2>2, <3>3
      <4> QED
        BY <3>1, <4>1
    <3> QED
      BY <3>2, <3>3
  <2>3. Nat \subseteq V
    <3> HIDE DEF V
    <3> QED
      BY <2>1, <2>2, SetInduction
  <2> QED
    BY <2>3
<1>5. Len(l) \in Nat /\ Pages(l) = P(Len(l))
  BY DEF Pages, P
<1>6. \A k \in 1 .. Len(l) : P(k) = P(k - 1) + l[k]
  <2> SUFFICES ASSUME NEW k \in 1 .. Len(l) PROVE P(k) = P(k - 1) + l[k]
    OBVIOUS
  <2>1. k - 1 \in Nat /\ (k - 1) + 1 = k /\ k <= Len(l)
    BY <1>5
  <2> QED
    BY <1>1, <2>1
<1>7. \A k \in 0 .. Len(l) : P(k) \in Nat /\ P(k) <= P(Len(l))
  <2>1. \A k \in 0 .. Len(l) : k \in Nat /\ k <= Len(l) /\ Len(l) <= Len(l)
    BY <1>5
  <2> QED
    BY <1>3, <1>4, <1>5, <2>1, Zenon
<1>8. \A k \in 0 .. Len(l) : \A j \in 0 .. k : P(j) <= P(k)
  BY <1>4, <1>5
<1> QED
  BY <1>1, <1>2, <1>5, <1>6, <1>7, <1>8 DEF P

Hands == {"none", "item", "error", "broken"}
Streams ==
  [pc : {"none", "recv", "send", "closed"}, next : Nat, length : Nat, ended : BOOLEAN, hand : Hands]

\* A stream has not given more than it has.
StreamOK(st) ==
  /\ st \in Streams
  /\ 1 <= st.next /\ st.next <= st.length + 1
  /\ st.pc = "send" /\ st.hand = "item" => 2 <= st.next

\* What its receiver has taken from a stream.
Taken(st) == IF st.pc = "send" /\ st.hand = "item" THEN st.next - 2 ELSE st.next - 1

\* A stream that nobody has cancelled ends after its last answer, or with an error,
\* which is in hand.
Faithful(st) ==
  /\ st.ended => st.pc = "send" /\ st.hand = "error"
  /\ st.pc = "closed" => st.next = st.length + 1

\* What a receiver has taken is in the stream.
LEMMA TakenIs ==
  ASSUME NEW st, StreamOK(st)
  PROVE  /\ Taken(st) \in 0 .. st.length /\ st.length \in Nat /\ st.next \in Nat
         /\ st.pc = "closed" /\ Faithful(st) => Taken(st) = st.length
         /\ st.pc = "send" /\ st.hand = "item" => st.next - 1 = Taken(st) + 1 /\ st.next - 1 \in 1 .. st.length
BY DEF StreamOK, Streams, Taken, Faithful

\* A stream begins.
LEMMA StreamBegins ==
  ASSUME NEW n \in Nat, NEW p \in {"none", "recv"}
  PROVE  /\ StreamOK(Stream(n, p)) /\ Faithful(Stream(n, p)) /\ Taken(Stream(n, p)) = 0
         /\ Stream(n, p).length = n /\ Stream(n, p).pc = p /\ Stream(n, p).next = 1
         /\ ~Stream(n, p).ended
BY DEF StreamOK, Streams, Hands, Stream, Taken, Faithful

\* Recv of a stream returns: what the receiver has taken is the same.
Received(st, answer) ==
  IF answer = "eof" THEN [st EXCEPT !.pc = "closed"] ELSE [Advanced(st, answer) EXCEPT !.pc = "send"]
\* A message received, or the end of the stream, keeps the stream sound.
LEMMA StreamReceives ==
  ASSUME NEW st, StreamOK(st), st.pc = "recv", NEW answer \in Answers(st), NEW new,
         new = Received(st, answer)
  PROVE  /\ StreamOK(new) /\ new.length = st.length /\ Taken(new) = Taken(st) /\ new.pc # "none"
         /\ Faithful(st) /\ ~TooEarly(st, answer) => Faithful(new)
<1>1. /\ answer \in {"broken", "eof", "error", "item"}
      /\ answer = "item" => ~st.ended /\ ~(st.next > st.length)
      /\ answer = "eof" /\ ~TooEarly(st, answer) => st.ended \/ ~(st.next <= st.length)
  BY DEF Answers, TooEarly
<1>2. st \in Streams /\ 1 <= st.next /\ st.next <= st.length + 1
  BY DEF StreamOK
<1>3. CASE answer = "eof"
  <2>1. new = [st EXCEPT !.pc = "closed"]
    BY <1>3 DEF Received
  <2>2. /\ new \in Streams /\ new.pc = "closed" /\ new.next = st.next /\ new.length = st.length
        /\ new.ended = st.ended /\ new.hand = st.hand
    BY <1>2, <2>1 DEF Streams
  <2> QED
    BY <1>1, <1>2, <1>3, <2>2 DEF StreamOK, Taken, Faithful, Streams
<1>4. CASE answer # "eof"
  <2>1. new = [Advanced(st, answer) EXCEPT !.pc = "send"]
    BY <1>4 DEF Received
  <2>2. /\ new.pc = "send" /\ new.next = (IF answer = "item" THEN st.next + 1 ELSE st.next)
        /\ new.length = st.length /\ new.hand = answer
    BY <1>2, <2>1 DEF Streams, Advanced
  <2>3. new.ended = (st.ended \/ answer = "error")
    BY <1>2, <2>1, Zenon DEF Streams, Advanced
  <2>4. new = [pc |-> "send", next |-> new.next, length |-> st.length, ended |-> new.ended, hand |-> answer]
    BY <1>2, <2>1, <2>2 DEF Streams, Advanced
  <2>5. new.ended \in BOOLEAN
    BY <2>3
  <2>6. new \in Streams
    BY <1>1, <1>2, <1>4, <2>2, <2>4, <2>5 DEF Streams, Hands
  <2>7. new.ended => st.ended \/ answer = "error"
    BY <2>3
  <2> QED
    BY <1>1, <1>2, <1>4, <2>2, <2>6, <2>7 DEF StreamOK, Taken, Faithful, Streams
<1> QED
  BY <1>3, <1>4

\* The context of a stream is done: an answer in hand is lost.
LEMMA StreamCanceled ==
  ASSUME NEW st, StreamOK(st), st.pc = "send", NEW new, new = [st EXCEPT !.pc = "closed"]
  PROVE  StreamOK(new) /\ new.length = st.length /\ Taken(new) >= Taken(st) /\ new.pc # "none"
<1>1. /\ new \in Streams /\ new.pc = "closed" /\ new.next = st.next /\ new.length = st.length
  BY DEF StreamOK, Streams
<1> QED
  BY <1>1 DEF StreamOK, Taken, Streams

\* An answer is received.
LEMMA StreamSent ==
  ASSUME NEW st, StreamOK(st), st.pc = "send"
  PROVE  /\ StreamOK(Sent(st)) /\ Sent(st).length = st.length
         /\ st.hand = "item" => /\ Taken(Sent(st)) = Taken(st) + 1 /\ Sent(st).pc = "recv"
                                /\ Faithful(st) => Faithful(Sent(st))
<1>1. /\ Sent(st) \in Streams /\ Sent(st).next = st.next /\ Sent(st).length = st.length
      /\ Sent(st).ended = st.ended /\ Sent(st).pc \in {"recv", "closed"}
      /\ st.hand = "item" => Sent(st).pc = "recv"
  BY DEF StreamOK, Streams, Sent
<1> QED
  BY <1>1 DEF StreamOK, Taken, Faithful, Streams

\* A command keeps an answer.
LEMMA StreamDumped ==
  ASSUME NEW st, StreamOK(st), st.pc = "recv", NEW answer \in Answers(st), answer \notin {"broken", "eof"},
         NEW new, new = Advanced(st, answer)
  PROVE  StreamOK(new) /\ new.length = st.length /\ new.pc = "recv"
<1>1. /\ answer \in {"error", "item"}
      /\ answer = "item" => ~(st.next > st.length)
  BY DEF Answers
<1>2. st \in Streams /\ 1 <= st.next /\ st.next <= st.length + 1
  BY DEF StreamOK
<1>3. /\ new.pc = "recv" /\ new.next = (IF answer = "item" THEN st.next + 1 ELSE st.next)
      /\ new.length = st.length /\ new.hand = answer
  BY <1>2 DEF Streams, Advanced
<1>4. new.ended = (st.ended \/ answer = "error")
  BY <1>2, Zenon DEF Streams, Advanced
<1>5. new = [pc |-> "recv", next |-> new.next, length |-> st.length, ended |-> new.ended, hand |-> answer]
  BY <1>2, <1>3 DEF Streams, Advanced
<1>6. new.ended \in BOOLEAN
  BY <1>4
<1>7. new \in Streams
  BY <1>1, <1>2, <1>3, <1>5, <1>6 DEF Streams, Hands
<1> QED
  BY <1>1, <1>2, <1>3, <1>7 DEF StreamOK, Streams

\* The pages of the scenarios that are over, of the splits that were taken, and of the
\* current split that are still to come.
Due == scenarios * Pages(listing)
Behind == PagesUpTo(listing)[Taken(stream["list"])]
Ahead == stream["read"].length - Taken(stream["read"])

ClientsType ==
  /\ tool \in {"bench", "read_table", "list_splits"}
  /\ listing \in Listings
  /\ stream \in [{"list", "read"} -> Streams]
  /\ StreamOK(stream["list"]) /\ StreamOK(stream["read"])
  /\ registered \in Nat /\ scenarios \in Nat
  /\ testCase \in 1 .. TestCases
  /\ toolOutcome = "ok" => toolPc = "over"

\* The commands.
CommandsInv ==
  tool # "bench" =>
    /\ toolPc \in {"start", "describe", "list", "listed", "read", "shown", "over"}
    /\ toolPc \in {"list", "listed", "read", "shown"} =>
         stream["list"].length = Len(listing) /\ stream["list"].pc = "recv"
    /\ toolPc \in {"listed", "read", "shown"} =>
         stream["list"].ended \/ stream["list"].next = stream["list"].length + 1 \/ cutShort
    /\ toolPc \in {"read", "shown"} =>
         /\ tool = "read_table" /\ stream["read"].pc = "recv"
         /\ stream["read"].length = PagesUpTo(listing)[stream["list"].next - 1]
    /\ toolPc = "shown" =>
         stream["read"].ended \/ stream["read"].next = stream["read"].length + 1 \/ cutShort
    /\ tool = "list_splits" /\ toolOutcome = "ok" => registered = Len(listing) \/ cutShort
    /\ tool = "read_table" /\ toolOutcome = "ok" =>
         registered = Pages(listing) \/ stream["list"].ended \/ cutShort

\* The pages that the benchmark has registered.
Registered ==
  /\ toolPc = "start" => registered = 0 /\ scenarios = 0
  /\ toolPc \in {"start", "limiter", "describe", "finish", "stop"} =>
       registered <= Due /\ (Undisturbed => registered = Due)
  /\ toolPc \in {"range", "read"} =>
       /\ stream["list"].length = Len(listing) /\ stream["list"].pc # "none"
       /\ Undisturbed => Faithful(stream["list"])
  /\ toolPc = "range" => registered <= Due + Behind /\ (Undisturbed => registered = Due + Behind)
  /\ toolPc = "read" =>
       /\ stream["read"].pc # "none"
       /\ Undisturbed => Faithful(stream["read"])
       /\ registered + Ahead <= Due + Behind
       /\ Undisturbed => registered + Ahead = Due + Behind

\* The reports that were saved: of every test case that has a name of its own, and of the
\* last of those that share one.
Saved == IF toolOutcome = "ok" THEN testCase ELSE testCase - 1
Reports ==
  /\ \A f \in files : f.name = FileName(f.testCase)
  /\ \A f \in files : f.pages <= f.scenarios * Pages(listing)
  /\ Undisturbed => \A f \in files : f.pages = f.scenarios * Pages(listing)
  /\ {f.testCase : f \in files} = Kept(Saved)
  /\ toolOutcome = "ok" => testCase = TestCases

BenchInv == tool = "bench" => Registered /\ Reports

ClientsInv == ClientsType /\ CommandsInv /\ BenchInv

\* What the pages are.
LEMMA PagesAre ==
  ASSUME ClientsType
  PROVE  /\ listing \in Seq(Nat) /\ Len(listing) \in Nat /\ Pages(listing) \in Nat /\ Due \in Nat
         /\ Ahead \in Nat
         /\ stream["list"].length = Len(listing) => Behind \in Nat /\ Behind <= Pages(listing)
<1>1. listing \in Seq(Nat) /\ Len(listing) \in Nat
  BY ClientsAssumption DEF ClientsType
<1>2. Pages(listing) \in Nat
  <2>1. Len(listing) \in 0 .. Len(listing)
    BY <1>1
  <2> QED
    BY <1>1, <2>1, PagesGrow, Zenon DEF Pages
<1>3. Due \in Nat
  BY <1>2 DEF Due, ClientsType
<1>4. Ahead \in Nat
  <2>1. Taken(stream["read"]) \in 0 .. stream["read"].length /\ stream["read"].length \in Nat
    BY TakenIs, Zenon DEF ClientsType
  <2> QED
    BY <2>1 DEF Ahead
<1>5. ASSUME stream["list"].length = Len(listing)
      PROVE  Behind \in Nat /\ Behind <= Pages(listing)
  <2>1. Taken(stream["list"]) \in 0 .. Len(listing)
    BY <1>5, TakenIs, Zenon DEF ClientsType
  <2> QED
    BY <1>1, <2>1, PagesGrow, Zenon DEF Behind
<1> QED
  BY <1>1, <1>2, <1>3, <1>4, <1>5

\* The program starts.
LEMMA ClientsStart == ClientsInit => ClientsInv
<1> SUFFICES ASSUME ClientsInit PROVE ClientsInv
  OBVIOUS
<1> DEFINE none == Stream(0, "none")
<1>1. StreamOK(none) /\ none \in Streams /\ 0 \in Nat
  BY StreamBegins DEF StreamOK
<1>2. stream = [s \in {"list", "read"} |-> none]
  BY Zenon DEF ClientsInit
<1> HIDE DEF none
<1>3. stream["list"] = none /\ stream["read"] = none /\ stream \in [{"list", "read"} -> Streams]
  BY <1>1, <1>2
<1>4. ClientsType
  BY <1>1, <1>3, ClientsAssumption DEF ClientsInit, ClientsType
<1>5. CommandsInv
  BY DEF ClientsInit, CommandsInv
<1>6. Due = 0
  BY <1>4, PagesAre DEF ClientsInit, Due
<1>7. Registered
  BY <1>6 DEF ClientsInit, Registered
<1>8. Reports
  <2>1. files = {} /\ Saved = 0
    BY DEF ClientsInit, Saved
  <2>2. Kept(0) = {}
    BY DEF Kept
  <2>3. {f.testCase : f \in files} = Kept(Saved)
    BY <2>1, <2>2
  <2>4. toolOutcome # "ok"
    BY DEF ClientsInit
  <2> QED
    BY <2>1, <2>3, <2>4, Zenon DEF Reports
<1> QED
  BY <1>4, <1>5, <1>7, <1>8 DEF ClientsInv, BenchInv

\* A step that leaves the pages and the streams as they are to their receivers.
LEMMA RegisteredStays ==
  ASSUME Registered, ClientsType, ClientsType',
         UNCHANGED <<listing, registered, scenarios, toolPc>>, Undisturbed' => Undisturbed,
         \A s \in {"list", "read"} :
           /\ stream'[s].length = stream[s].length /\ Taken(stream'[s]) = Taken(stream[s])
           /\ stream[s].pc # "none" => stream'[s].pc # "none"
           /\ Undisturbed' /\ Faithful(stream[s]) => Faithful(stream'[s])
  PROVE  Registered'
<1>1. Due' = Due
  BY Zenon DEF Due
<1>2. Behind' = Behind
  <2>1. Taken(stream'["list"]) = Taken(stream["list"])
    BY Zenon
  <2> QED
    BY <2>1, Zenon DEF Behind
<1>3. Ahead' = Ahead
  <2>1. Taken(stream'["read"]) = Taken(stream["read"]) /\ stream'["read"].length = stream["read"].length
    BY Zenon
  <2> QED
    BY <2>1, Zenon DEF Ahead
<1>4. /\ stream'["list"].length = stream["list"].length
      /\ stream["list"].pc # "none" => stream'["list"].pc # "none"
      /\ stream["read"].pc # "none" => stream'["read"].pc # "none"
      /\ Undisturbed' /\ Faithful(stream["list"]) => Faithful(stream'["list"])
      /\ Undisturbed' /\ Faithful(stream["read"]) => Faithful(stream'["read"])
  BY Zenon
<1> HIDE DEF Due, Behind, Ahead, Faithful
<1>5. toolPc' = toolPc /\ registered' = registered /\ scenarios' = scenarios /\ listing' = listing
  BY Zenon
<1>6. toolPc' = "start" => registered' = 0 /\ scenarios' = 0
  BY <1>5 DEF Registered
<1>7. toolPc' \in {"start", "limiter", "describe", "finish", "stop"} =>
        registered' <= Due' /\ (Undisturbed' => registered' = Due')
  BY <1>1, <1>5 DEF Registered
<1>8. toolPc' \in {"range", "read"} =>
        /\ stream'["list"].length = Len(listing') /\ stream'["list"].pc # "none"
        /\ Undisturbed' => Faithful(stream'["list"])
  BY <1>4, <1>5 DEF Registered
<1>9. toolPc' = "range" => registered' <= Due' + Behind' /\ (Undisturbed' => registered' = Due' + Behind')
  BY <1>1, <1>2, <1>5 DEF Registered
<1>10. toolPc' = "read" =>
        /\ stream'["read"].pc # "none"
        /\ Undisturbed' => Faithful(stream'["read"])
  BY <1>4, <1>5 DEF Registered
<1>11. toolPc' = "read" =>
        /\ registered' + Ahead' <= Due' + Behind'
        /\ Undisturbed' => registered' + Ahead' = Due' + Behind'
  BY <1>1, <1>2, <1>3, <1>5 DEF Registered
<1> QED
  BY <1>6, <1>7, <1>8, <1>9, <1>10, <1>11, Zenon DEF Registered

\* A step that saves no report.
LEMMA ReportsStay ==
  ASSUME Reports, toolOutcome # "ok", toolOutcome' # "ok", UNCHANGED <<files, testCase, listing, remote, caseNames>>,
         Undisturbed' => Undisturbed
  PROVE  Reports'
<1>1. Saved' = Saved
  BY DEF Saved
<1>2. \A t : FileName(t)' = FileName(t)
  BY Zenon DEF FileName
<1>3. \A n : Kept(n)' = Kept(n)
  BY <1>2, Zenon DEF Kept
<1> QED
  BY <1>1, <1>2, <1>3, Zenon DEF Reports

\* A step that changes one of the streams, or none.
LEMMA ClientsTyped ==
  ASSUME ClientsType, NEW s \in {"list", "read"}, NEW new, StreamOK(new),
         stream' = [stream EXCEPT ![s] = new], UNCHANGED <<tool, listing, testCase>>,
         registered' \in Nat, scenarios' \in Nat, toolOutcome' = "ok" => toolPc' = "over"
  PROVE  /\ ClientsType'
         /\ stream'[s] = new /\ \A t \in {"list", "read"} : t # s => stream'[t] = stream[t]
<1>1. new \in Streams
  BY DEF StreamOK
<1>2. stream \in [{"list", "read"} -> Streams]
  BY DEF ClientsType
<1>3. /\ stream' \in [{"list", "read"} -> Streams]
      /\ stream'[s] = new /\ \A t \in {"list", "read"} : t # s => stream'[t] = stream[t]
  BY <1>1, <1>2
<1>4. StreamOK(stream'["list"]) /\ StreamOK(stream'["read"])
  <2>1. StreamOK(stream["list"]) /\ StreamOK(stream["read"])
    BY DEF ClientsType
  <2> QED
    BY <1>3, <2>1, Zenon
<1> QED
  BY <1>3, <1>4 DEF ClientsType

\* A step that leaves the streams alone keeps the types.
LEMMA ClientsTypedSame ==
  ASSUME ClientsType, UNCHANGED <<tool, listing, testCase, stream>>,
         registered' \in Nat, scenarios' \in Nat, toolOutcome' = "ok" => toolPc' = "over"
  PROVE  ClientsType'
BY DEF ClientsType

\* Recv returns in a goroutine of the benchmark.
LEMMA ReceiveAnswerKeeps ==
  ASSUME ClientsInv, NEW s \in DOMAIN stream, ReceiveAnswer(s)
  PROVE  ClientsInv'
<1>1. ClientsType /\ BenchInv /\ tool = "bench"
  BY DEF ClientsInv, ReceiveAnswer
<1>2. s \in {"list", "read"} /\ StreamOK(stream[s]) /\ stream[s].pc = "recv"
  BY <1>1 DEF ClientsType, ReceiveAnswer
<1>3. PICK answer \in Answers(stream[s]) :
        /\ stream' = [stream EXCEPT ![s] =
                        IF answer = "eof" THEN [@ EXCEPT !.pc = "closed"]
                        ELSE [Advanced(@, answer) EXCEPT !.pc = "send"]]
        /\ cutShort' = (cutShort \/ TooEarly(stream[s], answer))
  BY Zenon DEF ReceiveAnswer
<1>4. PICK new : new = Received(stream[s], answer)
  OBVIOUS
<1>5. stream' = [stream EXCEPT ![s] = new]
  BY <1>3, <1>4, Zenon DEF Received
<1>6. /\ StreamOK(new) /\ new.length = stream[s].length /\ Taken(new) = Taken(stream[s]) /\ new.pc # "none"
      /\ Faithful(stream[s]) /\ ~TooEarly(stream[s], answer) => Faithful(new)
  BY <1>2, <1>4, StreamReceives
<1>0. canceled' = canceled /\ (Undisturbed' => Undisturbed /\ ~TooEarly(stream[s], answer))
  <2>1. canceled' = canceled
    BY DEF ReceiveAnswer
  <2> QED
    BY <1>3, <2>1, Zenon DEF Undisturbed
<1>7. UNCHANGED <<tool, remote, caseNames, listing, testCase, registered, scenarios, files, toolOutcome, toolPc>>
  BY DEF ReceiveAnswer, inputs
<1>8. toolOutcome # "ok" /\ toolOutcome' # "ok"
  BY <1>1, <1>7 DEF ReceiveAnswer, ClientsType
<1>9. ClientsType' /\ stream'[s] = new /\ \A t \in {"list", "read"} : t # s => stream'[t] = stream[t]
  <2>1. registered' \in Nat /\ scenarios' \in Nat
    BY <1>1, <1>7 DEF ClientsType
  <2> QED
    BY <1>1, <1>2, <1>5, <1>6, <1>7, <1>8, <2>1, ClientsTyped
<1>10. Registered'
  <2>1. \A t \in {"list", "read"} :
           /\ stream'[t].length = stream[t].length /\ Taken(stream'[t]) = Taken(stream[t])
           /\ stream[t].pc # "none" => stream'[t].pc # "none"
           /\ Undisturbed' /\ Faithful(stream[t]) => Faithful(stream'[t])
    BY <1>0, <1>6, <1>9, Zenon
  <2> QED
    BY <1>0, <1>1, <1>7, <1>9, <2>1, RegisteredStays DEF BenchInv
<1>11. Reports'
  BY <1>0, <1>1, <1>7, <1>8, ReportsStay DEF BenchInv
<1> QED
  BY <1>1, <1>7, <1>9, <1>10, <1>11 DEF ClientsInv, BenchInv, CommandsInv

\* The context is done in a goroutine of the benchmark.
LEMMA SendAnswerCanceledKeeps ==
  ASSUME ClientsInv, NEW s \in DOMAIN stream, SendAnswerCanceled(s)
  PROVE  ClientsInv'
<1>1. ClientsType /\ BenchInv /\ tool = "bench" /\ ~Undisturbed'
  BY DEF ClientsInv, SendAnswerCanceled, Undisturbed
<1>2. s \in {"list", "read"} /\ StreamOK(stream[s]) /\ stream[s].pc = "send"
  BY <1>1 DEF ClientsType, SendAnswerCanceled
<1>3. PICK new : new = [stream[s] EXCEPT !.pc = "closed"]
  OBVIOUS
<1>4. stream' = [stream EXCEPT ![s] = new]
  BY <1>3, Zenon DEF SendAnswerCanceled
<1>5. StreamOK(new) /\ new.length = stream[s].length /\ Taken(new) >= Taken(stream[s]) /\ new.pc # "none"
  BY <1>2, <1>3, StreamCanceled
<1>6. UNCHANGED <<tool, remote, caseNames, listing, testCase, registered, scenarios, files, toolOutcome, toolPc>>
  BY DEF SendAnswerCanceled, inputs
<1>7. toolOutcome # "ok" /\ toolOutcome' # "ok"
  BY <1>1, <1>6 DEF SendAnswerCanceled, ClientsType
<1>8. ClientsType' /\ stream'[s] = new /\ \A t \in {"list", "read"} : t # s => stream'[t] = stream[t]
  <2>1. registered' \in Nat /\ scenarios' \in Nat
    BY <1>1, <1>6 DEF ClientsType
  <2> QED
    BY <1>1, <1>2, <1>4, <1>5, <1>6, <1>7, <2>1, ClientsTyped
<1>9. \A t \in {"list", "read"} :
           /\ stream'[t].length = stream[t].length
           /\ Taken(stream'[t]) \in Nat /\ Taken(stream[t]) \in Nat
           /\ Taken(stream'[t]) <= stream[t].length /\ Taken(stream'[t]) >= Taken(stream[t])
           /\ stream[t].pc # "none" => stream'[t].pc # "none"
  <2>1. \A t \in {"list", "read"} :
          Taken(stream[t]) \in 0 .. stream[t].length /\ stream[t].length \in Nat
    BY <1>1, TakenIs, Zenon DEF ClientsType
  <2>2. Taken(new) \in 0 .. new.length
    BY <1>5, TakenIs, Zenon
  <2> QED
    BY <1>2, <1>5, <1>8, <2>1, <2>2
<1>10. Due' = Due /\ Due \in Nat /\ registered \in Nat /\ Ahead \in Nat /\ Ahead' \in Nat
  <2>1. Due' = Due
    BY <1>6, Zenon DEF Due
  <2>2. Taken(stream'["read"]) \in 0 .. stream'["read"].length /\ stream'["read"].length \in Nat
    BY <1>8, TakenIs, Zenon DEF ClientsType
  <2>3. Ahead' \in Nat
    BY <2>2 DEF Ahead
  <2>4. registered \in Nat
    BY <1>1 DEF ClientsType
  <2> QED
    BY <1>1, <2>1, <2>3, <2>4, PagesAre
<1>11. Ahead' <= Ahead
  <2>1. stream["read"].length \in Nat
    BY <1>1, TakenIs, Zenon DEF ClientsType
  <2> QED
    BY <1>9, <2>1 DEF Ahead
<1>12. stream["list"].length = Len(listing) => Behind \in Nat /\ Behind' \in Nat /\ Behind <= Behind'
  <2> SUFFICES ASSUME stream["list"].length = Len(listing)
               PROVE  Behind \in Nat /\ Behind' \in Nat /\ Behind <= Behind'
    OBVIOUS
  <2> DEFINE k == Taken(stream'["list"])  j == Taken(stream["list"])
  <2>1. listing \in Seq(Nat) /\ Len(listing) \in Nat
    BY <1>1, PagesAre
  <2>2. k \in 0 .. Len(listing) /\ j \in 0 .. k /\ j \in 0 .. Len(listing)
    BY <1>9, <2>1
  <2>3. Behind = PagesUpTo(listing)[j] /\ Behind' = PagesUpTo(listing)[k]
    BY <1>6, Zenon DEF Behind
  <2> HIDE DEF j, k
  <2> QED
    BY <2>1, <2>2, <2>3, PagesGrow, Zenon
<1>13. Registered'
  <2>1. Registered
    BY <1>1 DEF BenchInv
  <2>2. stream'["list"].length = stream["list"].length
        /\ (stream["list"].pc # "none" => stream'["list"].pc # "none")
        /\ (stream["read"].pc # "none" => stream'["read"].pc # "none")
    BY <1>9, Zenon
  <2>3. ~Undisturbed' /\ listing' = listing /\ registered' = registered /\ scenarios' = scenarios /\ toolPc' = toolPc
    BY <1>1, <1>6
  <2> HIDE DEF Due, Ahead, Behind
  <2>4. toolPc' = "range" => registered' <= Due' + Behind'
    BY <1>10, <1>12, <2>1, <2>3 DEF Registered
  <2>5. toolPc' = "read" => registered' + Ahead' <= Due' + Behind'
    BY <1>10, <1>11, <1>12, <2>1, <2>3 DEF Registered
  <2> QED
    BY <1>10, <2>1, <2>2, <2>3, <2>4, <2>5 DEF Registered
<1>14. Reports'
  BY <1>1, <1>6, <1>7, ReportsStay DEF BenchInv
<1> QED
  BY <1>1, <1>6, <1>8, <1>13, <1>14 DEF ClientsInv, BenchInv, CommandsInv

\* A command receives an answer.
LEMMA DumpStreamKeeps ==
  ASSUME ClientsInv, NEW s, NEW next, DumpStream(s, next),
         (s = "list" /\ next = "listed") \/ (s = "read" /\ next = "shown")
  PROVE  ClientsInv'
<1>1. ClientsType /\ CommandsInv /\ tool # "bench" /\ toolPc = s /\ s \in {"list", "read"}
  BY DEF ClientsInv, DumpStream
<1>2. UNCHANGED <<tool, listing, testCase, registered, scenarios>> /\ (cutShort => cutShort')
  BY DEF DumpStream, inputs
<1>3. registered' \in Nat /\ scenarios' \in Nat /\ toolOutcome # "ok"
  BY <1>1, <1>2 DEF ClientsType
<1>4. StreamOK(stream[s]) /\ stream[s].pc = "recv" /\ stream["list"].next \in Nat /\ stream["read"].next \in Nat
      /\ stream["list"].next <= stream["list"].length + 1 /\ stream["read"].next <= stream["read"].length + 1
      /\ stream["list"].length \in Nat /\ stream["read"].length \in Nat
  BY <1>1 DEF ClientsType, CommandsInv, StreamOK, Streams
<1>5. PICK answer \in Answers(stream[s]) :
        /\ CASE answer = "broken" -> Ends("failed") /\ UNCHANGED stream
             [] answer = "eof" -> Continues(next) /\ UNCHANGED stream
             [] OTHER -> stream' = [stream EXCEPT ![s] = Advanced(@, answer)]
                         /\ Continues(toolPc)
        /\ cutShort' = (cutShort \/ TooEarly(stream[s], answer))
  BY Zenon DEF DumpStream
<1>6. CASE answer = "broken"
  <2>1. toolPc' = "over" /\ toolOutcome' = "failed" /\ stream' = stream
    BY <1>5, <1>6 DEF Ends
  <2>2. ClientsType'
    BY <1>1, <1>2, <1>3, <2>1, ClientsTypedSame
  <2>3. CommandsInv'
    BY <1>1, <1>2, <2>1 DEF CommandsInv
  <2> QED
    BY <1>1, <1>2, <2>2, <2>3 DEF ClientsInv, BenchInv
<1>7. CASE answer = "eof"
  <2>1. toolPc' = next /\ toolOutcome' = toolOutcome /\ stream' = stream
    BY <1>5, <1>7 DEF Continues
  <2>2. stream[s].ended \/ stream[s].next = stream[s].length + 1 \/ cutShort'
    <3>1. TooEarly(stream[s], answer) => cutShort'
      BY <1>5, Zenon
    <3> QED
      BY <1>1, <1>4, <1>7, <3>1 DEF TooEarly
  <2>3. ClientsType'
    BY <1>1, <1>2, <1>3, <2>1, ClientsTypedSame
  <2>4. CommandsInv'
    BY <1>1, <1>2, <1>3, <2>1, <2>2 DEF CommandsInv
  <2> QED
    BY <1>1, <1>2, <2>3, <2>4 DEF ClientsInv, BenchInv
<1>8. CASE answer \notin {"broken", "eof"}
  <2>1. PICK new : new = Advanced(stream[s], answer)
    OBVIOUS
  <2>2. stream' = [stream EXCEPT ![s] = new] /\ toolPc' = toolPc /\ toolOutcome' = toolOutcome
    <3>1. answer # "broken" /\ answer # "eof"
      BY <1>8
    <3>2. stream' = [stream EXCEPT ![s] = Advanced(@, answer)] /\ Continues(toolPc)
      BY <1>5, <3>1, Zenon
    <3> QED
      BY <2>1, <3>2, Zenon DEF Continues
  <2>3. StreamOK(new) /\ new.length = stream[s].length /\ new.pc = "recv"
    BY <1>4, <1>8, <2>1, StreamDumped, Zenon
  <2>4. ClientsType' /\ stream'[s] = new /\ \A t \in {"list", "read"} : t # s => stream'[t] = stream[t]
    BY <1>1, <1>2, <1>3, <2>2, <2>3, ClientsTyped
  <2>5. CommandsInv'
    <3>1. CASE s = "list"
      BY <1>1, <1>2, <1>3, <2>2, <2>3, <2>4, <3>1 DEF CommandsInv
    <3>2. CASE s = "read"
      <4>1. stream'["list"] = stream["list"]
        BY <2>4, <3>2
      <4> QED
        BY <1>1, <1>2, <1>3, <2>2, <2>3, <2>4, <3>2, <4>1 DEF CommandsInv
    <3> QED
      BY <1>1, <3>1, <3>2
  <2> QED
    BY <1>1, <1>2, <2>4, <2>5 DEF ClientsInv, BenchInv
<1> QED
  BY <1>6, <1>7, <1>8

\* The steps of the commands.
LEMMA CommandsStep ==
  ASSUME ClientsInv, tool # "bench", StartClient \/ ShowSplits \/ RequestSplits \/ ShowPages \/ CallDescribeTable
  PROVE  ClientsInv'
<1>1. ClientsType /\ CommandsInv
  BY DEF ClientsInv
<1>2. UNCHANGED <<tool, listing, testCase, scenarios, cutShort>>
  BY DEF StartClient, ShowSplits, RequestSplits, ShowPages, CallDescribeTable, inputs
<1>3. scenarios' \in Nat /\ registered \in Nat /\ toolOutcome # "ok"
  BY <1>1, <1>2 DEF ClientsType, StartClient, ShowSplits, RequestSplits, ShowPages, CallDescribeTable
<1>4. /\ stream["list"].next \in Nat /\ stream["read"].next \in Nat
      /\ 1 <= stream["list"].next /\ 1 <= stream["read"].next
      /\ stream["list"].next <= stream["list"].length + 1 /\ stream["read"].next <= stream["read"].length + 1
      /\ stream["list"].length \in Nat /\ stream["read"].length \in Nat
  BY <1>1 DEF ClientsType, StreamOK, Streams
<1>5. listing \in Seq(Nat) /\ Len(listing) \in Nat
  BY <1>1, PagesAre
<1>6. ASSUME UNCHANGED stream, ClientsType', CommandsInv' PROVE ClientsInv'
  BY <1>2, <1>6 DEF ClientsInv, BenchInv
<1>7. ASSUME UNCHANGED <<stream, registered>>, Ends("failed") PROVE ClientsInv'
  <2>1. toolPc' = "over" /\ toolOutcome' = "failed" /\ registered' \in Nat
    BY <1>3, <1>7 DEF Ends
  <2>2. ClientsType'
    BY <1>1, <1>2, <1>3, <1>7, <2>1, ClientsTypedSame
  <2>3. CommandsInv'
    BY <1>2, <2>1 DEF CommandsInv
  <2> QED
    BY <1>6, <1>7, <2>2, <2>3
<1>8. ASSUME UNCHANGED registered, Continues("list"),
             stream' = [stream EXCEPT !["list"] = Stream(Len(listing), "recv")]
      PROVE  ClientsInv'
  <2> DEFINE new == Stream(Len(listing), "recv")
  <2>1. StreamOK(new) /\ new.length = Len(listing) /\ new.pc = "recv"
    BY <1>5, StreamBegins
  <2> HIDE DEF new
  <2>2. toolPc' = "list" /\ toolOutcome' = toolOutcome /\ registered' \in Nat
    BY <1>3, <1>8 DEF Continues
  <2>3. stream' = [stream EXCEPT !["list"] = new]
    BY <1>8 DEF new
  <2>4. ClientsType' /\ stream'["list"] = new
    BY <1>1, <1>2, <1>3, <2>1, <2>2, <2>3, ClientsTyped
  <2>5. CommandsInv'
    BY <1>2, <1>3, <2>1, <2>2, <2>4 DEF CommandsInv
  <2> QED
    BY <1>2, <2>4, <2>5 DEF ClientsInv, BenchInv
<1>9. CASE StartClient
  <2>1. CASE tool = "read_table" /\ Continues("describe") /\ UNCHANGED stream
    <3>1. toolPc' = "describe" /\ toolOutcome' = toolOutcome /\ registered' \in Nat
      BY <1>3, <1>9, <2>1 DEF Continues, StartClient
    <3>2. ClientsType'
      BY <1>1, <1>2, <1>3, <2>1, <3>1, ClientsTypedSame
    <3>3. CommandsInv'
      BY <1>3, <3>1 DEF CommandsInv
    <3> QED
      BY <1>6, <2>1, <3>2, <3>3
  <2> QED
    BY <1>7, <1>8, <1>9, <2>1, Zenon DEF StartClient
<1>10. CASE ShowSplits
  <2>1. toolPc = "listed" /\ tool = "list_splits" /\ stream' = stream
    BY <1>10 DEF ShowSplits
  <2>2. CASE ~stream["list"].ended
    <3>1. toolPc' = "over" /\ toolOutcome' = "ok" /\ registered' = stream["list"].next - 1
      BY <1>10, <2>2 DEF ShowSplits, Ends
    <3>2. (registered' = Len(listing) \/ cutShort) /\ registered' \in Nat
      BY <1>1, <1>4, <1>5, <2>1, <2>2, <3>1 DEF CommandsInv
    <3>3. ClientsType'
      BY <1>1, <1>2, <1>3, <2>1, <3>1, <3>2, ClientsTypedSame
    <3>4. CommandsInv'
      BY <1>2, <2>1, <3>1, <3>2 DEF CommandsInv
    <3> QED
      BY <1>6, <2>1, <3>3, <3>4
  <2> QED
    BY <1>7, <1>10, <2>1, <2>2 DEF ShowSplits
<1>11. CASE RequestSplits
  <2>1. toolPc = "listed" /\ tool = "read_table" /\ registered' = registered
    BY <1>11 DEF RequestSplits
  <2> DEFINE n == PagesUpTo(listing)[stream["list"].next - 1]
  <2>2. CASE Continues("read") /\ stream' = [stream EXCEPT !["read"] = Stream(n, "recv")]
    <3> DEFINE new == Stream(n, "recv")
    <3>1. stream["list"].next - 1 \in 0 .. Len(listing)
      BY <1>1, <1>4, <1>5, <2>1 DEF CommandsInv
    <3>2. n \in Nat
      BY <1>5, <3>1, PagesGrow, Zenon
    <3> HIDE DEF n
    <3>3. StreamOK(new) /\ new.length = n /\ new.pc = "recv"
      BY <3>2, StreamBegins
    <3>4. toolPc' = "read" /\ toolOutcome' = toolOutcome /\ registered' \in Nat
      BY <1>3, <2>1, <2>2 DEF Continues
    <3>5. stream' = [stream EXCEPT !["read"] = new]
      BY <2>2
    <3> HIDE DEF new
    <3>6. ClientsType' /\ stream'["read"] = new /\ stream'["list"] = stream["list"]
      BY <1>1, <1>2, <1>3, <3>3, <3>4, <3>5, ClientsTyped
    <3>7. stream'["read"].length = PagesUpTo(listing')[stream'["list"].next - 1]
      BY <1>2, <3>3, <3>6, Zenon DEF n
    <3>8. CommandsInv'
      BY <1>1, <1>2, <1>3, <2>1, <3>3, <3>4, <3>6, <3>7 DEF CommandsInv
    <3> QED
      BY <1>2, <3>6, <3>8 DEF ClientsInv, BenchInv
  <2> QED
    BY <1>7, <1>11, <2>1, <2>2, Zenon DEF RequestSplits
<1>12. CASE ShowPages
  <2>1. toolPc = "shown" /\ tool = "read_table" /\ stream' = stream
    BY <1>12 DEF ShowPages
  <2>2. CASE ~stream["read"].ended /\ registered' = stream["read"].next - 1 /\ Ends("ok")
    <3>1. toolPc' = "over" /\ toolOutcome' = "ok"
      BY <2>2 DEF Ends
    <3>2. (registered' = stream["read"].length \/ cutShort) /\ registered' \in Nat
      BY <1>1, <1>4, <2>1, <2>2 DEF CommandsInv
    <3>3. registered' = Pages(listing) \/ stream["list"].ended \/ cutShort
      <4> SUFFICES ASSUME ~stream["list"].ended, ~cutShort PROVE registered' = Pages(listing)
        OBVIOUS
      <4>1. stream["list"].next - 1 = Len(listing)
        BY <1>1, <1>4, <1>5, <2>1 DEF CommandsInv
      <4>2. stream["read"].length = PagesUpTo(listing)[stream["list"].next - 1]
        BY <1>1, <2>1 DEF CommandsInv
      <4> QED
        BY <3>2, <4>1, <4>2, Zenon DEF Pages
    <3>4. ClientsType'
      BY <1>1, <1>2, <1>3, <2>1, <3>1, <3>2, ClientsTypedSame
    <3>5. CommandsInv'
      BY <1>2, <2>1, <3>1, <3>3 DEF CommandsInv
    <3> QED
      BY <1>6, <2>1, <3>4, <3>5
  <2> QED
    BY <1>7, <1>12, <2>1, <2>2 DEF ShowPages
<1>13. CASE CallDescribeTable
  BY <1>7, <1>8, <1>13 DEF CallDescribeTable
<1> QED
  BY <1>9, <1>10, <1>11, <1>12, <1>13

\* The steps of the benchmark that change neither pages nor streams.
LEMMA BenchMoves ==
  ASSUME ClientsInv, tool = "bench", StartTestCase \/ Interrupt \/ WaitLimiter \/ StopTestCase \/ ProgressEnds
  PROVE  ClientsInv'
<1>1. ClientsType /\ Registered /\ Reports
  BY DEF ClientsInv, BenchInv
<1>2. UNCHANGED <<tool, remote, caseNames, listing, testCase, stream, registered, scenarios, files>>
  BY DEF StartTestCase, Interrupt, WaitLimiter, StopTestCase, ProgressEnds, inputs
<1>3. toolPc # "over" /\ toolOutcome # "ok" /\ toolOutcome' # "ok" /\ (Undisturbed' => Undisturbed)
  <2>1. toolPc # "over" /\ toolOutcome # "ok"
    BY <1>1 DEF ClientsType, StartTestCase, Interrupt, WaitLimiter, StopTestCase, ProgressEnds
  <2>2. toolOutcome' # "ok"
    BY <2>1 DEF StartTestCase, Interrupt, WaitLimiter, StopTestCase, ProgressEnds, Ends, Continues
  <2>3. Undisturbed' => Undisturbed
    BY DEF StartTestCase, Interrupt, WaitLimiter, StopTestCase, ProgressEnds, Undisturbed
  <2> QED
    BY <2>1, <2>2, <2>3
<1>4. ClientsType'
  <2>1. registered' \in Nat /\ scenarios' \in Nat
    BY <1>1, <1>2 DEF ClientsType
  <2> QED
    BY <1>1, <1>2, <1>3, <2>1, ClientsTypedSame
<1>5. Reports'
  BY <1>1, <1>2, <1>3, ReportsStay
<1>6. Due' = Due /\ Behind' = Behind /\ Ahead' = Ahead
  BY <1>2 DEF Due, Behind, Ahead
<1>7. Registered'
  <2> HIDE DEF Due, Behind, Ahead
  <2> DEFINE quiet == {"start", "limiter", "describe", "finish", "stop"}
  <2>1. CASE toolPc' \in quiet \ {"start"} /\ toolPc \in quiet
    BY <1>1, <1>2, <1>3, <1>6, <2>1 DEF Registered
  <2>2. CASE toolPc' = "over"
    BY <2>2 DEF Registered
  <2>3. CASE toolPc' = toolPc
    BY <1>1, <1>2, <1>3, <1>6, <2>3 DEF Registered
  <2>4. \/ toolPc' \in quiet \ {"start"} /\ toolPc \in quiet
        \/ toolPc' = "over"
        \/ toolPc' = toolPc
    <3>1. CASE StartTestCase
      BY <3>1 DEF StartTestCase, Ends, Continues
    <3>2. CASE Interrupt
      BY <3>2 DEF Interrupt
    <3>3. CASE WaitLimiter
      BY <3>3 DEF WaitLimiter, Ends, Continues
    <3>4. CASE StopTestCase
      BY <3>4 DEF StopTestCase, Continues
    <3>5. CASE ProgressEnds
      BY <3>5 DEF ProgressEnds
    <3> QED
      BY <3>1, <3>2, <3>3, <3>4, <3>5
  <2> QED
    BY <2>1, <2>2, <2>3, <2>4
<1> QED
  BY <1>2, <1>4, <1>5, <1>7 DEF ClientsInv, BenchInv, CommandsInv

\* The benchmark describes the table, and lists its splits.
LEMMA BenchLists ==
  ASSUME ClientsInv, tool = "bench", CallDescribeTable
  PROVE  ClientsInv'
<1>1. ClientsType /\ Registered /\ Reports
  BY DEF ClientsInv, BenchInv
<1>2. UNCHANGED <<tool, remote, caseNames, listing, testCase, registered, scenarios, files>> /\ toolPc = "describe"
      /\ (Undisturbed' => Undisturbed)
  BY DEF CallDescribeTable, inputs, Undisturbed
<1>3. toolOutcome # "ok" /\ registered' \in Nat /\ scenarios' \in Nat
  BY <1>1, <1>2 DEF ClientsType
<1>4. listing \in Seq(Nat) /\ Len(listing) \in Nat /\ Due \in Nat
  BY <1>1, PagesAre
<1>5. CASE Ends("failed") /\ UNCHANGED stream
  <2>1. toolPc' = "over" /\ toolOutcome' = "failed"
    BY <1>5 DEF Ends
  <2>2. ClientsType'
    BY <1>1, <1>2, <1>3, <1>5, <2>1, ClientsTypedSame
  <2>3. Reports'
    BY <1>1, <1>2, <1>3, <2>1, ReportsStay
  <2>4. Registered'
    BY <2>1 DEF Registered
  <2> QED
    BY <1>2, <2>2, <2>3, <2>4 DEF ClientsInv, BenchInv, CommandsInv
<1>6. CASE Continues("range") /\ stream' = [stream EXCEPT !["list"] = Stream(Len(listing), "recv")]
  <2>1. PICK new : new = Stream(Len(listing), "recv")
    OBVIOUS
  <2>2. StreamOK(new) /\ new.length = Len(listing) /\ new.pc = "recv" /\ Faithful(new) /\ Taken(new) = 0
    BY <1>4, <2>1, StreamBegins
  <2>3. toolPc' = "range" /\ toolOutcome' = toolOutcome
    BY <1>6 DEF Continues
  <2>4. stream' = [stream EXCEPT !["list"] = new]
    BY <1>6, <2>1
  <2>5. ClientsType' /\ stream'["list"] = new
    BY <1>1, <1>2, <1>3, <2>2, <2>3, <2>4, ClientsTyped
  <2>6. Reports'
    BY <1>1, <1>2, <1>3, <2>3, ReportsStay
  <2>7. Due' = Due /\ Behind' = 0
    <3>1. Behind' = PagesUpTo(listing)[0]
      BY <1>2, <2>2, <2>5, Zenon DEF Behind
    <3>2. PagesUpTo(listing)[0] = 0
      BY <1>4, PagesGrow
    <3>3. Due' = Due
      BY <1>2, Zenon DEF Due
    <3> QED
      BY <3>1, <3>2, <3>3
  <2>8. Registered'
    <3> HIDE DEF Due, Behind, Ahead
    <3>1. registered <= Due /\ (Undisturbed => registered = Due)
      BY <1>1, <1>2 DEF Registered
    <3>2. registered' <= Due' + Behind' /\ (Undisturbed' => registered' = Due' + Behind')
      BY <1>2, <1>4, <2>7, <3>1
    <3> QED
      BY <1>2, <2>2, <2>3, <2>5, <3>2 DEF Registered
  <2> QED
    BY <1>2, <2>5, <2>6, <2>8 DEF ClientsInv, BenchInv, CommandsInv
<1> QED
  BY <1>5, <1>6 DEF CallDescribeTable

\* The listing of a scenario is over.
LEMMA BenchListed ==
  ASSUME ClientsInv, tool = "bench", ListingEnds
  PROVE  ClientsInv'
<1>1. ClientsType /\ Registered /\ Reports
  BY DEF ClientsInv, BenchInv
<1>2. /\ UNCHANGED <<tool, remote, caseNames, listing, testCase, stream, registered, files, toolOutcome>>
      /\ toolPc = "range" /\ stream["list"].pc = "closed" /\ scenarios' = scenarios + 1
      /\ toolPc' \in {"limiter", "finish"} /\ (Undisturbed' => Undisturbed)
  BY DEF ListingEnds, inputs, Continues, Undisturbed
<1>3. toolOutcome # "ok" /\ registered' \in Nat /\ scenarios \in Nat
  BY <1>1, <1>2 DEF ClientsType
<1>4. /\ listing \in Seq(Nat) /\ Len(listing) \in Nat /\ Pages(listing) \in Nat /\ Due \in Nat
      /\ stream["list"].length = Len(listing) /\ Behind \in Nat /\ Behind <= Pages(listing)
  <2>1. stream["list"].length = Len(listing)
    BY <1>1, <1>2 DEF Registered
  <2> QED
    BY <1>1, <2>1, PagesAre
<1>5. ClientsType'
  BY <1>1, <1>2, <1>3, ClientsTypedSame
<1>6. Reports'
  BY <1>1, <1>2, <1>3, ReportsStay
<1>7. Due' = Due + Pages(listing)
  <2>1. Due' = (scenarios + 1) * Pages(listing)
    BY <1>2 DEF Due
  <2> QED
    BY <1>3, <1>4, <2>1 DEF Due
<1>8. Undisturbed => Behind = Pages(listing)
  <2> SUFFICES ASSUME Undisturbed PROVE Behind = Pages(listing)
    OBVIOUS
  <2>1. Faithful(stream["list"])
    BY <1>1, <1>2 DEF Registered
  <2>2. Taken(stream["list"]) = Len(listing)
    BY <1>1, <1>2, <1>4, <2>1, TakenIs DEF ClientsType
  <2> QED
    BY <2>2, Zenon DEF Behind, Pages
<1>9. Registered'
  <2> HIDE DEF Due, Behind
  <2>1. registered <= Due + Behind /\ (Undisturbed => registered = Due + Behind)
    BY <1>1, <1>2 DEF Registered
  <2>2. registered' <= Due' /\ (Undisturbed' => registered' = Due')
    BY <1>2, <1>3, <1>4, <1>7, <1>8, <2>1
  <2> QED
    BY <1>2, <2>2 DEF Registered
<1> QED
  BY <1>2, <1>5, <1>6, <1>9 DEF ClientsInv, BenchInv, CommandsInv

\* The benchmark takes a split, and has its pages read.
LEMMA BenchTakesSplit ==
  ASSUME ClientsInv, tool = "bench", TakeSplit
  PROVE  ClientsInv'
<1>1. ClientsType /\ Registered /\ Reports
  BY DEF ClientsInv, BenchInv
<1>2. PICK list : list = stream["list"]
  OBVIOUS
<1>3. /\ UNCHANGED <<tool, remote, caseNames, listing, testCase, registered, scenarios, files>>
      /\ toolPc = "range" /\ list.pc = "send"
      /\ \/ /\ list.hand = "item"
            /\ stream' = [list |-> Sent(list), read |-> Stream(listing[list.next - 1], "recv")]
            /\ Continues("read")
         \/ stream' = [stream EXCEPT !["list"] = Sent(list)] /\ Ends("failed")
      /\ Undisturbed' => Undisturbed
  BY <1>2, Zenon DEF TakeSplit, inputs, Undisturbed
<1>4. toolOutcome # "ok" /\ registered' \in Nat /\ scenarios' \in Nat
  BY <1>1, <1>3 DEF ClientsType
<1>5. /\ StreamOK(list) /\ list.length = Len(listing)
      /\ Undisturbed => Faithful(list)
  BY <1>1, <1>2, <1>3 DEF ClientsType, Registered
<1>6. PICK new : new = Sent(list)
  OBVIOUS
<1>7. /\ StreamOK(new) /\ new.length = list.length
      /\ list.hand = "item" => /\ Taken(new) = Taken(list) + 1 /\ new.pc = "recv"
                               /\ Faithful(list) => Faithful(new)
  BY <1>3, <1>5, <1>6, StreamSent
<1>8. CASE stream' = [stream EXCEPT !["list"] = Sent(list)] /\ Ends("failed")
  <2>1. toolPc' = "over" /\ toolOutcome' = "failed" /\ stream' = [stream EXCEPT !["list"] = new]
    BY <1>6, <1>8 DEF Ends
  <2>2. ClientsType'
    BY <1>1, <1>3, <1>4, <1>7, <2>1, ClientsTyped
  <2>3. Reports'
    BY <1>1, <1>3, <1>4, <2>1, ReportsStay
  <2>4. Registered'
    BY <2>1 DEF Registered
  <2> QED
    BY <1>3, <2>2, <2>3, <2>4 DEF ClientsInv, BenchInv, CommandsInv
<1>9. CASE /\ list.hand = "item"
           /\ stream' = [list |-> Sent(list), read |-> Stream(listing[list.next - 1], "recv")]
           /\ Continues("read")
  <2>1. /\ listing \in Seq(Nat) /\ Len(listing) \in Nat /\ Due \in Nat /\ Behind \in Nat
        /\ registered \in Nat
    <3>1. stream["list"].length = Len(listing)
      BY <1>2, <1>5
    <3>2. registered \in Nat
      BY <1>1 DEF ClientsType
    <3> QED
      BY <1>1, <3>1, <3>2, PagesAre
  <2>2. PICK k : k = list.next - 1
    OBVIOUS
  <2>3. k = Taken(list) + 1 /\ k \in 1 .. Len(listing) /\ Taken(list) = k - 1
    <3>1. list.next - 1 = Taken(list) + 1 /\ list.next - 1 \in 1 .. list.length /\ Taken(list) \in 0 .. list.length
      BY <1>3, <1>5, <1>9, TakenIs
    <3> QED
      BY <1>5, <2>1, <2>2, <3>1
  <2>4. listing[k] \in Nat /\ PagesUpTo(listing)[k] = PagesUpTo(listing)[k - 1] + listing[k]
    BY <2>1, <2>3, PagesGrow
  <2>5. PICK read : read = Stream(listing[k], "recv")
    OBVIOUS
  <2>6. /\ StreamOK(read) /\ Faithful(read) /\ Taken(read) = 0 /\ read.length = listing[k] /\ read.pc = "recv"
    BY <2>4, <2>5, StreamBegins
  <2>7. stream' = [list |-> new, read |-> read] /\ toolPc' = "read" /\ toolOutcome' = toolOutcome
    BY <1>6, <1>9, <2>2, <2>5, Zenon DEF Continues
  <2>8. stream'["list"] = new /\ stream'["read"] = read /\ stream' \in [{"list", "read"} -> Streams]
    <3>1. new \in Streams /\ read \in Streams
      BY <1>7, <2>6 DEF StreamOK
    <3> QED
      BY <2>7, <3>1
  <2>9. ClientsType'
    <3>1. StreamOK(stream'["list"]) /\ StreamOK(stream'["read"])
      BY <1>7, <2>6, <2>8, Zenon
    <3> QED
      BY <1>1, <1>3, <1>4, <2>7, <2>8, <3>1 DEF ClientsType
  <2>10. Reports'
    BY <1>1, <1>3, <1>4, <2>7, ReportsStay
  <2>11. Due' = Due /\ Ahead' = listing[k] /\ Behind' = Behind + listing[k]
    <3>1. Due' = Due
      BY <1>3, Zenon DEF Due
    <3>2. Ahead' = listing[k]
      BY <2>4, <2>6, <2>8 DEF Ahead
    <3>3. Behind' = PagesUpTo(listing)[k]
      BY <1>3, <1>7, <1>9, <2>3, <2>8 DEF Behind
    <3>4. Behind = PagesUpTo(listing)[k - 1]
      BY <1>2, <2>3 DEF Behind
    <3> QED
      BY <2>4, <3>1, <3>2, <3>3, <3>4
  <2>12. Registered'
    <3> HIDE DEF Due, Behind, Ahead
    <3>1. registered <= Due + Behind /\ (Undisturbed => registered = Due + Behind)
      BY <1>1, <1>3 DEF Registered
    <3>2. /\ registered' + Ahead' <= Due' + Behind'
          /\ Undisturbed' => registered' + Ahead' = Due' + Behind'
      <4>1. registered' = registered /\ (Undisturbed' => Undisturbed) /\ listing[k] \in Nat
        BY <1>3, <2>4
      <4>2. Due \in Nat /\ Behind \in Nat /\ registered \in Nat
        BY <2>1
      <4> QED
        BY <2>11, <3>1, <4>1, <4>2
    <3>3. /\ stream'["list"].length = Len(listing') /\ stream'["list"].pc # "none"
          /\ Undisturbed' => Faithful(stream'["list"])
      BY <1>3, <1>5, <1>7, <1>9, <2>8
    <3>4. stream'["read"].pc # "none" /\ Faithful(stream'["read"])
      BY <2>6, <2>8
    <3> QED
      BY <2>7, <3>2, <3>3, <3>4 DEF Registered
  <2> QED
    BY <1>3, <2>9, <2>10, <2>12 DEF ClientsInv, BenchInv, CommandsInv
<1> QED
  BY <1>3, <1>8, <1>9, Zenon

\* The benchmark takes a page.
LEMMA BenchTakesPage ==
  ASSUME ClientsInv, tool = "bench", TakePage
  PROVE  ClientsInv'
<1>1. ClientsType /\ Registered /\ Reports
  BY DEF ClientsInv, BenchInv
<1>2. PICK read, new : read = stream["read"] /\ new = Sent(read)
  OBVIOUS
<1>3. /\ UNCHANGED <<tool, remote, caseNames, listing, testCase, scenarios, files>>
      /\ toolPc = "read" /\ read.pc = "send" /\ stream' = [stream EXCEPT !["read"] = new]
      /\ Undisturbed' => Undisturbed
  BY <1>2 DEF TakePage, inputs, Undisturbed
<1>4. \/ read.hand = "item" /\ registered' = registered + 1 /\ toolPc' = "read" /\ toolOutcome' = toolOutcome
      \/ toolPc' = "over" /\ toolOutcome' = "failed" /\ registered' = registered
  BY <1>2, <1>3 DEF TakePage, registerResponse, Continues, Ends
<1>5. toolOutcome # "ok" /\ registered \in Nat /\ registered' \in Nat /\ scenarios' \in Nat /\ toolOutcome' # "ok"
  BY <1>1, <1>3, <1>4 DEF ClientsType
<1>6. StreamOK(read)
  BY <1>1, <1>2 DEF ClientsType
<1>7. /\ StreamOK(new) /\ new.length = read.length
      /\ read.hand = "item" => /\ Taken(new) = Taken(read) + 1 /\ new.pc = "recv"
                               /\ Faithful(read) => Faithful(new)
  BY <1>2, <1>3, <1>6, StreamSent
<1>8. ClientsType' /\ stream'["read"] = new /\ stream'["list"] = stream["list"]
  BY <1>1, <1>3, <1>5, <1>7, ClientsTyped
<1>9. Reports'
  BY <1>1, <1>3, <1>5, ReportsStay
<1>10. Registered'
  <2>1. CASE toolPc' = "over"
    BY <2>1 DEF Registered
  <2>2. CASE read.hand = "item" /\ registered' = registered + 1 /\ toolPc' = "read"
    <3>1. Due' = Due /\ Behind' = Behind
      BY <1>3, <1>8, Zenon DEF Due, Behind
    <3>2. Ahead' = Ahead - 1 /\ Ahead \in Nat
      <4>1. Taken(read) \in 0 .. read.length /\ read.length \in Nat
        BY <1>6, TakenIs
      <4>2. Ahead = read.length - Taken(read) /\ Ahead' = read.length - (Taken(read) + 1)
        BY <1>2, <1>7, <1>8, <2>2, Zenon DEF Ahead
      <4> QED
        BY <4>1, <4>2
    <3> HIDE DEF Due, Behind, Ahead
    <3>3. /\ registered + Ahead <= Due + Behind
          /\ Undisturbed => registered + Ahead = Due + Behind
      BY <1>1, <1>3 DEF Registered
    <3>4. registered' + Ahead' = registered + Ahead
      BY <1>5, <2>2, <3>2
    <3>5. /\ registered' + Ahead' <= Due' + Behind'
          /\ Undisturbed' => registered' + Ahead' = Due' + Behind'
      BY <1>3, <3>1, <3>3, <3>4
    <3>6. /\ stream'["list"].length = Len(listing') /\ stream'["list"].pc # "none"
          /\ Undisturbed' => Faithful(stream'["list"])
      BY <1>1, <1>3, <1>8 DEF Registered
    <3>7. Undisturbed' => Faithful(stream'["read"])
      BY <1>1, <1>2, <1>3, <1>7, <1>8, <2>2 DEF Registered
    <3>8. stream'["read"].pc # "none"
      BY <1>7, <1>8, <2>2
    <3> QED
      BY <2>2, <3>5, <3>6, <3>7, <3>8 DEF Registered
  <2> QED
    BY <1>4, <2>1, <2>2
<1> QED
  BY <1>3, <1>8, <1>9, <1>10 DEF ClientsInv, BenchInv, CommandsInv

\* The pages of a split are over.
LEMMA BenchPagesEnd ==
  ASSUME ClientsInv, tool = "bench", PagesEnd
  PROVE  ClientsInv'
<1>1. ClientsType /\ Registered /\ Reports
  BY DEF ClientsInv, BenchInv
<1>2. /\ UNCHANGED <<tool, remote, caseNames, listing, testCase, stream, registered, scenarios, files, toolOutcome>>
      /\ toolPc = "read" /\ stream["read"].pc = "closed" /\ toolPc' = "range"
      /\ Undisturbed' => Undisturbed
  BY DEF PagesEnd, inputs, Continues, Undisturbed
<1>3. toolOutcome # "ok" /\ registered' \in Nat /\ scenarios' \in Nat /\ registered \in Nat
  BY <1>1, <1>2 DEF ClientsType
<1>4. ClientsType'
  BY <1>1, <1>2, <1>3, ClientsTypedSame
<1>5. Reports'
  BY <1>1, <1>2, <1>3, ReportsStay
<1>6. stream["list"].length = Len(listing) /\ Ahead \in Nat /\ Due \in Nat /\ Behind \in Nat
  <2>1. stream["list"].length = Len(listing)
    BY <1>1, <1>2 DEF Registered
  <2> QED
    BY <1>1, <2>1, PagesAre
<1>7. Undisturbed => Ahead = 0
  <2> SUFFICES ASSUME Undisturbed PROVE Ahead = 0
    OBVIOUS
  <2>1. Faithful(stream["read"])
    BY <1>1, <1>2 DEF Registered
  <2>2. Taken(stream["read"]) = stream["read"].length /\ stream["read"].length \in Nat
    BY <1>1, <1>2, <2>1, TakenIs DEF ClientsType
  <2> QED
    BY <2>2 DEF Ahead
<1>8. Due' = Due /\ Behind' = Behind
  BY <1>2 DEF Due, Behind
<1>9. Registered'
  <2> HIDE DEF Due, Behind, Ahead
  <2>1. /\ registered + Ahead <= Due + Behind
        /\ Undisturbed => registered + Ahead = Due + Behind
    BY <1>1, <1>2 DEF Registered
  <2>2. registered' <= Due' + Behind' /\ (Undisturbed' => registered' = Due' + Behind')
    BY <1>2, <1>3, <1>6, <1>7, <1>8, <2>1
  <2>3. /\ stream'["list"].length = Len(listing') /\ stream'["list"].pc # "none"
        /\ Undisturbed' => Faithful(stream'["list"])
    BY <1>1, <1>2 DEF Registered
  <2> QED
    BY <1>2, <2>2, <2>3 DEF Registered
<1> QED
  BY <1>2, <1>4, <1>5, <1>9 DEF ClientsInv, BenchInv, CommandsInv

\* The report of a test case is saved, and the next one begins.
LEMMA BenchSaves ==
  ASSUME ClientsInv, tool = "bench", SaveReport
  PROVE  ClientsInv'
<1>1. ClientsType /\ Registered /\ Reports
  BY DEF ClientsInv, BenchInv
<1>2. /\ UNCHANGED <<tool, remote, caseNames, listing>> /\ toolPc = "stop"
      /\ (Undisturbed' => Undisturbed)
      /\ registered' = 0 /\ scenarios' = 0 /\ stream' = [s \in DOMAIN stream |-> Stream(0, "none")]
  BY DEF SaveReport, inputs, Undisturbed
<1>3. toolOutcome # "ok" /\ testCase \in Nat /\ testCase >= 1 /\ testCase <= TestCases /\ TestCases \in Nat
  BY <1>1, <1>2, ClientsAssumption DEF ClientsType
<1>4. Pages(listing) \in Nat /\ registered \in Nat /\ scenarios \in Nat
  BY <1>1, PagesAre DEF ClientsType
<1>5. PICK none : none = Stream(0, "none")
  OBVIOUS
<1>6. StreamOK(none) /\ none \in Streams
  BY <1>5, StreamBegins DEF StreamOK
<1>7. /\ stream' \in [{"list", "read"} -> Streams]
      /\ StreamOK(stream'["list"]) /\ StreamOK(stream'["read"])
  <2>1. DOMAIN stream = {"list", "read"}
    BY <1>1 DEF ClientsType
  <2>2. stream' = [s \in {"list", "read"} |-> none]
    BY <1>2, <1>5, <2>1
  <2> QED
    BY <1>6, <2>2
<1>8. ASSUME testCase' \in 1 .. TestCases, toolOutcome' = "ok" => toolPc' = "over" PROVE ClientsType'
  BY <1>1, <1>2, <1>7, <1>8 DEF ClientsType
<1>9. Due' = 0
  <2>1. Due' = 0 * Pages(listing)
    BY <1>2, Zenon DEF Due
  <2> QED
    BY <1>4, <2>1
<1>10. ASSUME toolPc' \in {"start", "over"} PROVE Registered'
  BY <1>2, <1>9, <1>10 DEF Registered
<1>11. CASE Ends("failed") /\ UNCHANGED <<files, testCase>>
  <2>1. toolPc' = "over" /\ toolOutcome' = "failed" /\ files' = files /\ testCase' = testCase
    BY <1>11 DEF Ends
  <2>2. ClientsType'
    BY <1>3, <1>8, <2>1
  <2>3. Reports'
    BY <1>1, <1>2, <1>3, <2>1, ReportsStay
  <2> QED
    BY <1>2, <1>10, <2>1, <2>2, <2>3 DEF ClientsInv, BenchInv, CommandsInv
<1>12. CASE /\ files' = {f \in files : f.name # FileName(testCase)}
                        \cup {[name |-> FileName(testCase), testCase |-> testCase, pages |-> registered,
                               scenarios |-> scenarios]}
            /\ IF testCase < TestCases
               THEN testCase' = testCase + 1 /\ Continues("start")
               ELSE Ends("ok") /\ UNCHANGED testCase
  <2>1. PICK new : new = [name |-> FileName(testCase), testCase |-> testCase, pages |-> registered,
                          scenarios |-> scenarios]
    OBVIOUS
  <2>2. files' = {f \in files : f.name # FileName(testCase)} \cup {new}
    BY <1>12, <2>1
  <2>3. /\ new.name = FileName(testCase) /\ new.testCase = testCase
        /\ new.pages = registered /\ new.scenarios = scenarios
    BY <2>1
  <2>0. \A t : FileName(t)' = FileName(t)
    BY <1>2, Zenon DEF FileName
  <2>4. \/ toolPc' = "start" /\ toolOutcome' = toolOutcome /\ testCase' = testCase + 1 /\ testCase < TestCases
        \/ toolPc' = "over" /\ toolOutcome' = "ok" /\ testCase' = testCase /\ testCase = TestCases
    BY <1>3, <1>12 DEF Continues, Ends
  <2>5. ClientsType'
    BY <1>3, <1>8, <2>4
  <2>6. Saved = testCase - 1 /\ Saved' = testCase
    BY <1>3, <2>4 DEF Saved
  <2>7. \A f \in files' : f.name = FileName(f.testCase)'
    BY <1>1, <2>0, <2>2, <2>3, Zenon DEF Reports
  <2>8. registered <= scenarios * Pages(listing) /\ (Undisturbed => registered = scenarios * Pages(listing))
    BY <1>1, <1>2 DEF Registered, Due
  <2>9. \A f \in files' : f.pages <= f.scenarios * Pages(listing')
    BY <1>1, <1>2, <2>2, <2>3, <2>8, Zenon DEF Reports
  <2>10. Undisturbed' => \A f \in files' : f.pages = f.scenarios * Pages(listing')
    BY <1>1, <1>2, <2>2, <2>3, <2>8, Zenon DEF Reports
  <2>11. {f.testCase : f \in files'} = Kept(Saved)'
    <3>1. {f.testCase : f \in files} = Kept(testCase - 1)
      BY <1>1, <2>6 DEF Reports
    <3>2. Kept(testCase) = {t \in Kept(testCase - 1) : FileName(t) # FileName(testCase)} \cup {testCase}
      <4> HIDE DEF FileName
      <4>1. \A t \in 1 .. testCase : t \in 1 .. (testCase - 1) \/ t = testCase
        BY <1>3
      <4>2. \A t \in 1 .. (testCase - 1) :
              (t + 1) .. testCase = ((t + 1) .. (testCase - 1)) \cup {testCase} /\ t \in 1 .. testCase
        BY <1>3
      <4>3. testCase \in 1 .. testCase /\ (testCase + 1) .. testCase = {}
        BY <1>3
      <4> QED
        BY <4>1, <4>2, <4>3 DEF Kept
    <3>3. {f.testCase : f \in files'} =
            {t \in {f.testCase : f \in files} : FileName(t) # FileName(testCase)} \cup {testCase}
      <4>1. \A f \in files : f.name = FileName(f.testCase)
        BY <1>1, Zenon DEF Reports
      <4> HIDE DEF FileName
      <4> QED
        BY <2>2, <2>3, <4>1
    <3>4. Kept(Saved)' = Kept(testCase)
      BY <2>0, <2>6, Zenon DEF Kept
    <3> QED
      BY <3>1, <3>2, <3>3, <3>4
  <2>12. toolOutcome' = "ok" => testCase' = TestCases
    BY <1>3, <2>4
  <2>13. Reports'
    BY <2>7, <2>9, <2>10, <2>11, <2>12, Zenon DEF Reports
  <2> QED
    BY <1>2, <1>10, <2>4, <2>5, <2>13 DEF ClientsInv, BenchInv, CommandsInv
<1> QED
  BY <1>11, <1>12, Zenon DEF SaveReport

\* Every step of the clients.
LEMMA ClientsStep ==
  ASSUME ClientsInv, [ClientsNext]_clientVars
  PROVE  ClientsInv'
<1>1. CASE UNCHANGED clientVars
  BY <1>1 DEF clientVars, inputs, ClientsInv, ClientsType, CommandsInv, BenchInv, Registered, Reports,
              Due, Behind, Ahead, Saved, Undisturbed, Kept, FileName
<1>2. CASE tool # "bench" /\ ClientsNext
  <2>1. toolPc \in {"start", "describe", "list", "listed", "read", "shown", "over"}
    BY <1>2 DEF ClientsInv, CommandsInv
  <2>2. ~(\E s \in DOMAIN stream : ReceiveAnswer(s) \/ SendAnswerCanceled(s))
    BY <1>2 DEF ReceiveAnswer, SendAnswerCanceled
  <2>3. ~(StartTestCase \/ Interrupt \/ WaitLimiter \/ TakeSplit \/ ListingEnds \/ TakePage \/ PagesEnd
          \/ StopTestCase \/ ProgressEnds \/ SaveReport)
    BY <1>2, <2>1 DEF StartTestCase, Interrupt, WaitLimiter, TakeSplit, ListingEnds, TakePage, PagesEnd,
                      StopTestCase, ProgressEnds, SaveReport
  <2>4. ASSUME DumpStream("list", "listed") \/ DumpStream("read", "shown") PROVE ClientsInv'
    BY <2>4, DumpStreamKeeps
  <2> QED
    BY <1>2, <2>2, <2>3, <2>4, CommandsStep DEF ClientsNext
<1>3. CASE tool = "bench" /\ ClientsNext
  <2>1. ~(DumpStream("list", "listed") \/ DumpStream("read", "shown") \/ StartClient \/ ShowSplits
          \/ RequestSplits \/ ShowPages)
    BY <1>3 DEF DumpStream, StartClient, ShowSplits, RequestSplits, ShowPages
  <2> QED
    BY <1>3, <2>1, ReceiveAnswerKeeps, SendAnswerCanceledKeeps, BenchMoves, BenchLists, BenchListed,
       BenchTakesSplit, BenchTakesPage, BenchPagesEnd, BenchSaves DEF ClientsNext
<1> QED
  BY <1>1, <1>2, <1>3

\* What the clients know of their listing, their streams and their counters is in step
\* with what they have received (client_streaming.go, app/bench).
THEOREM ClientsInvariant == ClientsSpec => []ClientsInv
BY ClientsStart, ClientsStep, PTL DEF ClientsSpec

\* What the invariant says of a client that is over.
LEMMA ClientsWhole == ClientsInv => ClientIsWhole
<1> SUFFICES ASSUME ClientsInv PROVE ClientIsWhole
  OBVIOUS
<1>1. ClientsType /\ CommandsInv /\ BenchInv
  BY DEF ClientsInv
<1>2. tool = "bench" => \A f \in files : f.pages <= f.scenarios * Pages(listing)
  BY <1>1, Zenon DEF BenchInv, Reports
<1>3. CASE tool = "list_splits"
  <2>1. toolOutcome = "ok" => registered = Len(listing) \/ cutShort
    BY <1>1, <1>3 DEF CommandsInv
  <2> QED
    BY <1>2, <1>3, <2>1 DEF ClientIsWhole
<1>4. CASE tool = "read_table"
  <2>1. toolOutcome = "ok" => registered = Pages(listing) \/ stream["list"].ended \/ cutShort
    BY <1>1, <1>4 DEF CommandsInv
  <2> QED
    BY <1>2, <1>4, <2>1 DEF ClientIsWhole
<1>5. CASE tool = "bench"
  <2>1. ASSUME toolOutcome = "ok"
        PROVE  /\ {f.testCase : f \in files} = Kept(TestCases)
               /\ Undisturbed => \A f \in files : f.pages = f.scenarios * Pages(listing)
    <3>1. Reports /\ Saved = TestCases
      BY <1>1, <1>5, <2>1 DEF BenchInv, Reports, Saved
    <3>3. {f.testCase : f \in files} = Kept(Saved)
      BY <3>1, Zenon DEF Reports
    <3>4. Undisturbed => \A f \in files : f.pages = f.scenarios * Pages(listing)
      BY <3>1, Zenon DEF Reports
    <3> QED
      BY <3>1, <3>3, <3>4
  <2> QED
    BY <1>2, <1>5, <2>1 DEF ClientIsWhole
<1> QED
  BY <1>1, <1>3, <1>4, <1>5 DEF ClientsType

\* A client that ends without an error has seen all there is, for every table, every
\* number of test cases and every moment at which a stream breaks or a signal comes.
THEOREM ClientsAreWhole == ClientsSpec => []ClientIsWhole
BY ClientsInvariant, ClientsWhole, PTL
-----------------------------------------------------------------------------
(* The commands that count the rows of column shards *)

\* How many members a finite set has.  The theorems that say so are used at the end of
\* the module only (SizesHold), which keeps them out of the steps before.
Sizes ==
  /\ IsFiniteSet({}) /\ Cardinality({}) = 0
  /\ \A S : IsFiniteSet(S) => Cardinality(S) \in Nat
  /\ \A S : IsFiniteSet(S) /\ Cardinality(S) = 0 => S = {}
  /\ \A S : IsFiniteSet(S) => \A T \in SUBSET S : IsFiniteSet(T)
  /\ \A S, c : IsFiniteSet(S) /\ c \in S => Cardinality(S \ {c}) = Cardinality(S) - 1

\* A count is of a shard and has all of its rows; a message is a count or an error.
CountOf(s) == Result(s, ShardRows(s))
Counts == {CountOf(s) : s \in ColumnShards}
Counted(s) == [shard |-> s, rows |-> ShardRows(s), err |-> FALSE]
Uncounted(s) == [shard |-> s, rows |-> 0, err |-> TRUE]
Messages == {Counted(s) : s \in ColumnShards} \cup {Uncounted(s) : s \in ColumnShards}

\* The shards that have no result yet.
Missing == {s \in ColumnShards : \A i \in DOMAIN shardResults : shardResults[i].of # s}

\* The slices and the channel.
ShardsType ==
  /\ shardTool \in {"distribution", "select"}
  /\ shardPc \in {"ids", "distribution", "select", "over"}
  /\ shardIds \in Seq(ColumnShards) /\ unread \subseteq ColumnShards
  /\ shardResults \in Seq(Counts)
  /\ resultChan \in Seq(Messages)

\* The phases of a command.
ShardsPhases ==
  /\ shardPc \in {"distribution", "select"} => shardPc = shardTool /\ unread = {}
  /\ shardPc = "ids" => shardResults = <<>> /\ resultChan = <<>>
  /\ shardPc = "distribution" => DOMAIN counting = DOMAIN shardIds
  /\ selected = cursor
  /\ shardOutcome = "ok" => shardPc = "over" /\ unread = {} /\ Len(shardResults) = Len(shardIds)
  /\ shardTool = "select" /\ shardPc # "over" =>
       \A i \in DOMAIN shardResults : i \in DOMAIN shardIds /\ shardResults[i].of = shardIds[i]
  /\ shardTool = "select" /\ shardOutcome = "ok" =>
       \A j \in DOMAIN shardIds : \E i \in DOMAIN shardResults : shardResults[i].of = shardIds[j]

\* The ids that one attempt has read are those it has not left, each once.
IdsOnce ==
  ~idsRepeated =>
    /\ Len(shardIds) + Cardinality(unread) = Cardinality(ColumnShards)
    /\ \A s \in ColumnShards : s \in unread \/ \E i \in DOMAIN shardIds : shardIds[i] = s
    /\ \A i \in DOMAIN shardIds : shardIds[i] \notin unread
    /\ \A i, j \in DOMAIN shardIds : shardIds[i] = shardIds[j] => i = j

\* A channel holds a count of a shard; its counts are of shards of M, one of each;
\* and the goroutines that have still to send are of other shards of M.
Holds(q, s) == \E i \in DOMAIN q : ~q[i].err /\ q[i].shard = s
SentOnce(q, M) ==
  \A i \in DOMAIN q : ~q[i].err =>
    /\ q[i].shard \in M
    /\ \A j \in DOMAIN q : ~q[j].err /\ q[j].shard = q[i].shard => j = i
ToSend(c, ids, q, M) == \A i \in DOMAIN ids : c[i] = "query" => ids[i] \in M /\ ~Holds(q, ids[i])

\* A goroutine that was not repeated sends one count: no shard is counted twice.
CountsOnce ==
  shardTool = "distribution" /\ ~idsRepeated /\ ~countRepeated =>
    /\ Cardinality(Missing) + Len(shardResults) = Cardinality(ColumnShards)
    /\ SentOnce(resultChan, Missing)
    /\ shardPc = "distribution" => ToSend(counting, shardIds, resultChan, Missing)

ShardsInv == ShardsType /\ ShardsPhases /\ IdsOnce /\ CountsOnce

\* Counts and messages are records.
LEMMA CountsAre ==
  /\ \A s : CountOf(s).of = s /\ CountOf(s).rows = ShardRows(s)
  /\ \A s : Counted(s).shard = s /\ Counted(s).rows = ShardRows(s) /\ Counted(s).err = FALSE
  /\ \A s : Uncounted(s).shard = s /\ Uncounted(s).err = TRUE
  /\ \A c \in Counts : c.of \in ColumnShards /\ c = CountOf(c.of) /\ c.rows = ShardRows(c.of)
  /\ \A s \in ColumnShards : CountOf(s) \in Counts /\ Counted(s) \in Messages /\ Uncounted(s) \in Messages
  /\ \A m \in Messages : m.shard \in ColumnShards /\ (~m.err => m.rows = ShardRows(m.shard))
<1>1. \A s : CountOf(s).of = s /\ CountOf(s).rows = ShardRows(s)
  BY Zenon DEF CountOf, Result
<1>2. \A s : Counted(s).shard = s /\ Counted(s).rows = ShardRows(s) /\ Counted(s).err = FALSE
  BY Zenon DEF Counted
<1>3. \A s : Uncounted(s).shard = s /\ Uncounted(s).err = TRUE
  BY Zenon DEF Uncounted
<1>4. \A c \in Counts : c.of \in ColumnShards /\ c = CountOf(c.of) /\ c.rows = ShardRows(c.of)
  BY <1>1, Zenon DEF Counts
<1>5. \A s \in ColumnShards : CountOf(s) \in Counts /\ Counted(s) \in Messages /\ Uncounted(s) \in Messages
  BY Zenon DEF Counts, Messages
<1>6. \A m \in Messages : m.shard \in ColumnShards /\ (~m.err => m.rows = ShardRows(m.shard))
  <2> SUFFICES ASSUME NEW m \in Messages
               PROVE  m.shard \in ColumnShards /\ (~m.err => m.rows = ShardRows(m.shard))
    OBVIOUS
  <2>1. CASE \E s \in ColumnShards : m = Counted(s)
    BY <1>2, <2>1, Zenon
  <2>2. CASE \E s \in ColumnShards : m = Uncounted(s)
    BY <1>3, <2>2
  <2> QED
    BY <2>1, <2>2, Zenon DEF Messages
<1> QED
  BY <1>1, <1>2, <1>3, <1>4, <1>5, <1>6

\* An element at the end of a sequence.
LEMMA AtTheEnd ==
  ASSUME NEW S, NEW q \in Seq(S), NEW e \in S
  PROVE  /\ Append(q, e) \in Seq(S) /\ Len(Append(q, e)) = Len(q) + 1 /\ Len(q) \in Nat
         /\ DOMAIN Append(q, e) = DOMAIN q \cup {Len(q) + 1} /\ Len(q) + 1 \notin DOMAIN q
         /\ Append(q, e)[Len(q) + 1] = e
         /\ \A i \in DOMAIN q : Append(q, e)[i] = q[i] /\ q[i] \in S
  OBVIOUS

\* The first element of a sequence, and the others.
LEMMA AtTheFront ==
  ASSUME NEW S, NEW q \in Seq(S), q # <<>>
  PROVE  /\ Head(q) \in S /\ Head(q) = q[1] /\ 1 \in DOMAIN q /\ Tail(q) \in Seq(S)
         /\ \A i \in DOMAIN Tail(q) : i + 1 \in DOMAIN q /\ i + 1 # 1 /\ Tail(q)[i] = q[i + 1]
         /\ \A i, j \in DOMAIN Tail(q) : i + 1 = j + 1 => i = j
  OBVIOUS

\* A message joins the channel: an error, or the count of a shard that it does not hold.
LEMMA CountJoins ==
  ASSUME NEW q \in Seq(Messages), NEW m \in Messages, NEW M, SentOnce(q, M),
         m.err \/ (m.shard \in M /\ ~Holds(q, m.shard))
  PROVE  /\ SentOnce(Append(q, m), M)
         /\ \A s : Holds(Append(q, m), s) => Holds(q, s) \/ (~m.err /\ m.shard = s)
<1> DEFINE r == Append(q, m)
           n == Len(q) + 1
<1>1. /\ DOMAIN r = DOMAIN q \cup {n} /\ n \notin DOMAIN q /\ r[n] = m
      /\ \A i \in DOMAIN q : r[i] = q[i]
  BY AtTheEnd
<1> HIDE DEF r, n
<1>2. \A i \in DOMAIN q : ~q[i].err => q[i].shard \in M
  BY Zenon DEF SentOnce
<1>3. \A i, j \in DOMAIN q : ~q[i].err /\ ~q[j].err /\ q[j].shard = q[i].shard => j = i
  BY Zenon DEF SentOnce
<1>4. ~m.err => \A i \in DOMAIN q : ~q[i].err => q[i].shard # m.shard
  BY Zenon DEF Holds
<1>5. \A i \in DOMAIN r : ~r[i].err => r[i].shard \in M
  BY <1>1, <1>2
<1>6. \A i, j \in DOMAIN r : ~r[i].err /\ ~r[j].err /\ r[j].shard = r[i].shard => j = i
  BY <1>1, <1>3, <1>4
<1>7. SentOnce(r, M)
  BY <1>5, <1>6, Zenon DEF SentOnce
<1>8. \A s : Holds(r, s) => Holds(q, s) \/ (~m.err /\ m.shard = s)
  BY <1>1 DEF Holds
<1> QED
  BY <1>7, <1>8, Zenon DEF r

\* The first message leaves the channel: the channel no longer holds its count.
LEMMA CountLeaves ==
  ASSUME NEW q \in Seq(Messages), q # <<>>, NEW M, SentOnce(q, M)
  PROVE  /\ SentOnce(Tail(q), M)
         /\ \A s : Holds(Tail(q), s) => Holds(q, s)
         /\ ~Head(q).err => /\ Holds(q, Head(q).shard) /\ Head(q).shard \in M
                            /\ SentOnce(Tail(q), M \ {Head(q).shard})
<1> DEFINE m == Head(q)
           r == Tail(q)
<1>1. /\ m = q[1] /\ 1 \in DOMAIN q
      /\ \A i \in DOMAIN r : i + 1 \in DOMAIN q /\ i + 1 # 1 /\ r[i] = q[i + 1]
      /\ \A i, j \in DOMAIN r : i + 1 = j + 1 => i = j
  BY AtTheFront
<1> HIDE DEF m, r
<1>2. \A i \in DOMAIN q : ~q[i].err => q[i].shard \in M
  BY Zenon DEF SentOnce
<1>3. \A i, j \in DOMAIN q : ~q[i].err /\ ~q[j].err /\ q[j].shard = q[i].shard => j = i
  BY Zenon DEF SentOnce
<1>4. \A i, j \in DOMAIN r : ~r[i].err /\ ~r[j].err /\ r[j].shard = r[i].shard => j = i
  BY <1>1, <1>3, Zenon
<1>5. \A i \in DOMAIN r : ~r[i].err => r[i].shard \in M
  BY <1>1, <1>2, Zenon
<1>6. ~m.err => \A i \in DOMAIN r : ~r[i].err => r[i].shard # m.shard
  BY <1>1, <1>3, Zenon
<1>7. SentOnce(r, M) /\ (~m.err => SentOnce(r, M \ {m.shard}))
  BY <1>4, <1>5, <1>6, Zenon DEF SentOnce
<1>8. \A s : Holds(r, s) => Holds(q, s)
  BY <1>1, Zenon DEF Holds
<1>9. ~m.err => Holds(q, m.shard) /\ m.shard \in M
  BY <1>1, <1>2, Zenon DEF Holds
<1> QED
  BY <1>7, <1>8, <1>9, Zenon DEF m, r

\* Nothing is counted while the ids are read.
LEMMA NothingCounted ==
  ASSUME shardResults = <<>>
  PROVE  Missing = ColumnShards
BY DEF Missing

\* The shards of a table, and any of them, are finitely many.
LEMMA ShardsFinite ==
  ASSUME Sizes
  PROVE  /\ IsFiniteSet(ColumnShards) /\ Cardinality(ColumnShards) \in Nat
         /\ \A S \in SUBSET ColumnShards : IsFiniteSet(S) /\ Cardinality(S) \in Nat
BY ShardToolsAssumption, Zenon DEF Sizes

\* The command starts.
LEMMA ShardsStart ==
  ASSUME Sizes PROVE ShardToolsInit => ShardsInv
<1> SUFFICES ASSUME ShardToolsInit PROVE ShardsInv
  OBVIOUS
<1>1. ShardsType
  BY DEF ShardToolsInit, ShardsType
<1>2. ShardsPhases
  BY DEF ShardToolsInit, ShardsPhases
<1>3. IdsOnce
  BY ShardsFinite DEF ShardToolsInit, IdsOnce
<1>4. CountsOnce
  <2>1. shardResults = <<>> /\ resultChan = <<>> /\ shardPc = "ids"
    BY DEF ShardToolsInit
  <2>2. Cardinality(Missing) + Len(shardResults) = Cardinality(ColumnShards)
    BY <2>1, NothingCounted, ShardsFinite
  <2>3. SentOnce(resultChan, Missing)
    BY <2>1 DEF SentOnce
  <2> QED
    BY <2>1, <2>2, <2>3 DEF CountsOnce
<1> QED
  BY <1>1, <1>2, <1>3, <1>4 DEF ShardsInv

\* An id is read.
LEMMA ReadIdKeeps == ASSUME Sizes, ShardsInv, ReadId PROVE ShardsInv'
<1>1. PICK s \in unread : shardIds' = Append(shardIds, s) /\ unread' = unread \ {s}
  BY Zenon DEF ReadId
<1>2. /\ UNCHANGED <<shardTool, idsRepeated, countRepeated, counting, resultChan, cursor, selected,
                      shardResults, shardOutcome, shardPc>>
      /\ shardPc = "ids"
  BY Zenon DEF ReadId
<1>3. Missing' = Missing
  BY <1>2, Zenon DEF Missing
<1>4. shardResults = <<>> /\ resultChan = <<>> /\ shardOutcome # "ok"
  BY <1>2 DEF ShardsInv, ShardsPhases
<1>5. shardIds \in Seq(ColumnShards) /\ s \in ColumnShards /\ unread \subseteq ColumnShards
  BY DEF ShardsInv, ShardsType
<1>6. ShardsType'
  BY <1>1, <1>2, <1>5, AtTheEnd DEF ShardsInv, ShardsType
<1>7. ShardsPhases'
  BY <1>2, <1>4 DEF ShardsInv, ShardsPhases
<1>8. IdsOnce'
  <2> SUFFICES ASSUME ~idsRepeated
               PROVE  /\ Len(shardIds') + Cardinality(unread') = Cardinality(ColumnShards)
                      /\ \A t \in ColumnShards : t \in unread' \/ \E i \in DOMAIN shardIds' : shardIds'[i] = t
                      /\ \A i \in DOMAIN shardIds' : shardIds'[i] \notin unread'
                      /\ \A i, j \in DOMAIN shardIds' : shardIds'[i] = shardIds'[j] => i = j
    BY <1>2 DEF IdsOnce
  <2>1. /\ Len(shardIds) + Cardinality(unread) = Cardinality(ColumnShards)
        /\ \A t \in ColumnShards : t \in unread \/ \E i \in DOMAIN shardIds : shardIds[i] = t
        /\ \A i \in DOMAIN shardIds : shardIds[i] \notin unread
        /\ \A i, j \in DOMAIN shardIds : shardIds[i] = shardIds[j] => i = j
    BY DEF ShardsInv, IdsOnce
  <2>2. Cardinality(unread') = Cardinality(unread) - 1 /\ Cardinality(unread) \in Nat
    <3>1. IsFiniteSet(unread) /\ Cardinality(unread) \in Nat /\ unread' = unread \ {s} /\ s \in unread
      BY <1>1, <1>5, ShardsFinite
    <3> QED
      BY <3>1, Zenon DEF Sizes
  <2>3. /\ Len(shardIds') = Len(shardIds) + 1 /\ Len(shardIds) \in Nat
        /\ DOMAIN shardIds' = DOMAIN shardIds \cup {Len(shardIds) + 1} /\ Len(shardIds) + 1 \notin DOMAIN shardIds
        /\ shardIds'[Len(shardIds) + 1] = s
        /\ \A i \in DOMAIN shardIds : shardIds'[i] = shardIds[i]
    BY <1>1, <1>5, AtTheEnd
  <2>4. Len(shardIds') + Cardinality(unread') = Cardinality(ColumnShards)
    BY <2>1, <2>2, <2>3, ShardsFinite
  <2>5. \A t \in ColumnShards : t \in unread' \/ \E i \in DOMAIN shardIds' : shardIds'[i] = t
    BY <1>1, <2>1, <2>3
  <2>6. \A i \in DOMAIN shardIds' : shardIds'[i] \notin unread'
    BY <1>1, <2>1, <2>3
  <2>7. \A i, j \in DOMAIN shardIds' : shardIds'[i] = shardIds'[j] => i = j
    BY <1>1, <2>1, <2>3
  <2> QED
    BY <2>4, <2>5, <2>6, <2>7
<1>9. CountsOnce'
  BY <1>2, <1>3, <1>4 DEF ShardsInv, CountsOnce
<1> QED
  BY <1>6, <1>7, <1>8, <1>9 DEF ShardsInv

\* The ids are read again, or not; in the end every goroutine has one.
LEMMA IdsKeep == ASSUME Sizes, ShardsInv, RepeatIds \/ IdsEnd PROVE ShardsInv'
<1>1. CASE RepeatIds
  <2>1. /\ UNCHANGED <<shardTool, shardIds, countRepeated, counting, resultChan, cursor, selected,
                        shardResults, shardOutcome, shardPc>>
        /\ shardPc = "ids" /\ unread' = ColumnShards /\ idsRepeated' = (idsRepeated \/ shardIds # <<>>)
    BY <1>1, Zenon DEF RepeatIds
  <2>2. Missing' = Missing
    BY <2>1, Zenon DEF Missing
  <2>3. shardResults = <<>> /\ resultChan = <<>> /\ shardOutcome # "ok"
    BY <2>1 DEF ShardsInv, ShardsPhases
  <2>4. ShardsType'
    BY <2>1 DEF ShardsInv, ShardsType
  <2>5. ShardsPhases'
    BY <2>1, <2>3 DEF ShardsInv, ShardsPhases
  <2>6. IdsOnce'
    <3>1. ~idsRepeated' => shardIds' = <<>>
      BY <2>1, Zenon
    <3> QED
      BY <2>1, <3>1, ShardsFinite DEF IdsOnce
  <2>7. CountsOnce'
    BY <2>1, <2>2, <2>3 DEF ShardsInv, CountsOnce
  <2> QED
    BY <2>4, <2>5, <2>6, <2>7 DEF ShardsInv
<1>2. CASE IdsEnd
  <2>1. /\ UNCHANGED <<shardTool, shardIds, unread, idsRepeated, countRepeated, resultChan, cursor, selected,
                        shardResults>>
        /\ shardPc = "ids"
    BY <1>2, Zenon DEF IdsEnd
  <2>2. Missing' = Missing
    BY <2>1, Zenon DEF Missing
  <2>3. shardResults = <<>> /\ resultChan = <<>> /\ shardOutcome # "ok"
    BY <2>1 DEF ShardsInv, ShardsPhases
  <2>4. \/ shardPc' = "over" /\ shardOutcome' = "failed"
        \/ /\ unread = {} /\ shardPc' = shardTool /\ shardOutcome' = shardOutcome
           /\ shardTool = "distribution" => counting' = [i \in DOMAIN shardIds |-> "query"]
    BY <1>2, Zenon DEF IdsEnd, Exits
  <2>5. ShardsType'
    BY <2>1, <2>4 DEF ShardsInv, ShardsType
  <2>6. ShardsPhases'
    BY <2>1, <2>3, <2>4 DEF ShardsInv, ShardsPhases, ShardsType
  <2>7. IdsOnce'
    BY <2>1 DEF ShardsInv, IdsOnce
  <2>8. CountsOnce'
    <3>1. Missing = ColumnShards
      BY <2>3, NothingCounted
    <3>2. \A i \in DOMAIN shardIds : shardIds[i] \in ColumnShards
      BY DEF ShardsInv, ShardsType
    <3>3. \A s : ~Holds(resultChan, s)
      BY <2>3 DEF Holds
    <3>4. ToSend(counting', shardIds, resultChan, Missing)
      BY <3>1, <3>2, <3>3, Zenon DEF ToSend
    <3> QED
      BY <2>1, <2>2, <3>4, Zenon DEF ShardsInv, CountsOnce
  <2> QED
    BY <2>5, <2>6, <2>7, <2>8 DEF ShardsInv
<1> QED
  BY <1>1, <1>2

\* A goroutine sends the count of its shard, or an error; or its query is repeated.
LEMMA CountShardKeeps ==
  ASSUME ShardsInv, NEW i \in DOMAIN counting, CountShard(i)
  PROVE  ShardsInv'
<1>1. /\ UNCHANGED <<shardTool, shardIds, unread, idsRepeated, cursor, selected, shardResults, shardOutcome,
                      shardPc>>
      /\ shardPc = "distribution"
  BY Zenon DEF CountShard
<1>2. Missing' = Missing
  BY <1>1, Zenon DEF Missing
<1>3. /\ shardTool = "distribution" /\ DOMAIN counting = DOMAIN shardIds /\ shardOutcome # "ok"
      /\ shardIds[i] \in ColumnShards /\ resultChan \in Seq(Messages)
  <2>1. shardTool = "distribution" /\ DOMAIN counting = DOMAIN shardIds /\ shardOutcome # "ok"
    BY <1>1 DEF ShardsInv, ShardsPhases
  <2>2. shardIds \in Seq(ColumnShards) /\ resultChan \in Seq(Messages)
    BY Zenon DEF ShardsInv, ShardsType
  <2> QED
    BY <2>1, <2>2
<1>4. IdsOnce'
  BY <1>1 DEF ShardsInv, IdsOnce
<1>5. ASSUME DOMAIN counting' = DOMAIN counting
      PROVE  ShardsPhases'
  BY <1>1, <1>3, <1>5 DEF ShardsInv, ShardsPhases
<1>6. ASSUME resultChan' \in Seq(Messages)
      PROVE  ShardsType'
  BY <1>1, <1>6 DEF ShardsInv, ShardsType
<1>7. ASSUME ~idsRepeated, ~countRepeated
      PROVE  /\ Cardinality(Missing) + Len(shardResults) = Cardinality(ColumnShards)
             /\ SentOnce(resultChan, Missing) /\ ToSend(counting, shardIds, resultChan, Missing)
             /\ \A k, j \in DOMAIN shardIds : shardIds[k] = shardIds[j] => k = j
  BY <1>1, <1>3, <1>7, Zenon DEF ShardsInv, CountsOnce, IdsOnce
<1>8. ASSUME ~idsRepeated, ~countRepeated, SentOnce(resultChan', Missing),
             ToSend(counting', shardIds, resultChan', Missing)
      PROVE  CountsOnce'
  BY <1>1, <1>2, <1>7, <1>8, Zenon DEF CountsOnce
<1>9. CASE /\ counting[i] = "query" /\ UNCHANGED countRepeated
           /\ resultChan' = Append(resultChan, Counted(shardIds[i]))
           /\ counting' = [counting EXCEPT ![i] = "sent"]
  <2> DEFINE m == Counted(shardIds[i])
  <2>1. m \in Messages /\ m.shard = shardIds[i] /\ ~m.err
    BY <1>3, CountsAre
  <2> HIDE DEF m
  <2>2. resultChan' = Append(resultChan, m)
    BY <1>9 DEF m
  <2>3. CountsOnce'
    <3> SUFFICES ASSUME ~idsRepeated, ~countRepeated
                 PROVE  CountsOnce'
      BY <1>1, <1>9, Zenon DEF CountsOnce
    <3>1. \A k \in DOMAIN shardIds : counting'[k] = "query" => counting[k] = "query" /\ k # i
      BY <1>3, <1>9
    <3>2. \A k \in DOMAIN shardIds : k # i => shardIds[k] # shardIds[i]
      BY <1>3, <1>7, Zenon
    <3>3. shardIds[i] \in Missing /\ ~Holds(resultChan, shardIds[i])
      BY <1>3, <1>7, <1>9, Zenon DEF ToSend
    <3>4. /\ SentOnce(resultChan', Missing)
          /\ \A s : Holds(resultChan', s) => Holds(resultChan, s) \/ s = shardIds[i]
      BY <1>3, <1>7, <2>1, <2>2, <3>3, CountJoins, Zenon
    <3>5. ToSend(counting', shardIds, resultChan', Missing)
      BY <1>7, <3>1, <3>2, <3>4, Zenon DEF ToSend
    <3> QED
      BY <1>8, <3>4, <3>5
  <2>4. resultChan' \in Seq(Messages) /\ DOMAIN counting' = DOMAIN counting
    BY <1>3, <1>9, <2>1, <2>2
  <2> QED
    BY <1>4, <1>5, <1>6, <2>3, <2>4, Zenon DEF ShardsInv
<1>10. CASE /\ counting[i] \in {"query", "sent"} /\ UNCHANGED countRepeated
            /\ resultChan' = Append(resultChan, Uncounted(shardIds[i]))
            /\ counting' = [counting EXCEPT ![i] = "over"]
  <2> DEFINE m == Uncounted(shardIds[i])
  <2>1. m \in Messages /\ m.err
    BY <1>3, CountsAre
  <2> HIDE DEF m
  <2>2. resultChan' = Append(resultChan, m)
    BY <1>10 DEF m
  <2>3. CountsOnce'
    <3> SUFFICES ASSUME ~idsRepeated, ~countRepeated
                 PROVE  CountsOnce'
      BY <1>1, <1>10, Zenon DEF CountsOnce
    <3>1. \A k \in DOMAIN shardIds : counting'[k] = "query" => counting[k] = "query"
      BY <1>3, <1>10
    <3>2. SentOnce(resultChan', Missing) /\ \A s : Holds(resultChan', s) => Holds(resultChan, s)
      BY <1>3, <1>7, <2>1, <2>2, CountJoins, Zenon
    <3>3. ToSend(counting', shardIds, resultChan', Missing)
      BY <1>7, <3>1, <3>2, Zenon DEF ToSend
    <3> QED
      BY <1>8, <3>2, <3>3
  <2>4. resultChan' \in Seq(Messages) /\ DOMAIN counting' = DOMAIN counting
    BY <1>3, <1>10, <2>1, <2>2
  <2> QED
    BY <1>4, <1>5, <1>6, <2>3, <2>4, Zenon DEF ShardsInv
<1>11. CASE /\ counting[i] \in {"query", "sent"} /\ UNCHANGED resultChan
            /\ \/ counting' = [counting EXCEPT ![i] = "over"] /\ UNCHANGED countRepeated
               \/ counting' = [counting EXCEPT ![i] = "query"] /\ countRepeated' = (countRepeated \/ counting[i] = "sent")
  <2>1. CountsOnce'
    <3> SUFFICES ASSUME ~idsRepeated, ~countRepeated'
                 PROVE  CountsOnce'
      BY <1>1, Zenon DEF CountsOnce
    <3>1. ~countRepeated /\ \A k \in DOMAIN shardIds : counting'[k] = "query" => counting[k] = "query"
      <4>1. CASE counting' = [counting EXCEPT ![i] = "over"] /\ UNCHANGED countRepeated
        BY <1>3, <4>1
      <4>2. CASE counting' = [counting EXCEPT ![i] = "query"] /\ countRepeated' = (countRepeated \/ counting[i] = "sent")
        <5>1. ~countRepeated /\ counting[i] # "sent"
          BY <4>2, Zenon
        <5>2. counting[i] = "query"
          BY <1>11, <5>1
        <5> QED
          BY <1>3, <4>2, <5>1, <5>2
      <4> QED
        BY <1>11, <4>1, <4>2, Zenon
    <3>2. ToSend(counting', shardIds, resultChan', Missing)
      BY <1>7, <1>11, <3>1, Zenon DEF ToSend
    <3>3. SentOnce(resultChan', Missing)
      BY <1>7, <1>11, <3>1, Zenon
    <3> QED
      BY <1>8, <3>1, <3>2, <3>3
  <2>2. resultChan' \in Seq(Messages) /\ DOMAIN counting' = DOMAIN counting
    BY <1>3, <1>11
  <2> QED
    BY <1>4, <1>5, <1>6, <2>1, <2>2, Zenon DEF ShardsInv
<1> QED
  BY <1>9, <1>10, <1>11, Zenon DEF CountShard, Sends, Counted, Uncounted

\* A count is taken from the channel, or an error ends the command.
LEMMA TakeCountKeeps == ASSUME Sizes, ShardsInv, TakeCount PROVE ShardsInv'
<1> DEFINE m == Head(resultChan)
           r == Result(m.shard, m.rows)
<1>1. /\ UNCHANGED <<shardTool, shardIds, unread, idsRepeated, countRepeated, counting, cursor, selected>>
      /\ shardPc = "distribution" /\ resultChan # <<>> /\ resultChan' = Tail(resultChan)
  BY Zenon DEF TakeCount
<1>2. /\ shardTool = "distribution" /\ DOMAIN counting = DOMAIN shardIds /\ shardOutcome # "ok"
      /\ resultChan \in Seq(Messages) /\ shardResults \in Seq(Counts) /\ unread = {}
  BY <1>1 DEF ShardsInv, ShardsPhases, ShardsType
<1>3. m \in Messages /\ resultChan' \in Seq(Messages)
  BY <1>1, <1>2, AtTheFront
<1>4. IdsOnce'
  BY <1>1 DEF ShardsInv, IdsOnce
<1>5. ASSUME ~idsRepeated, ~countRepeated
      PROVE  /\ Cardinality(Missing) + Len(shardResults) = Cardinality(ColumnShards)
             /\ SentOnce(resultChan, Missing) /\ ToSend(counting, shardIds, resultChan, Missing)
             /\ SentOnce(resultChan', Missing)
             /\ \A s : Holds(resultChan', s) => Holds(resultChan, s)
             /\ ~m.err => /\ Holds(resultChan, m.shard) /\ m.shard \in Missing
                          /\ SentOnce(resultChan', Missing \ {m.shard})
  <2>1. /\ Cardinality(Missing) + Len(shardResults) = Cardinality(ColumnShards)
        /\ SentOnce(resultChan, Missing) /\ ToSend(counting, shardIds, resultChan, Missing)
    BY <1>1, <1>2, <1>5, Zenon DEF ShardsInv, CountsOnce
  <2> QED
    BY <1>1, <1>2, <2>1, CountLeaves, Zenon
<1>6. CASE m.err
  <2>1. shardOutcome' = "failed" /\ shardPc' = "over" /\ UNCHANGED shardResults
    BY <1>6, Zenon DEF TakeCount, Exits
  <2>2. Missing' = Missing
    BY <2>1, Zenon DEF Missing
  <2>3. ShardsType'
    BY <1>1, <1>3, <2>1 DEF ShardsInv, ShardsType
  <2>4. ShardsPhases'
    BY <1>1, <1>2, <2>1 DEF ShardsInv, ShardsPhases
  <2>5. CountsOnce'
    BY <1>1, <1>5, <2>1, <2>2 DEF CountsOnce
  <2> QED
    BY <1>4, <2>3, <2>4, <2>5 DEF ShardsInv
<1>7. CASE ~m.err
  <2>1. shardResults' = Append(shardResults, r) /\ UNCHANGED <<shardOutcome, shardPc>>
    BY <1>7, Zenon DEF TakeCount
  <2>2. m.shard \in ColumnShards /\ m.rows = ShardRows(m.shard)
    BY <1>3, <1>7, CountsAre
  <2>3. r = CountOf(m.shard)
    BY <2>2, Zenon DEF CountOf
  <2>4. r \in Counts /\ r.of = m.shard
    BY <2>2, <2>3, CountsAre
  <2> HIDE DEF m, r
  <2>5. /\ shardResults' \in Seq(Counts) /\ Len(shardResults') = Len(shardResults) + 1 /\ Len(shardResults) \in Nat
        /\ DOMAIN shardResults' = DOMAIN shardResults \cup {Len(shardResults) + 1}
        /\ shardResults'[Len(shardResults) + 1] = r
        /\ \A i \in DOMAIN shardResults : shardResults'[i] = shardResults[i]
    BY <1>2, <2>1, <2>4, AtTheEnd
  <2>6. Missing' = Missing \ {m.shard}
    BY <2>4, <2>5 DEF Missing
  <2>7. ShardsType'
    BY <1>1, <1>3, <2>1, <2>5 DEF ShardsInv, ShardsType
  <2>8. ShardsPhases'
    BY <1>1, <1>2, <2>1 DEF ShardsInv, ShardsPhases
  <2>9. CountsOnce'
    <3> SUFFICES ASSUME ~idsRepeated, ~countRepeated
                 PROVE  CountsOnce'
      BY <1>1 DEF CountsOnce
    <3>1. /\ m.shard \in Missing /\ Holds(resultChan, m.shard) /\ SentOnce(resultChan', Missing')
          /\ \A s : Holds(resultChan', s) => Holds(resultChan, s)
      BY <1>5, <1>7, <2>6, Zenon
    <3>2. Cardinality(Missing') = Cardinality(Missing) - 1 /\ Cardinality(Missing) \in Nat
      <4>1. Missing \subseteq ColumnShards
        BY Zenon DEF Missing
      <4>2. IsFiniteSet(Missing) /\ Cardinality(Missing) \in Nat
        BY <4>1, ShardsFinite
      <4> QED
        BY <2>6, <3>1, <4>2, Zenon DEF Sizes
    <3>3. Cardinality(Missing') + Len(shardResults') = Cardinality(ColumnShards)
      <4>1. Cardinality(Missing) + Len(shardResults) = Cardinality(ColumnShards)
        BY <1>5
      <4>2. Len(shardResults') = Len(shardResults) + 1 /\ Len(shardResults) \in Nat
        BY <2>5
      <4> QED
        BY <3>2, <4>1, <4>2
    <3>4. ToSend(counting, shardIds, resultChan', Missing')
      BY <1>5, <2>6, <3>1, Zenon DEF ToSend
    <3> QED
      BY <1>1, <3>1, <3>3, <3>4, Zenon DEF CountsOnce
  <2> QED
    BY <1>4, <2>7, <2>8, <2>9 DEF ShardsInv
<1> QED
  BY <1>6, <1>7

\* The distribution is shown.
LEMMA ShowDistributionKeeps == ASSUME ShardsInv, ShowDistribution PROVE ShardsInv'
<1>1. /\ UNCHANGED <<shardTool, shardIds, unread, idsRepeated, countRepeated, counting, resultChan, cursor,
                      selected, shardResults>>
      /\ shardPc = "distribution" /\ Len(shardResults) = Len(shardIds) /\ shardPc' = "over"
  BY DEF ShowDistribution, Exits
<1>2. Missing' = Missing
  BY <1>1, Zenon DEF Missing
<1>3. ShardsType'
  BY <1>1 DEF ShardsInv, ShardsType
<1>4. ShardsPhases'
  BY <1>1 DEF ShardsInv, ShardsPhases
<1>5. IdsOnce' /\ CountsOnce'
  BY <1>1, <1>2 DEF ShardsInv, IdsOnce, CountsOnce
<1> QED
  BY <1>3, <1>4, <1>5 DEF ShardsInv

\* The results of the selects are sorted: none is lost.
LEMMA ShowSelectsKeeps == ASSUME ShardsInv, ShowSelects PROVE ShardsInv'
<1>1. /\ UNCHANGED <<shardTool, shardIds, unread, idsRepeated, countRepeated, counting, resultChan, cursor,
                      selected>>
      /\ shardPc = "select" /\ Len(shardResults) = Len(shardIds) /\ shardPc' = "over"
  BY Zenon DEF ShowSelects, Exits
<1>2. /\ shardTool = "select" /\ unread = {} /\ selected = cursor
      /\ shardIds \in Seq(ColumnShards) /\ shardResults \in Seq(Counts)
      /\ \A i \in DOMAIN shardResults : i \in DOMAIN shardIds /\ shardResults[i].of = shardIds[i]
  BY <1>1 DEF ShardsInv, ShardsType, ShardsPhases
<1>3. PICK order \in Orders(DOMAIN shardResults) :
        shardResults' = [i \in DOMAIN shardResults |-> shardResults[order[i]]]
  BY Zenon DEF ShowSelects
<1>4. /\ \A i \in DOMAIN shardResults : order[i] \in DOMAIN shardResults
      /\ \A j \in DOMAIN shardResults : \E i \in DOMAIN shardResults : order[i] = j
  BY DEF Orders
<1>5. /\ shardResults' \in Seq(Counts) /\ Len(shardResults') = Len(shardResults)
      /\ DOMAIN shardResults' = DOMAIN shardResults
      /\ \A i \in DOMAIN shardResults : shardResults'[i] = shardResults[order[i]]
  <2> DEFINE n == Len(shardResults)
             sorted == [i \in 1 .. n |-> shardResults[order[i]]]
  <2>1. n \in Nat /\ DOMAIN shardResults = 1 .. n /\ \A i \in 1 .. n : shardResults[i] \in Counts
    BY <1>2
  <2>2. shardResults' = sorted
    BY <1>3, <2>1, Zenon
  <2>3. \A i \in 1 .. n : shardResults[order[i]] \in Counts
    BY <1>4, <2>1, Zenon
  <2> HIDE DEF n
  <2>4. sorted \in Seq(Counts) /\ Len(sorted) = n /\ DOMAIN sorted = 1 .. n
    BY <2>1, <2>3
  <2>5. \A i \in 1 .. n : sorted[i] = shardResults[order[i]]
    BY Zenon
  <2> HIDE DEF sorted
  <2> QED
    BY <2>1, <2>2, <2>4, <2>5, Zenon DEF n
<1>6. DOMAIN shardIds = DOMAIN shardResults
  <2>1. DOMAIN shardIds = 1 .. Len(shardIds) /\ DOMAIN shardResults = 1 .. Len(shardResults)
    BY <1>2
  <2> QED
    BY <1>1, <2>1, Zenon
<1>7. \A j \in DOMAIN shardIds : \E i \in DOMAIN shardResults' : shardResults'[i].of = shardIds[j]
  <2> SUFFICES ASSUME NEW j \in DOMAIN shardIds
               PROVE  \E i \in DOMAIN shardResults' : shardResults'[i].of = shardIds[j]
    OBVIOUS
  <2>1. PICK i \in DOMAIN shardResults : order[i] = j
    BY <1>4, <1>6, Zenon
  <2>2. shardResults'[i] = shardResults[j] /\ shardResults[j].of = shardIds[j]
    BY <1>2, <1>5, <1>6, <2>1, Zenon
  <2> QED
    BY <1>5, <2>2, Zenon
<1>8. ShardsType'
  BY <1>1, <1>5 DEF ShardsInv, ShardsType
<1>9. ShardsPhases'
  BY <1>1, <1>2, <1>5, <1>7 DEF ShardsPhases
<1>10. IdsOnce' /\ CountsOnce'
  BY <1>1, <1>2 DEF ShardsInv, IdsOnce, CountsOnce
<1> QED
  BY <1>8, <1>9, <1>10 DEF ShardsInv

\* The rows of a shard are read, and counted from zero when the query is repeated.
LEMMA SelectKeeps == ASSUME ShardsInv, ReadShardRow \/ RepeatSelect \/ SelectEnds PROVE ShardsInv'
<1>1. /\ UNCHANGED <<shardTool, shardIds, unread, idsRepeated, countRepeated, counting, resultChan>>
      /\ shardPc = "select" /\ Len(shardResults) < Len(shardIds)
  BY DEF ReadShardRow, RepeatSelect, SelectEnds, Selecting
<1>2. /\ shardTool = "select" /\ selected = cursor /\ shardOutcome # "ok" /\ unread = {}
      /\ shardIds \in Seq(ColumnShards) /\ shardResults \in Seq(Counts)
  BY <1>1 DEF ShardsInv, ShardsType, ShardsPhases
<1>3. IdsOnce' /\ CountsOnce'
  BY <1>1, <1>2 DEF ShardsInv, IdsOnce, CountsOnce
<1>4. CASE UNCHANGED shardResults
  <2>1. selected' = cursor' /\ (UNCHANGED <<shardOutcome, shardPc>> \/ (shardPc' = "over" /\ shardOutcome' = "failed"))
    <3>1. CASE ReadShardRow
      BY <1>2, <3>1 DEF ReadShardRow
    <3>2. CASE RepeatSelect
      BY <3>2 DEF RepeatSelect
    <3>3. CASE SelectEnds
      BY <1>2, <3>3 DEF SelectEnds, Exits
    <3> QED
      BY <3>1, <3>2, <3>3
  <2>2. ShardsType'
    BY <1>1, <1>4, <2>1 DEF ShardsInv, ShardsType
  <2>3. ShardsPhases'
    BY <1>1, <1>2, <1>4, <2>1 DEF ShardsInv, ShardsPhases
  <2> QED
    BY <1>3, <2>2, <2>3 DEF ShardsInv
<1>5. CASE /\ SelectEnds /\ cursor = ShardRows(CurrentShard)
           /\ shardResults' = Append(shardResults, Result(CurrentShard, selected))
           /\ cursor' = 0 /\ selected' = 0 /\ UNCHANGED <<shardOutcome, shardPc>>
  <2>1. Len(shardResults) + 1 \in DOMAIN shardIds /\ CurrentShard \in ColumnShards
    BY <1>1, <1>2 DEF CurrentShard
  <2>2. Result(CurrentShard, selected) = CountOf(CurrentShard)
    BY <1>2, <1>5, Zenon DEF CountOf
  <2> DEFINE r == CountOf(CurrentShard)
  <2>3. r \in Counts /\ r.of = CurrentShard
    BY <2>1, CountsAre
  <2> HIDE DEF r
  <2>4. shardResults' = Append(shardResults, r)
    BY <1>5, <2>2, Zenon DEF r
  <2>5. /\ shardResults' \in Seq(Counts)
        /\ DOMAIN shardResults' = DOMAIN shardResults \cup {Len(shardResults) + 1}
        /\ shardResults'[Len(shardResults) + 1] = r
        /\ \A i \in DOMAIN shardResults : shardResults'[i] = shardResults[i]
    BY <1>2, <2>3, <2>4, AtTheEnd
  <2>6. ShardsType'
    BY <1>1, <1>5, <2>5 DEF ShardsInv, ShardsType
  <2>7. ShardsPhases'
    <3>1. \A i \in DOMAIN shardResults' : i \in DOMAIN shardIds /\ shardResults'[i].of = shardIds[i]
      BY <1>1, <1>2, <2>1, <2>3, <2>5 DEF ShardsInv, ShardsPhases, CurrentShard
    <3> QED
      BY <1>1, <1>2, <1>5, <3>1 DEF ShardsInv, ShardsPhases
  <2> QED
    BY <1>3, <2>6, <2>7 DEF ShardsInv
<1> QED
  BY <1>4, <1>5 DEF ReadShardRow, RepeatSelect, SelectEnds

\* Every step of the commands.
LEMMA ShardsStep ==
  ASSUME Sizes PROVE ShardsInv /\ [ShardToolsNext]_shardVars => ShardsInv'
<1> SUFFICES ASSUME ShardsInv, [ShardToolsNext]_shardVars PROVE ShardsInv'
  OBVIOUS
<1>1. CASE UNCHANGED shardVars
  <2>1. Missing' = Missing
    BY <1>1, Zenon DEF shardVars, Missing
  <2> QED
    BY <1>1, <2>1 DEF shardVars, ShardsInv, ShardsType, ShardsPhases, IdsOnce, CountsOnce
<1>2. CASE ShardToolsNext
  BY <1>2, ReadIdKeeps, IdsKeep, CountShardKeeps, TakeCountKeeps, ShowDistributionKeeps,
              ShowSelectsKeeps, SelectKeeps, Zenon DEF ShardToolsNext
<1> QED
  BY <1>1, <1>2

\* What the invariant says of the results.
LEMMA ShardsCounted ==
  ASSUME Sizes PROVE ShardsInv => ShardsAreCounted
<1> SUFFICES ASSUME ShardsInv PROVE ShardsAreCounted
  OBVIOUS
<1>1. \A i \in DOMAIN shardResults : shardResults[i] \in Counts
  BY DEF ShardsInv, ShardsType
<1>2. \A i \in DOMAIN shardResults : shardResults[i].rows = ShardRows(shardResults[i].of)
  BY <1>1, CountsAre
<1>3. ASSUME shardOutcome = "ok", ~idsRepeated, shardTool = "distribution" => ~countRepeated
      PROVE  /\ Len(shardResults) = Cardinality(ColumnShards)
             /\ \A s \in ColumnShards : \E i \in DOMAIN shardResults : shardResults[i] = CountOf(s)
  <2>1. Len(shardResults) = Len(shardIds) /\ unread = {} /\ shardTool \in {"distribution", "select"}
    BY <1>3 DEF ShardsInv, ShardsPhases, ShardsType
  <2>2. /\ Len(shardIds) + Cardinality(unread) = Cardinality(ColumnShards)
        /\ \A s \in ColumnShards : s \in unread \/ \E i \in DOMAIN shardIds : shardIds[i] = s
    BY <1>3 DEF ShardsInv, IdsOnce
  <2>3. Len(shardResults) = Cardinality(ColumnShards) /\ DOMAIN shardResults = DOMAIN shardIds
    <3>1. Cardinality(unread) = 0
      BY <2>1, Zenon DEF Sizes
    <3>2. DOMAIN shardResults = 1 .. Len(shardResults) /\ DOMAIN shardIds = 1 .. Len(shardIds) /\ Len(shardIds) \in Nat
      BY DEF ShardsInv, ShardsType
    <3> QED
      BY <2>1, <2>2, <3>1, <3>2
  <2>4. \A s \in ColumnShards : \E i \in DOMAIN shardResults : shardResults[i].of = s
    <3>1. CASE shardTool = "select"
      BY <1>3, <2>1, <2>2, <3>1 DEF ShardsInv, ShardsPhases
    <3>2. CASE shardTool = "distribution"
      <4>1. Missing \subseteq ColumnShards
        BY Zenon DEF Missing
      <4>2. Cardinality(Missing) + Len(shardResults) = Cardinality(ColumnShards)
        BY <1>3, <3>2 DEF ShardsInv, CountsOnce
      <4>3. Cardinality(Missing) = 0 /\ IsFiniteSet(Missing)
        BY <2>3, <4>1, <4>2, ShardsFinite
      <4>4. Missing = {}
        BY <4>3, Zenon DEF Sizes
      <4> QED
        BY <4>4 DEF Missing
    <3> QED
      BY <2>1, <3>1, <3>2
  <2>5. \A i \in DOMAIN shardResults : shardResults[i] = CountOf(shardResults[i].of)
    BY <1>1, CountsAre
  <2> QED
    BY <2>3, <2>4, <2>5, Zenon
<1> QED
  BY <1>2, <1>3, Zenon DEF ShardsAreCounted, CountOf
-----------------------------------------------------------------------------
(* The tools *)

\* The tool that is not run does nothing, and reports nothing.
LEMMA ClientsRest == ClientsOff /\ [ClientsNext]_clientVars => ClientsOff'
<1> SUFFICES ASSUME ClientsOff, [ClientsNext]_clientVars PROVE ClientsOff'
  OBVIOUS
<1>1. tool # "bench" /\ toolPc = "off"
  BY DEF ClientsOff
<1>2. ~ClientsNext
  BY <1>1 DEF ClientsNext, ReceiveAnswer, SendAnswerCanceled, DumpStream, StartClient, ShowSplits, RequestSplits,
              ShowPages, StartTestCase, Interrupt, WaitLimiter, CallDescribeTable, TakeSplit, ListingEnds,
              TakePage, PagesEnd, StopTestCase, ProgressEnds, SaveReport
<1>3. UNCHANGED clientVars
  BY <1>2
<1> QED
  BY <1>3 DEF clientVars, inputs, ClientsOff

\* The shard tools stay off once they are off.
LEMMA ShardsRest == ShardToolsOff /\ [ShardToolsNext]_shardVars => ShardToolsOff'
<1> SUFFICES ASSUME ShardToolsOff, [ShardToolsNext]_shardVars PROVE ShardToolsOff'
  OBVIOUS
<1>1. shardPc = "off" /\ counting = <<>>
  BY DEF ShardToolsOff
<1>2. ~ShardToolsNext
  BY <1>1 DEF ShardToolsNext, ReadId, RepeatIds, IdsEnd, CountShard, TakeCount, ShowDistribution, ReadShardRow,
              RepeatSelect, SelectEnds, ShowSelects, Selecting
<1>3. UNCHANGED shardVars
  BY <1>2
<1> QED
  BY <1>3 DEF shardVars, ShardToolsOff

\* A tool that is off reports nothing wrong.
LEMMA RestIsExact == (ClientsOff => ClientIsWhole) /\ (ShardToolsOff => ShardsAreCounted)
BY DEF ClientsOff, ClientIsWhole, ShardToolsOff, ShardsAreCounted

\* The tool that is run, and the others that rest.
ToolsInv == (ClientsInv \/ ClientsOff) /\ (ShardsInv \/ ShardToolsOff)

\* The invariant holds when a tool starts.
LEMMA ToolsStart == ASSUME Sizes PROVE ToolsInit => ToolsInv
BY ClientsStart, ShardsStart DEF ToolsInit, ToolsInv

\* Every step of a tool keeps the invariant.
LEMMA ToolsStep == ASSUME Sizes PROVE ToolsInv /\ [ToolsNext]_toolVars => ToolsInv'
<1> SUFFICES ASSUME ToolsInv, [ToolsNext]_toolVars PROVE ToolsInv'
  OBVIOUS
<1>1. [ClientsNext]_clientVars /\ [ShardToolsNext]_shardVars
  BY DEF ToolsNext, toolVars
<1> QED
  BY <1>1, ClientsStep, ShardsStep, ClientsRest, ShardsRest DEF ToolsInv

INSTANCE FiniteSetTheorems

\* The facts about the sizes of finite sets, from the library.
LEMMA SizesHold == Sizes
BY FS_EmptySet, FS_CardinalityType, FS_RemoveElement, FS_Subset DEF Sizes

\* The invariant of the commands that count the rows of column shards.
THEOREM ShardsInvariant == ShardToolsSpec => []ShardsInv
<1>1. ShardToolsInit => ShardsInv
  BY SizesHold, ShardsStart
<1>2. ShardsInv /\ [ShardToolsNext]_shardVars => ShardsInv'
  BY SizesHold, ShardsStep
<1> QED
  BY <1>1, <1>2, PTL DEF ShardToolsSpec

\* A command reports every shard once and with all its rows, for any number of shards.
THEOREM ShardsReported == ShardToolsSpec => []ShardsAreCounted
<1>1. ShardsInv => ShardsAreCounted
  BY SizesHold, ShardsCounted
<1> QED
  BY <1>1, ShardsInvariant, PTL

\* What a tool reports without an error is all that it was asked for, for every table,
\* every number of shards, test cases, repetitions and interruptions.
THEOREM ToolsReportAll == ToolsSpec => []ToolsAreExact
<1>1. ToolsInit => ToolsInv
  BY SizesHold, ToolsStart
<1>2. ToolsInv /\ [ToolsNext]_toolVars => ToolsInv'
  BY SizesHold, ToolsStep
<1>3. ToolsInv => ToolsAreExact
  BY SizesHold, ClientsWhole, ShardsCounted, RestIsExact DEF ToolsInv, ToolsAreExact
<1> QED
  BY <1>1, <1>2, <1>3, PTL DEF ToolsSpec
=============================================================================
