-------------------------- MODULE EvaluationProofs --------------------------
(***************************************************************************)
(* Theorems about Evaluation, for every set of ids, contents and checks,   *)
(* every tree of inputs, and calls of any number and depth: the manifest   *)
(* that a configuration leaves, the order of the setups of its inputs, the *)
(* calendar of sys.mktime, where the paths of sys.path lead, and what the  *)
(* functions of a bind are given.                                          *)
(***************************************************************************)
EXTENDS Evaluation, SequenceTheorems, FiniteSetTheorems, WellFoundedInduction, TLAPS

Kind == {"build", "bind"}

\* A call under way refers only to what calls before it have returned.
Frames ==
  [kind : Kind, id : Id \cup {NoId}, replace : BOOLEAN, refs : SUBSET handles,
   stage : {"inputs", "create"}]

\* What the code of definitions makes: references to what was handed out.
Definitions ==
  [kind : Kind, id : Id \cup {NoId}, refs : SUBSET handles, uses : SUBSET handles,
   content : Content, check : Check \cup {NoCheck}]

StackInv == stack \in Seq(Frames) /\ Len(stack) <= MaxDepth /\ (stack # Empty => Running)

\* The manifest has no two definitions of one hash, or of one kind and id, and
\* all were handed out.
ManifestInv ==
  /\ manifest \subseteq Definitions
  /\ Hashes(manifest) \subseteq handles
  /\ handles \subseteq Hashes(manifest) \cup replaced
  /\ \A d, e \in manifest : HashOf(d) = HashOf(e) => d = e
  /\ \A d, e \in manifest : d.kind = e.kind /\ d.id = e.id /\ d.id # NoId => d = e

LastInv == LastWins /\ \A k \in DOMAIN last : k[2] # NoId

\* The walk over the inputs: a path is visited after all it is given, so neither
\* the path at hand nor one above it has been.
WalkInv ==
  /\ Tree(inputs)
  /\ visited \in Seq(DOMAIN inputs)
  /\ at = Empty \/ at \in DOMAIN inputs \ HaveBeen
  /\ \A i \in DOMAIN visited : Given(visited[i]) \subseteq {visited[j] : j \in 1 .. i - 1}
  /\ \A i, j \in DOMAIN visited : visited[i] = visited[j] => i = j

PhaseInv ==
  /\ pc \in {"config", "visit", "setup", "root", "done", "failed"}
  /\ pc = "config" => inputs = Empty /\ at = Empty /\ visited = Empty
  /\ pc = "setup" => at # Empty /\ Given(at) \subseteq HaveBeen
  /\ pc = "root" => HaveBeen = DOMAIN inputs

IInv ==
  /\ StackInv /\ calls \in 0 .. MaxCalls
  /\ ManifestInv /\ LastInv
  /\ WalkInv /\ PhaseInv

-----------------------------------------------------------------------------
(* The calendar                                                            *)

\* A number has one multiple of n more before it than its predecessor if it
\* is one itself.
LEMMA NextQuotient ==
  ASSUME NEW y \in Nat
  PROVE  /\ (y + 1) \div 4 = y \div 4 + IF (y + 1) % 4 = 0 THEN 1 ELSE 0
         /\ (y + 1) \div 100 = y \div 100 + IF (y + 1) % 100 = 0 THEN 1 ELSE 0
         /\ (y + 1) \div 400 = y \div 400 + IF (y + 1) % 400 = 0 THEN 1 ELSE 0
OBVIOUS

\* The leap years among all years: every fourth, but of the centuries only every
\* fourth.
LEMMA LeapYears ==
  ASSUME NEW y \in Nat
  PROVE  /\ y % 400 = 0 => y % 100 = 0
         /\ y % 100 = 0 => y % 4 = 0
OBVIOUS

\* A date names a day that there is, in a year after the first or in it.
LEMMA DatesType ==
  ASSUME NEW d \in Dates
  PROVE  /\ d.year \in Nat \ {0} /\ d.month \in 1 .. 12 /\ d.day \in 1 .. 31
         /\ d.day <= Length(d.year, d.month)
<1>1. /\ d \in [year : Years, month : 1 .. 12, day : 1 .. 31]
      /\ d.day <= Length(d.year, d.month)
  BY DEF Dates
<1>2. d.year \in Nat \ {0}
  BY <1>1, YearsAssumption
<1> QED
  BY <1>1, <1>2, SMT

\* A day's number from the epoch on, as mktime computes it.
Days(year, month, day) ==
  (year - 1) * 365 + (year - 1) \div 4 - (year - 1) \div 100 + (year - 1) \div 400
    + MonthDays[month] + day - 1 + (IF month > 2 /\ IsLeap(year) THEN 1 ELSE 0)
    - UnixEpochDays

LEMMA DaysOf ==
  ASSUME NEW d, d.year \in Nat \ {0}, d.month \in 1 .. 12, d.day \in 1 .. 31,
         NEW hour, NEW min, NEW sec
  PROVE  mktime(d, hour, min, sec).days = Days(d.year, d.month, d.day)
<1>1. /\ Quotient(d.year - 1, 4) = (d.year - 1) \div 4
      /\ Quotient(d.year - 1, 100) = (d.year - 1) \div 100
      /\ Quotient(d.year - 1, 400) = (d.year - 1) \div 400
  BY SMT DEF Quotient
<1>2. MonthDays[d.month] \in Nat
  BY SMT DEF MonthDays
<1>3. UnixEpochDays \in Nat
  BY SMT DEF UnixEpochDays
<1> QED
  BY <1>1, <1>2, <1>3, SMT DEF mktime, Days

\* The table of the days before each month agrees with the lengths of months.
LEMMA MonthsFollow ==
  ASSUME NEW year \in Nat, NEW month \in 1 .. 11
  PROVE  MonthDays[month + 1] - MonthDays[month]
           = Length(year, month) - IF month = 2 /\ IsLeap(year) THEN 1 ELSE 0
<1> month \in {1, 2, 3, 4, 5, 6, 7, 8, 9, 10, 11}
  OBVIOUS
<1> QED
  BY LeapYears, SMT DEF MonthDays, Length, IsLeap

\* The number of the day after is one more, within a month, at the end of one
\* and at the end of a year.
LEMMA NextDay ==
  ASSUME NEW year \in Nat \ {0}, NEW month \in 1 .. 12, NEW day \in 1 .. 31,
         day <= Length(year, month)
  PROVE  /\ day < Length(year, month) => Days(year, month, day + 1) = Days(year, month, day) + 1
         /\ day = Length(year, month) /\ month < 12 =>
              Days(year, month + 1, 1) = Days(year, month, day) + 1
         /\ day = Length(year, month) /\ month = 12 =>
              Days(year + 1, 1, 1) = Days(year, month, day) + 1
<1>1. /\ \A m \in 1 .. 12 : MonthDays[m] \in Nat
      /\ MonthDays[1] = 0 /\ MonthDays[12] = 334
  BY SMT DEF MonthDays
<1>2. UnixEpochDays \in Nat
  BY SMT DEF UnixEpochDays
<1>3. day < Length(year, month) => Days(year, month, day + 1) = Days(year, month, day) + 1
  BY <1>1, <1>2, SMT DEF Days
<1>4. ASSUME day = Length(year, month), month < 12
      PROVE  Days(year, month + 1, 1) = Days(year, month, day) + 1
  <2>1. /\ month \in 1 .. 11 /\ month + 1 \in 1 .. 12
        /\ MonthDays[month] \in Nat /\ MonthDays[month + 1] \in Nat
    BY <1>1, <1>4
  <2>2. MonthDays[month + 1] - MonthDays[month]
          = day - IF month = 2 /\ IsLeap(year) THEN 1 ELSE 0
    BY <1>4, <2>1, MonthsFollow
  <2>3. ~(1 > 2) /\ (month + 1 > 2 <=> month >= 2)
    BY SMT
  <2> QED
    BY <1>2, <2>1, <2>2, <2>3, SMT DEF Days
<1>5. ASSUME day = Length(year, month), month = 12
      PROVE  Days(year + 1, 1, 1) = Days(year, month, day) + 1
  <2> DEFINE y == year - 1
  <2>1. y \in Nat /\ year = y + 1
    OBVIOUS
  <2>2. day = 31
    BY <1>5, SMT DEF Length
  <2> HIDE DEF y
  <2> QED
    BY <1>1, <1>2, <1>5, <2>1, <2>2, NextQuotient, LeapYears, SMT DEF Days, IsLeap
<1> QED
  BY <1>3, <1>4, <1>5

\* Midnight after a day.
LEMMA TomorrowOf ==
  ASSUME NEW d, d.year \in Nat \ {0}, d.month \in 1 .. 12, d.day \in 1 .. 31,
         d.day <= Length(d.year, d.month)
  PROVE  mktime(Tomorrow(d), 0, 0, 0).days = Days(d.year, d.month, d.day) + 1
<1> DEFINE next == Tomorrow(d)
<1>1. Length(d.year, d.month) \in 28 .. 31
  BY SMT DEF Length
<1>2. ASSUME next.year \in Nat \ {0}, next.month \in 1 .. 12, next.day \in 1 .. 31,
             Days(next.year, next.month, next.day) = Days(d.year, d.month, d.day) + 1
      PROVE  mktime(Tomorrow(d), 0, 0, 0).days = Days(d.year, d.month, d.day) + 1
  BY <1>2, DaysOf
<1>3. CASE d.day < Length(d.year, d.month)
  <2>1. next.year = d.year /\ next.month = d.month /\ next.day = d.day + 1
    BY <1>3, SMT DEF Tomorrow
  <2>2. d.day + 1 \in 1 .. 31
    BY <1>1, <1>3
  <2>3. Days(d.year, d.month, d.day + 1) = Days(d.year, d.month, d.day) + 1
    BY <1>3, NextDay
  <2> QED
    BY <1>2, <2>1, <2>2, <2>3
<1>4. CASE d.day = Length(d.year, d.month) /\ d.month < 12
  <2>1. next.year = d.year /\ next.month = d.month + 1 /\ next.day = 1
    BY <1>4, SMT DEF Tomorrow
  <2>2. d.month + 1 \in 1 .. 12
    BY <1>4
  <2>3. Days(d.year, d.month + 1, 1) = Days(d.year, d.month, d.day) + 1
    BY <1>4, NextDay
  <2> QED
    BY <1>2, <2>1, <2>2, <2>3
<1>5. CASE d.day = Length(d.year, d.month) /\ d.month = 12
  <2>1. next.year = d.year + 1 /\ next.month = 1 /\ next.day = 1
    BY <1>5, SMT DEF Tomorrow
  <2>2. d.year + 1 \in Nat \ {0}
    OBVIOUS
  <2>3. Days(d.year + 1, 1, 1) = Days(d.year, d.month, d.day) + 1
    BY <1>5, NextDay
  <2> QED
    BY <1>2, <2>1, <2>2, <2>3
<1>6. d.day < Length(d.year, d.month) \/ d.day = Length(d.year, d.month)
  BY <1>1
<1>7. d.month < 12 \/ d.month = 12
  OBVIOUS
<1> QED
  BY <1>3, <1>4, <1>5, <1>6, <1>7

\* From the second before midnight on to midnight: whatever the day, mktime
\* (globals.rs:60) goes on by one.
LEMMA NothingMistimed == Mistimed = {}
<1> SUFFICES ASSUME NEW d \in Dates
             PROVE  (mktime(Tomorrow(d), 0, 0, 0).days - mktime(d, 23, 59, 59).days) * 86400
                      + mktime(Tomorrow(d), 0, 0, 0).seconds = mktime(d, 23, 59, 59).seconds + 1
  BY DEF Mistimed
<1>1. /\ d.year \in Nat \ {0} /\ d.month \in 1 .. 12 /\ d.day \in 1 .. 31
      /\ d.day <= Length(d.year, d.month)
  BY DatesType
<1>2. Days(d.year, d.month, d.day) \in Int
  <2>1. MonthDays[d.month] \in Nat
    BY <1>1, SMT DEF MonthDays
  <2>2. UnixEpochDays \in Nat
    BY SMT DEF UnixEpochDays
  <2>3. (d.year - 1) \div 4 \in Int /\ (d.year - 1) \div 100 \in Int /\ (d.year - 1) \div 400 \in Int
    BY <1>1, SMT
  <2> QED
    BY <1>1, <2>1, <2>2, <2>3, SMT DEF Days
<1>3. mktime(d, 23, 59, 59).days = Days(d.year, d.month, d.day)
  BY <1>1, DaysOf
<1>4. mktime(Tomorrow(d), 0, 0, 0).days = Days(d.year, d.month, d.day) + 1
  BY <1>1, TomorrowOf
<1>5. mktime(d, 23, 59, 59).seconds = 86399 /\ mktime(Tomorrow(d), 0, 0, 0).seconds = 0
  BY SMT DEF mktime
<1> QED
  BY <1>2, <1>3, <1>4, <1>5, SMT

-----------------------------------------------------------------------------
(* Paths                                                                   *)

\* The components there are, and the names among them.
Component ==
  (UNION {{path[i] : i \in DOMAIN path} : path \in Paths \cup WorkingDir}) \cup {Root, Dot, Up}
PathNames == Component \ {Root, Dot, Up}

\* A set of numbers that is not empty has a least one.
LEMMA LeastNumber ==
  ASSUME NEW S, S \subseteq Nat, S # {}
  PROVE  \E n \in S : \A m \in S : n <= m
<1>1. IsWellFoundedOn(OpToRel(<, Nat), Nat)
  BY NatLessThanWellFounded
<1>2. PICK n \in S : \A m \in Nat : <<m, n>> \in OpToRel(<, Nat) => m \notin S
  BY <1>1, WFMin
<1>3. \A m \in S : ~(m < n)
  BY <1>2 DEF OpToRel
<1> QED
  BY <1>3

\* Induction, over a set of numbers.
LEMMA AllNumbers ==
  ASSUME NEW T, 0 \in T, \A i \in Nat : i \in T => i + 1 \in T
  PROVE  Nat \subseteq T
<1> DEFINE Bad == Nat \ T
<1> SUFFICES ASSUME Bad # {} PROVE FALSE
  OBVIOUS
<1>1. PICK k \in Bad : \A j \in Bad : k <= j
  BY LeastNumber
<1>2. k \in Nat /\ k # 0
  OBVIOUS
<1>3. k - 1 \in Nat /\ k - 1 \notin Bad
  BY <1>1, <1>2
<1>4. k - 1 \in T /\ k - 1 + 1 = k
  BY <1>2, <1>3
<1>5. k \in T
  BY <1>3, <1>4
<1> QED
  BY <1>5

\* And over a set of sequences, by what comes last.
LEMMA AllSequences ==
  ASSUME NEW C, NEW T, << >> \in T, \A s \in Seq(C) : \A e \in C : s \in T => Append(s, e) \in T
  PROVE  Seq(C) \subseteq T
<1> DEFINE N == {n \in Nat : \A s \in Seq(C) : Len(s) = n => s \in T}
<1>1. 0 \in N
  <2>1. \A s \in Seq(C) : Len(s) = 0 => s = << >>
    OBVIOUS
  <2> QED
    BY <2>1
<1>2. ASSUME NEW n \in Nat, n \in N PROVE n + 1 \in N
  <2> SUFFICES ASSUME NEW s \in Seq(C), Len(s) = n + 1 PROVE s \in T
    OBVIOUS
  <2>1. s # << >>
    OBVIOUS
  <2>2. PICK t \in Seq(C), e \in C : s = Append(t, e)
    BY <2>1, SequenceEmptyOrAppend
  <2>3. Len(t) = n
    BY <2>2
  <2>4. t \in T
    BY <1>2, <2>3
  <2> QED
    BY <2>2, <2>4
<1> HIDE DEF N
<1>3. Nat \subseteq N
  BY <1>1, <1>2, AllNumbers
<1>4. \A s \in Seq(C) : Len(s) \in Nat
  OBVIOUS
<1> QED
  BY <1>3, <1>4 DEF N

\* One component further: on the way that a path leads, and in what normalize
\* has so far.
Go(there, component) ==
  CASE component = Root -> Nowhere
    [] component = Dot -> there
    [] component = Up -> IF there = Nowhere THEN Nowhere ELSE Front(there)
    [] OTHER -> Append(there, component)

Further(walks, there, component) ==
  IF walks THEN Go(there, component) ELSE Step(there, component)

\* Where a path has led after each number of components.
IsWay(g, walks, start, path, n) ==
  g = [i \in 0 .. n |-> IF i = 0 THEN start ELSE Further(walks, g[i - 1], path[i])]

\* Both are recursive functions, and they exist.
LEMMA WaysExist ==
  ASSUME NEW walks, NEW start, NEW path, NEW n \in Nat
  PROVE  \E g : IsWay(g, walks, start, path, n)
<1> DEFINE T == {k \in Nat : \E g : IsWay(g, walks, start, path, k)}
<1>1. 0 \in T
  <2> DEFINE g == [i \in 0 .. 0 |-> start]
  <2>1. g = [i \in 0 .. 0 |-> IF i = 0 THEN start ELSE Further(walks, g[i - 1], path[i])]
    OBVIOUS
  <2> HIDE DEF g
  <2>2. IsWay(g, walks, start, path, 0)
    BY <2>1 DEF IsWay
  <2> QED
    BY <2>2
<1>2. ASSUME NEW k \in Nat, k \in T PROVE k + 1 \in T
  <2>1. PICK g : IsWay(g, walks, start, path, k)
    BY <1>2
  <2>2. g = [i \in 0 .. k |-> IF i = 0 THEN start ELSE Further(walks, g[i - 1], path[i])]
    BY <2>1 DEF IsWay
  <2> DEFINE h == [i \in 0 .. k + 1 |->
                     IF i = 0 THEN start ELSE Further(walks, g[i - 1], path[i])]
  <2>3. \A i \in 0 .. k : h[i] = g[i]
    BY <2>2
  <2>4. \A i \in 0 .. k + 1 : i # 0 => i - 1 \in 0 .. k
    OBVIOUS
  <2>5. h = [i \in 0 .. k + 1 |-> IF i = 0 THEN start ELSE Further(walks, h[i - 1], path[i])]
    BY <2>3, <2>4, Zenon
  <2> HIDE DEF h
  <2>6. IsWay(h, walks, start, path, k + 1)
    BY <2>5 DEF IsWay
  <2> QED
    BY <2>6
<1> HIDE DEF T
<1>3. Nat \subseteq T
  BY <1>1, <1>2, AllNumbers
<1> QED
  BY <1>3 DEF T

Way(walks, start, path) == CHOOSE g : IsWay(g, walks, start, path, Len(path))

\* How it goes on at each component.
LEMMA WayIs ==
  ASSUME NEW walks, NEW start, NEW path, Len(path) \in Nat
  PROVE  LET way == Way(walks, start, path)
         IN /\ way[0] = start
            /\ \A i \in 0 .. Len(path) - 1 : way[i + 1] = Further(walks, way[i], path[i + 1])
<1> DEFINE way == Way(walks, start, path)
<1>1. IsWay(way, walks, start, path, Len(path))
  BY WaysExist, Zenon DEF Way
<1>2. way = [i \in 0 .. Len(path) |->
               IF i = 0 THEN start ELSE Further(walks, way[i - 1], path[i])]
  BY <1>1 DEF IsWay
<1> HIDE DEF way
<1>3. ASSUME NEW i \in 0 .. Len(path) - 1
      PROVE  way[i + 1] = Further(walks, way[i], path[i + 1])
  <2>1. i + 1 \in 0 .. Len(path) /\ i + 1 # 0 /\ i + 1 - 1 = i
    OBVIOUS
  <2> QED
    BY <1>2, <2>1
<1>4. way[0] = start
  BY <1>2
<1> QED
  BY <1>3, <1>4 DEF way

\* Walk and normalize are the ends of such ways.
LEMMA WalkIsWay ==
  ASSUME NEW start, NEW path
  PROVE  Walk(start, path) = Way(TRUE, start, path)[Len(path)]
BY Zenon DEF Walk, Way, IsWay, Further, Go

\* Walk goes; normalize takes steps of its own.
LEMMA NormalizeIsWay ==
  ASSUME NEW path
  PROVE  normalize(path) = Way(FALSE, Nowhere, path)[Len(path)]
BY Zenon DEF normalize, Way, IsWay, Further

\* Where a path leads is one component further than where its beginning leads.
LEMMA WayOn ==
  ASSUME NEW walks, NEW start, NEW C, NEW path \in Seq(C), NEW c \in C
  PROVE  Way(walks, start, Append(path, c))[Len(path) + 1]
           = Further(walks, Way(walks, start, path)[Len(path)], c)
<1> DEFINE more == Append(path, c)
           n == Len(path)
           a == Way(walks, start, more)
           b == Way(walks, start, path)
           T == {i \in Nat : i <= n => a[i] = b[i]}
<1>1. /\ n \in Nat /\ Len(more) = n + 1 /\ more[n + 1] = c
      /\ \A i \in 1 .. n : more[i] = path[i]
  OBVIOUS
<1>2. /\ a[0] = start /\ b[0] = start
      /\ \A i \in 0 .. n : a[i + 1] = Further(walks, a[i], more[i + 1])
      /\ \A i \in 0 .. n - 1 : b[i + 1] = Further(walks, b[i], path[i + 1])
  <2>1. Len(more) \in Nat /\ Len(path) \in Nat /\ 0 .. Len(more) - 1 = 0 .. n
    BY <1>1
  <2> HIDE DEF more
  <2>2. /\ a[0] = start
        /\ \A i \in 0 .. Len(more) - 1 : a[i + 1] = Further(walks, a[i], more[i + 1])
    BY <2>1, WayIs
  <2>3. b[0] = start /\ \A i \in 0 .. n - 1 : b[i + 1] = Further(walks, b[i], path[i + 1])
    BY <2>1, WayIs
  <2> QED
    BY <2>1, <2>2, <2>3
<1> HIDE DEF more, n, a, b
<1>3. 0 \in T
  BY <1>2
<1>4. ASSUME NEW i \in Nat, i \in T PROVE i + 1 \in T
  <2> SUFFICES ASSUME i + 1 <= n PROVE a[i + 1] = b[i + 1]
    OBVIOUS
  <2>1. i <= n /\ i \in 0 .. n /\ i \in 0 .. n - 1 /\ i + 1 \in 1 .. n
    BY <1>1
  <2> QED
    BY <1>1, <1>2, <1>4, <2>1
<1> HIDE DEF T
<1>5. Nat \subseteq T
  BY <1>3, <1>4, AllNumbers
<1>6. a[n] = b[n]
  BY <1>1, <1>5 DEF T
<1>7. a[n + 1] = Further(walks, a[n], c)
  BY <1>1, <1>2
<1> QED
  BY <1>6, <1>7 DEF more, n, a, b

\* Walk on no component, and on one more.
LEMMA WalkNothing ==
  ASSUME NEW start
  PROVE  Walk(start, << >>) = start
<1>1. Len(<< >>) = 0 /\ Len(<< >>) \in Nat
  OBVIOUS
<1>2. Way(TRUE, start, << >>)[0] = start
  <2>1. PICK path : path = << >>
    OBVIOUS
  <2>2. Len(path) \in Nat
    BY <1>1, <2>1
  <2>3. Way(TRUE, start, path)[0] = start
    BY <2>2, WayIs
  <2> QED
    BY <2>1, <2>3
<1>3. Walk(start, << >>) = Way(TRUE, start, << >>)[Len(<< >>)]
  BY WalkIsWay
<1> QED
  BY <1>1, <1>2, <1>3

\* One more component leads one further.
LEMMA WalkOn ==
  ASSUME NEW start, NEW C, NEW path \in Seq(C), NEW c \in C
  PROVE  Walk(start, Append(path, c)) = Go(Walk(start, path), c)
<1>1. Len(Append(path, c)) = Len(path) + 1
  OBVIOUS
<1>2. Way(TRUE, start, Append(path, c))[Len(path) + 1]
        = Further(TRUE, Way(TRUE, start, path)[Len(path)], c)
  BY WayOn
<1> QED
  BY <1>1, <1>2, WalkIsWay DEF Further

\* normalize of no component, and of one more.
LEMMA NormalizeNothing == normalize(<< >>) = Nowhere
<1>1. Len(<< >>) = 0 /\ Len(<< >>) \in Nat
  OBVIOUS
<1>2. Way(FALSE, Nowhere, << >>)[0] = Nowhere
  <2>1. PICK path : path = << >>
    OBVIOUS
  <2>2. Len(path) \in Nat
    BY <1>1, <2>1
  <2>3. Way(FALSE, Nowhere, path)[0] = Nowhere
    BY <2>2, WayIs
  <2> QED
    BY <2>1, <2>3
<1>3. normalize(<< >>) = Way(FALSE, Nowhere, << >>)[Len(<< >>)]
  BY NormalizeIsWay
<1> QED
  BY <1>1, <1>2, <1>3

\* One more component is one step more.
LEMMA NormalizeOn ==
  ASSUME NEW C, NEW path \in Seq(C), NEW c \in C
  PROVE  normalize(Append(path, c)) = Step(normalize(path), c)
<1>1. Len(Append(path, c)) = Len(path) + 1
  OBVIOUS
<1>2. Way(FALSE, Nowhere, Append(path, c))[Len(path) + 1]
        = Further(FALSE, Way(FALSE, Nowhere, path)[Len(path)], c)
  BY WayOn
<1> QED
  BY <1>1, <1>2, NormalizeIsWay DEF Further

\* The components that may come after the first, and those of relative paths.
Steps == PathNames \cup {Up}
Relative == Steps \cup {Dot}

\* How these sets lie in each other.
LEMMA Components ==
  /\ Root # Dot /\ Root # Up /\ Dot # Up
  /\ PathNames \cup {Root, Dot, Up} = Component
  /\ PathNames \subseteq Steps /\ Steps \subseteq Relative /\ Relative \subseteq Component
  /\ Up \in Steps /\ Root \notin Relative /\ Dot \notin Steps /\ Up \notin PathNames
<1>1. Root # Dot /\ Root # Up /\ Dot # Up
  <2>1. \A a, b : Cardinality({a, b}) # 3
    <3> SUFFICES ASSUME NEW a, NEW b PROVE Cardinality({a, b}) # 3
      OBVIOUS
    <3>1. IsFiniteSet({a}) /\ Cardinality({a}) = 1
      BY FS_Singleton
    <3>2. {a, b} = {a} \cup {b}
      OBVIOUS
    <3>3. Cardinality({a} \cup {b}) = IF b \in {a} THEN 1 ELSE 2
      BY <3>1, FS_AddElement
    <3> QED
      BY <3>2, <3>3
  <2>2. Root = Dot => {Root, Dot, Up} = {Root, Up}
    OBVIOUS
  <2>3. Root = Up => {Root, Dot, Up} = {Root, Dot}
    OBVIOUS
  <2>4. Dot = Up => {Root, Dot, Up} = {Root, Dot}
    OBVIOUS
  <2> QED
    BY <2>1, <2>2, <2>3, <2>4, PathsAssumption
<1>2. /\ PathNames \cup {Root, Dot, Up} = Component
      /\ Up \notin PathNames /\ Root \notin PathNames /\ Dot \notin PathNames
  <2> DEFINE D == UNION {{path[i] : i \in DOMAIN path} : path \in Paths \cup WorkingDir}
  <2> HIDE DEF D
  <2>1. Component = D \cup {Root, Dot, Up}
    BY Zenon DEF Component, D
  <2> QED
    BY <2>1 DEF PathNames
<1> HIDE DEF PathNames
<1> QED
  BY <1>1, <1>2 DEF Steps, Relative

\* A path after another leads from where the other does.
LEMMA WalkConcat ==
  ASSUME NEW start, NEW C, NEW a \in Seq(C), NEW b \in Seq(C)
  PROVE  Walk(start, a \o b) = Walk(Walk(start, a), b)
<1> DEFINE T == {t \in Seq(C) : Walk(start, a \o t) = Walk(Walk(start, a), t)}
<1>1. << >> \in T
  <2>1. a \o << >> = a /\ << >> \in Seq(C)
    OBVIOUS
  <2>2. Walk(Walk(start, a), << >>) = Walk(start, a)
    BY WalkNothing
  <2> QED
    BY <2>1, <2>2
<1>2. ASSUME NEW s \in Seq(C), NEW e \in C, s \in T PROVE Append(s, e) \in T
  <2>1. Append(s, e) \in Seq(C) /\ a \o s \in Seq(C) /\ a \o Append(s, e) = Append(a \o s, e)
    OBVIOUS
  <2>2. Walk(start, Append(a \o s, e)) = Go(Walk(start, a \o s), e)
    BY <2>1, WalkOn
  <2>3. Walk(Walk(start, a), Append(s, e)) = Go(Walk(Walk(start, a), s), e)
    BY WalkOn
  <2> QED
    BY <1>2, <2>1, <2>2, <2>3
<1> HIDE DEF T
<1>3. Seq(C) \subseteq T
  BY <1>1, <1>2, AllSequences
<1> QED
  BY <1>3 DEF T

\* One component.
LEMMA WalkOne ==
  ASSUME NEW start, NEW c
  PROVE  Walk(start, <<c>>) = Go(start, c)
<1>1. << >> \in Seq({c}) /\ Append(<< >>, c) = <<c>>
  OBVIOUS
<1>2. Walk(start, Append(<< >>, c)) = Go(Walk(start, << >>), c)
  BY <1>1, WalkOn
<1> QED
  BY <1>1, <1>2, WalkNothing

\* A step from a directory leads to a directory.
LEMMA GoNames ==
  ASSUME NEW place \in Seq(PathNames), NEW c \in Component
  PROVE  Go(place, c) \in Seq(PathNames)
<1>1. CASE c \in {Root, Dot}
  BY <1>1, Components DEF Go, Nowhere
<1>2. CASE c = Up
  <2>1. place # << >> => Front(place) \in Seq(PathNames)
    BY DEF Front
  <2> QED
    BY <1>2, <2>1, Components DEF Go, Nowhere
<1>3. CASE c \in PathNames
  <2>1. Append(place, c) \in Seq(PathNames) /\ c \notin {Root, Dot, Up}
    BY <1>3 DEF PathNames
  <2> QED
    BY <2>1 DEF Go
<1> QED
  BY <1>1, <1>2, <1>3, Components

\* From a directory a path leads to a directory.
LEMMA WalkType ==
  ASSUME NEW place \in Seq(PathNames), NEW path \in Seq(Component)
  PROVE  Walk(place, path) \in Seq(PathNames)
<1> DEFINE T == {t \in Seq(Component) : Walk(place, t) \in Seq(PathNames)}
<1>1. << >> \in T
  BY WalkNothing
<1>2. ASSUME NEW s \in Seq(Component), NEW e \in Component, s \in T PROVE Append(s, e) \in T
  <2>1. Append(s, e) \in Seq(Component)
    OBVIOUS
  <2>2. Walk(place, Append(s, e)) = Go(Walk(place, s), e)
    BY WalkOn
  <2> QED
    BY <1>2, <2>1, <2>2, GoNames
<1> HIDE DEF T
<1>3. Seq(Component) \subseteq T
  BY <1>1, <1>2, AllSequences
<1> QED
  BY <1>3 DEF T

\* PathNames lead down.
LEMMA WalkNames ==
  ASSUME NEW place \in Seq(PathNames), NEW path \in Seq(PathNames)
  PROVE  Walk(place, path) = place \o path
<1> DEFINE T == {t \in Seq(PathNames) : Walk(place, t) = place \o t}
<1>1. << >> \in T
  <2>1. place \o << >> = place /\ << >> \in Seq(PathNames)
    OBVIOUS
  <2> QED
    BY <2>1, WalkNothing
<1>2. ASSUME NEW s \in Seq(PathNames), NEW e \in PathNames, s \in T PROVE Append(s, e) \in T
  <2>1. Append(s, e) \in Seq(PathNames) /\ place \o Append(s, e) = Append(place \o s, e)
    OBVIOUS
  <2>2. Walk(place, Append(s, e)) = Go(Walk(place, s), e)
    BY WalkOn
  <2>3. Go(place \o s, e) = Append(place \o s, e)
    BY DEF Go, PathNames
  <2> QED
    BY <1>2, <2>1, <2>2, <2>3
<1> HIDE DEF T
<1>3. Seq(PathNames) \subseteq T
  BY <1>1, <1>2, AllSequences
<1> QED
  BY <1>3 DEF T

\* And as many ".." lead up again.
LEMMA WalkUps ==
  ASSUME NEW place \in Seq(PathNames), NEW k \in 0 .. Len(place)
  PROVE  Walk(place, [i \in 1 .. k |-> Up]) = SubSeq(place, 1, Len(place) - k)
<1> DEFINE ups(n) == [i \in 1 .. n |-> Up]
           T == {n \in Nat : n <= Len(place) => Walk(place, ups(n)) = SubSeq(place, 1, Len(place) - n)}
<1>1. 0 \in T
  <2>1. ups(0) = << >>
    OBVIOUS
  <2>2. SubSeq(place, 1, Len(place) - 0) = place
    OBVIOUS
  <2> QED
    BY <2>1, <2>2, WalkNothing
<1>2. ASSUME NEW n \in Nat, n \in T PROVE n + 1 \in T
  <2> SUFFICES ASSUME n + 1 <= Len(place)
               PROVE  Walk(place, ups(n + 1)) = SubSeq(place, 1, Len(place) - (n + 1))
    OBVIOUS
  <2>1. ups(n) \in Seq({Up}) /\ ups(n + 1) = Append(ups(n), Up)
    <3>1. ups(n) \in Seq({Up}) /\ ups(n + 1) \in Seq({Up})
      OBVIOUS
    <3>2. Len(ups(n)) = n /\ Len(ups(n + 1)) = n + 1
      OBVIOUS
    <3>3. \A i \in 1 .. n + 1 : ups(n + 1)[i] = Append(ups(n), Up)[i]
      OBVIOUS
    <3> QED
      BY <3>1, <3>2, <3>3, SeqEqual
  <2>2. Walk(place, ups(n + 1)) = Go(Walk(place, ups(n)), Up)
    <3> HIDE DEF ups
    <3>1. Walk(place, Append(ups(n), Up)) = Go(Walk(place, ups(n)), Up)
      BY <2>1, WalkOn
    <3> QED
      BY <2>1, <3>1
  <2>3. Walk(place, ups(n)) = SubSeq(place, 1, Len(place) - n)
    <3>1. n <= Len(place)
      BY DEF T
    <3> QED
      BY <1>2, <3>1
  <2> DEFINE there == SubSeq(place, 1, Len(place) - n)
  <2>4. there # << >> /\ Len(there) = Len(place) - n
    <3>1. Len(place) \in Nat /\ Len(place) - n \in Int /\ 1 <= Len(place) - n
          /\ \A i \in 1 .. Len(place) - n : place[i] \in PathNames
      OBVIOUS
    <3>2. Len(there) = Len(place) - n
      BY <3>1, SubSeqProperties
    <3> HIDE DEF there
    <3> QED
      BY <3>1, <3>2
  <2>5. Front(there) = SubSeq(place, 1, Len(place) - (n + 1))
    BY <2>4 DEF Front
  <2> HIDE DEF there, ups
  <2>6. Go(there, Up) = Front(there)
    BY <2>4, Components DEF Go, Nowhere
  <2> QED
    BY <2>2, <2>3, <2>5, <2>6 DEF there
<1> HIDE DEF T
<1>3. Nat \subseteq T
  BY <1>1, <1>2, AllNumbers
<1>4. k \in T /\ k <= Len(place)
  BY <1>3
<1> QED
  BY <1>4 DEF T

\* What an absolute path is normalized to is where it leads, from the root on.
LEMMA StepAbsolute ==
  ASSUME NEW place \in Seq(PathNames), NEW c \in Steps
  PROVE  Step(<<Root>> \o place, c) = <<Root>> \o Go(place, c)
<1> DEFINE path == <<Root>> \o place
<1>1. /\ path \in Seq(Component) /\ Len(path) = 1 + Len(place) /\ path # << >>
      /\ Len(place) \in Nat /\ place \in Seq(Component)
  BY Components
<1>2. c # Root /\ c # Dot
  BY Components
<1>3. CASE c = Up
  <2>1. Step(path, c) = Pop(path)
    BY <1>3 DEF Step
  <2>2. CASE place = << >>
    <3>1. path = <<Root>>
      BY <2>2
    <3>2. Go(place, c) = << >>
      BY <1>2, <1>3, <2>2 DEF Go, Nowhere
    <3>3. Pop(path) = path
      BY <3>1 DEF Pop
    <3> HIDE DEF path
    <3> QED
      BY <2>1, <2>2, <3>2, <3>3 DEF path
  <2>3. CASE place # << >>
    <3>1. Len(place) >= 1
      BY <2>3
    <3>2. path # <<Root>>
      BY <1>1, <3>1
    <3>3. Pop(path) = SubSeq(path, 1, Len(place))
      BY <1>1, <3>2 DEF Pop, Nowhere, Front
    <3>4. Go(place, c) = SubSeq(place, 1, Len(place) - 1)
      BY <1>2, <1>3, <2>3 DEF Go, Nowhere, Front
    <3>5. SubSeq(path, 1, Len(place)) = <<Root>> \o SubSeq(place, 1, Len(place) - 1)
      BY <1>1, <3>1
    <3> QED
      BY <2>1, <3>3, <3>4, <3>5
  <2> QED
    BY <2>2, <2>3
<1>4. CASE c \in PathNames
  <2>1. c # Up /\ c \in Component
    BY <1>4, Components
  <2>2. ~is_absolute(<<c>>) /\ <<c>>[1] # Dot
    BY <1>2 DEF is_absolute
  <2>3. Push(path, <<c>>) = path \o <<c>>
    BY <1>1, <2>2 DEF Push, Nowhere
  <2>4. Step(path, c) = path \o <<c>>
    BY <1>2, <2>1, <2>3 DEF Step
  <2>5. Go(place, c) = Append(place, c)
    BY <1>2, <2>1 DEF Go
  <2>6. path \o <<c>> = <<Root>> \o Append(place, c)
    BY <1>1, <2>1
  <2> QED
    BY <2>4, <2>5, <2>6
<1> QED
  BY <1>3, <1>4 DEF Steps

\* All steps of an absolute path.
LEMMA NormalizeAbsolute ==
  ASSUME NEW path \in Seq(Steps)
  PROVE  normalize(<<Root>> \o path) = <<Root>> \o Walk(Nowhere, path)
<1> DEFINE T == {t \in Seq(Steps) : normalize(<<Root>> \o t) = <<Root>> \o Walk(Nowhere, t)}
<1>1. << >> \in T
  <2>1. /\ << >> \in Seq({Root}) /\ Append(<< >>, Root) = <<Root>> /\ <<Root>> \o << >> = <<Root>>
        /\ << >> \in Seq(Steps)
    OBVIOUS
  <2>2. normalize(Append(<< >>, Root)) = Step(normalize(<< >>), Root)
    BY <2>1, NormalizeOn
  <2>3. Step(Nowhere, Root) = <<Root>>
    BY Components DEF Step, Push, Nowhere, is_absolute
  <2>4. Walk(Nowhere, << >>) = << >>
    BY WalkNothing DEF Nowhere
  <2> QED
    BY <2>1, <2>2, <2>3, <2>4, NormalizeNothing
<1>2. ASSUME NEW s \in Seq(Steps), NEW e \in Steps, s \in T PROVE Append(s, e) \in T
  <2>1. /\ s \in Seq(Component) /\ e \in Component /\ <<Root>> \o s \in Seq(Component)
        /\ <<Root>> \o Append(s, e) = Append(<<Root>> \o s, e) /\ Append(s, e) \in Seq(Steps)
    BY Components
  <2>2. normalize(Append(<<Root>> \o s, e)) = Step(normalize(<<Root>> \o s), e)
    BY <2>1, NormalizeOn
  <2>3. Walk(Nowhere, Append(s, e)) = Go(Walk(Nowhere, s), e)
    BY WalkOn
  <2>4. Nowhere \in Seq(PathNames)
    BY DEF Nowhere
  <2>5. Walk(Nowhere, s) \in Seq(PathNames)
    BY <2>1, <2>4, WalkType
  <2>6. Step(<<Root>> \o Walk(Nowhere, s), e) = <<Root>> \o Go(Walk(Nowhere, s), e)
    BY <2>5, StepAbsolute
  <2> QED
    BY <1>2, <2>1, <2>2, <2>3, <2>6
<1> HIDE DEF T
<1>3. Seq(Steps) \subseteq T
  BY <1>1, <1>2, AllSequences
<1> QED
  BY <1>3 DEF T

\* How often a path goes up, and how many of its components are not ".", up to
\* a component.
Ups(path, n) == Cardinality({j \in 1 .. n : path[j] = Up})
Moves(path, n) == Cardinality({j \in 1 .. n : path[j] # Dot})

\* A set of numbers grows by one with the number after them.
LEMMA OneMore ==
  ASSUME NEW S, NEW n \in Nat, S \subseteq 1 .. n
  PROVE  /\ IsFiniteSet(S) /\ Cardinality(S) \in Nat
         /\ Cardinality(S \cup {n + 1}) = Cardinality(S) + 1
<1>1. IsFiniteSet(1 .. n)
  BY FS_Interval
<1>2. IsFiniteSet(S) /\ Cardinality(S) \in Nat
  BY <1>1, FS_Subset, FS_CardinalityType
<1>3. n + 1 \notin S
  OBVIOUS
<1> QED
  BY <1>2, <1>3, FS_AddElement

\* Both counts after one more component.
LEMMA CountOn ==
  ASSUME NEW path, NEW n \in Nat
  PROVE  /\ Ups(path, n) \in Nat /\ Moves(path, n) \in Nat
         /\ Ups(path, n + 1) = Ups(path, n) + IF path[n + 1] = Up THEN 1 ELSE 0
         /\ Moves(path, n + 1) = Moves(path, n) + IF path[n + 1] # Dot THEN 1 ELSE 0
<1> DEFINE U(k) == {j \in 1 .. k : path[j] = Up}
           M(k) == {j \in 1 .. k : path[j] # Dot}
<1>1. U(n) \subseteq 1 .. n /\ M(n) \subseteq 1 .. n
  OBVIOUS
<1>2. /\ U(n + 1) = IF path[n + 1] = Up THEN U(n) \cup {n + 1} ELSE U(n)
      /\ M(n + 1) = IF path[n + 1] # Dot THEN M(n) \cup {n + 1} ELSE M(n)
  OBVIOUS
<1> HIDE DEF U, M
<1>3. /\ Cardinality(U(n)) \in Nat /\ Cardinality(U(n) \cup {n + 1}) = Cardinality(U(n)) + 1
      /\ Cardinality(M(n)) \in Nat /\ Cardinality(M(n) \cup {n + 1}) = Cardinality(M(n)) + 1
  BY <1>1, OneMore
<1>4. \A k : Ups(path, k) = Cardinality(U(k)) /\ Moves(path, k) = Cardinality(M(k))
  BY DEF Ups, Moves, U, M
<1> QED
  BY <1>2, <1>3, <1>4

\* Both depend on the components they look at.
LEMMA CountSame ==
  ASSUME NEW p, NEW q, NEW n \in Nat, \A j \in 1 .. n : p[j] = q[j]
  PROVE  Ups(p, n) = Ups(q, n) /\ Moves(p, n) = Moves(q, n)
<1>1. {j \in 1 .. n : p[j] = Up} = {j \in 1 .. n : q[j] = Up}
  OBVIOUS
<1>2. {j \in 1 .. n : p[j] # Dot} = {j \in 1 .. n : q[j] # Dot}
  OBVIOUS
<1> QED
  BY <1>1, <1>2 DEF Ups, Moves

\* A longer path that does not climb has not climbed before, nor does it now.
LEMMA ClimbsOn ==
  ASSUME NEW path \in Seq(Relative), NEW c \in Relative, ~Climbs(Append(path, c))
  PROVE  LET more == Append(path, c)
             n == Len(path)
         IN /\ ~Climbs(path) /\ 2 * Ups(more, n + 1) <= Moves(more, n + 1)
            /\ Ups(path, n) \in Nat /\ Moves(path, n) \in Nat
            /\ Ups(more, n + 1) = Ups(path, n) + IF c = Up THEN 1 ELSE 0
            /\ Moves(more, n + 1) = Moves(path, n) + IF c # Dot THEN 1 ELSE 0
<1> DEFINE more == Append(path, c)
           n == Len(path)
<1>1. n \in Nat /\ Len(more) = n + 1 /\ more[n + 1] = c /\ \A i \in 1 .. n : more[i] = path[i]
  OBVIOUS
<1> HIDE DEF more, n
<1>2. \A q : Climbs(q) <=> \E i \in 1 .. Len(q) : 2 * Ups(q, i) > Moves(q, i)
  BY DEF Climbs, Ups, Moves
<1>3. \A i \in 1 .. n + 1 : ~(2 * Ups(more, i) > Moves(more, i))
  BY <1>1, <1>2 DEF more
<1>4. \A i \in 1 .. n : Ups(more, i) = Ups(path, i) /\ Moves(more, i) = Moves(path, i)
  <2> SUFFICES ASSUME NEW i \in 1 .. n
               PROVE  Ups(more, i) = Ups(path, i) /\ Moves(more, i) = Moves(path, i)
    OBVIOUS
  <2>1. i \in Nat /\ \A j \in 1 .. i : more[j] = path[j]
    BY <1>1
  <2> QED
    BY <2>1, CountSame
<1>5. ~Climbs(path)
  <2>1. \A i \in 1 .. n : ~(2 * Ups(path, i) > Moves(path, i))
    BY <1>1, <1>3, <1>4
  <2> QED
    BY <1>2, <2>1 DEF n
<1>6. Ups(more, n) = Ups(path, n) /\ Moves(more, n) = Moves(path, n)
  BY <1>1, CountSame
<1>7. /\ Ups(more, n) \in Nat /\ Moves(more, n) \in Nat
      /\ Ups(more, n + 1) = Ups(more, n) + IF more[n + 1] = Up THEN 1 ELSE 0
      /\ Moves(more, n + 1) = Moves(more, n) + IF more[n + 1] # Dot THEN 1 ELSE 0
  BY <1>1, CountOn
<1>8. 2 * Ups(more, n + 1) <= Moves(more, n + 1)
  <2>1. n + 1 \in 1 .. n + 1
    BY <1>1
  <2> QED
    BY <1>3, <1>7, <2>1
<1>9. /\ Ups(path, n) \in Nat /\ Moves(path, n) \in Nat
      /\ Ups(more, n + 1) = Ups(path, n) + IF c = Up THEN 1 ELSE 0
      /\ Moves(more, n + 1) = Moves(path, n) + IF c # Dot THEN 1 ELSE 0
  BY <1>1, <1>6, <1>7
<1> QED
  BY <1>5, <1>8, <1>9 DEF more, n

\* One component of a relative path, as normalize takes it.
LEMMA StepRelative ==
  ASSUME NEW place \in Seq(PathNames), NEW c \in Relative
  PROVE  Step(place, c) = Go(place, c)
<1>1. place # <<Root>>
  <2>1. Len(<<Root>>) = 1 /\ <<Root>>[1] = Root
    OBVIOUS
  <2>2. Len(place) = 1 => place[1] # Root
    BY Components
  <2> QED
    BY <2>1, <2>2
<1>2. c # Root /\ Dot # Up
  BY Components
<1>3. CASE c = Dot
  BY <1>2, <1>3 DEF Step, Go
<1>4. CASE c = Up
  BY <1>1, <1>2, <1>4 DEF Step, Go, Pop, Nowhere
<1>5. CASE c # Dot /\ c # Up
  <2>1. ~is_absolute(<<c>>) /\ <<c>>[1] # Dot
    BY <1>2, <1>5 DEF is_absolute
  <2>2. Push(place, <<c>>) = IF place = << >> THEN <<c>> ELSE place \o <<c>>
    BY <2>1 DEF Push, Nowhere
  <2>3. << >> \o <<c>> = <<c>> /\ place \o <<c>> = Append(place, c)
    OBVIOUS
  <2>4. Push(place, <<c>>) = Append(place, c)
    BY <2>2, <2>3
  <2>5. Step(place, c) = Push(place, <<c>>) /\ Go(place, c) = Append(place, c)
    BY <1>2, <1>5 DEF Step, Go
  <2> QED
    BY <2>4, <2>5
<1> QED
  BY <1>3, <1>4, <1>5

\* What a relative path is normalized to is where it leads from the root.
LEMMA NormalizeRelative ==
  ASSUME NEW path \in Seq(Relative)
  PROVE  normalize(path) = Walk(Nowhere, path) /\ normalize(path) \in Seq(PathNames)
<1> DEFINE T == {t \in Seq(Relative) : normalize(t) = Walk(Nowhere, t)}
<1>0. /\ Nowhere \in Seq(PathNames) /\ << >> \in Seq(Relative)
      /\ \A s \in Seq(Relative) : s \in Seq(Component)
  BY Components DEF Nowhere
<1>1. << >> \in T
  BY <1>0, NormalizeNothing, WalkNothing
<1>2. ASSUME NEW s \in Seq(Relative), NEW e \in Relative, s \in T PROVE Append(s, e) \in T
  <2>1. Append(s, e) \in Seq(Relative)
    OBVIOUS
  <2>2. normalize(Append(s, e)) = Step(normalize(s), e)
    BY NormalizeOn
  <2>3. Walk(Nowhere, Append(s, e)) = Go(Walk(Nowhere, s), e)
    BY WalkOn
  <2>4. Walk(Nowhere, s) \in Seq(PathNames)
    BY <1>0, WalkType
  <2>5. Step(Walk(Nowhere, s), e) = Go(Walk(Nowhere, s), e)
    BY <2>4, StepRelative
  <2> QED
    BY <1>2, <2>1, <2>2, <2>3, <2>5
<1> HIDE DEF T
<1>3. Seq(Relative) \subseteq T
  BY <1>1, <1>2, AllSequences
<1>4. normalize(path) = Walk(Nowhere, path)
  BY <1>3 DEF T
<1>5. Walk(Nowhere, path) \in Seq(PathNames)
  BY <1>0, WalkType
<1> QED
  BY <1>4, <1>5

\* Below a directory a step leads as it does below the root.
LEMMA GoBelow ==
  ASSUME NEW place \in Seq(PathNames), NEW below \in Seq(PathNames), NEW c \in Relative,
         c = Up => below # << >>
  PROVE  Go(place \o below, c) = place \o Go(below, c)
<1>1. c # Root /\ Dot # Up
  BY Components
<1>2. CASE c = Dot
  BY <1>1, <1>2 DEF Go
<1>3. CASE c = Up
  <2>1. Len(below) >= 1 /\ Len(place \o below) = Len(place) + Len(below) /\ place \o below # << >>
    BY <1>3
  <2>2. Go(place \o below, c) = SubSeq(place \o below, 1, Len(place) + Len(below) - 1)
    BY <1>1, <1>3, <2>1 DEF Go, Front, Nowhere
  <2>3. Go(below, c) = SubSeq(below, 1, Len(below) - 1)
    BY <1>1, <1>3 DEF Go, Front, Nowhere
  <2>4. SubSeq(place \o below, 1, Len(place) + Len(below) - 1) = place \o SubSeq(below, 1, Len(below) - 1)
    BY <2>1
  <2> QED
    BY <2>2, <2>3, <2>4
<1>4. CASE c \notin {Dot, Up}
  <2>1. /\ Go(place \o below, c) = Append(place \o below, c)
        /\ Go(below, c) = Append(below, c)
    BY <1>1, <1>4 DEF Go
  <2>2. c \in PathNames
    BY <1>4 DEF Relative, Steps
  <2>3. Append(place \o below, c) = place \o Append(below, c)
    BY <2>2
  <2> QED
    BY <2>1, <2>3
<1> QED
  BY <1>2, <1>3, <1>4

\* So a path that does not climb leads to the same place below every directory.
LEMMA Sheltered ==
  ASSUME NEW place \in Seq(PathNames), NEW path \in Seq(Relative), ~Climbs(path)
  PROVE  Walk(place, path) = place \o Walk(Nowhere, path)
<1> DEFINE Fine(t) == /\ Walk(place, t) = place \o Walk(Nowhere, t)
                      /\ Len(Walk(Nowhere, t)) = Moves(t, Len(t)) - 2 * Ups(t, Len(t))
           T == {t \in Seq(Relative) : ~Climbs(t) => Fine(t)}
<1>0. /\ Nowhere \in Seq(PathNames) /\ << >> \in Seq(Relative) /\ Nowhere = << >>
      /\ \A s \in Seq(Relative) : s \in Seq(Component)
  BY Components DEF Nowhere
<1>1. << >> \in T
  <2>1. Walk(place, << >>) = place /\ Walk(Nowhere, << >>) = << >> /\ place \o << >> = place
    BY <1>0, WalkNothing
  <2>2. Ups(<< >>, 0) = 0 /\ Moves(<< >>, 0) = 0
    BY FS_EmptySet DEF Ups, Moves
  <2>3. Len(<< >>) = 0 /\ Moves(<< >>, 0) - 2 * Ups(<< >>, 0) = 0
    BY <2>2
  <2>4. Len(Walk(Nowhere, << >>)) = Moves(<< >>, Len(<< >>)) - 2 * Ups(<< >>, Len(<< >>))
    BY <2>1, <2>3, Zenon
  <2>5. Fine(<< >>)
    BY <2>1, <2>4, Zenon
  <2> QED
    BY <1>0, <2>5
<1>2. ASSUME NEW s \in Seq(Relative), NEW e \in Relative, s \in T PROVE Append(s, e) \in T
  <2> DEFINE more == Append(s, e)
             n == Len(s)
             w == Walk(Nowhere, s)
  <2> SUFFICES ASSUME ~Climbs(more) PROVE Fine(more)
    OBVIOUS
  <2>1. n \in Nat /\ Len(more) = n + 1 /\ more \in Seq(Relative)
    OBVIOUS
  <2>2. /\ ~Climbs(s) /\ 2 * Ups(more, n + 1) <= Moves(more, n + 1)
        /\ Ups(s, n) \in Nat /\ Moves(s, n) \in Nat
        /\ Ups(more, n + 1) = Ups(s, n) + IF e = Up THEN 1 ELSE 0
        /\ Moves(more, n + 1) = Moves(s, n) + IF e # Dot THEN 1 ELSE 0
    BY ClimbsOn
  <2>3. Walk(place, s) = place \o w /\ Len(w) = Moves(s, n) - 2 * Ups(s, n)
    BY <1>2, <2>2
  <2>4. w \in Seq(PathNames)
    BY <1>0, WalkType
  <2>5. Walk(place, more) = Go(Walk(place, s), e) /\ Walk(Nowhere, more) = Go(w, e)
    BY WalkOn
  <2> HIDE DEF w, more, n, T
  <2>6. Dot # Up /\ Dot # Root /\ e # Root
    BY Components
  <2>7. e = Up => w # << >>
    <3> SUFFICES ASSUME e = Up PROVE Len(w) # 0
      OBVIOUS
    <3>1. Ups(more, n + 1) = Ups(s, n) + 1 /\ Moves(more, n + 1) = Moves(s, n) + 1
      BY <2>2, <2>6
    <3> QED
      BY <2>2, <2>3, <3>1
  <2>8. Walk(place, more) = place \o Walk(Nowhere, more)
    BY <2>3, <2>4, <2>5, <2>7, GoBelow
  <2>9. /\ e = Dot => Len(Go(w, e)) = Len(w)
        /\ e = Up => Len(Go(w, e)) = Len(w) - 1
        /\ e \notin {Dot, Up} => Len(Go(w, e)) = Len(w) + 1
    <3>1. CASE e = Dot
      BY <2>4, <2>6, <3>1 DEF Go
    <3>2. CASE e = Up
      <4>1. Go(w, e) = SubSeq(w, 1, Len(w) - 1)
        BY <2>6, <2>7, <3>2 DEF Go, Nowhere, Front
      <4>2. Len(w) >= 1 /\ Len(w) \in Nat
        BY <2>4, <2>7, <3>2
      <4>3. Len(SubSeq(w, 1, Len(w) - 1)) = Len(w) - 1
        <5> DEFINE k == Len(w) - 1
                   front == SubSeq(w, 1, k)
        <5>1. k \in Nat /\ \A i \in 1 .. k : w[i] \in PathNames
          BY <2>4, <4>2
        <5> HIDE DEF k
        <5>2. Len(front) = IF 1 <= k THEN k - 1 + 1 ELSE 0
          BY <5>1, SubSeqProperties
        <5> HIDE DEF front
        <5>3. Len(front) = k
          BY <5>1, <5>2
        <5> QED
          BY <5>3 DEF k, front
      <4> QED
        BY <2>6, <3>2, <4>1, <4>3
    <3>3. CASE e \notin {Dot, Up}
      <4>1. Go(w, e) = Append(w, e)
        BY <2>6, <3>3 DEF Go
      <4>2. e \in PathNames
        BY <3>3 DEF Relative, Steps
      <4>3. Len(Append(w, e)) = Len(w) + 1 /\ Len(w) \in Nat
        BY <2>4, <4>2
      <4> QED
        BY <3>3, <4>1, <4>3
    <3> QED
      BY <3>1, <3>2, <3>3
  <2>10. Len(Walk(Nowhere, more)) = Moves(more, n + 1) - 2 * Ups(more, n + 1)
    <3>1. CASE e = Dot
      BY <2>2, <2>3, <2>5, <2>6, <2>9, <3>1
    <3>2. CASE e = Up
      <4>1. Ups(more, n + 1) = Ups(s, n) + 1 /\ Moves(more, n + 1) = Moves(s, n) + 1
        BY <2>2, <2>6, <3>2
      <4> QED
        BY <2>2, <2>3, <2>5, <2>9, <3>2, <4>1
    <3>3. CASE e \notin {Dot, Up}
      BY <2>2, <2>3, <2>5, <2>9, <3>3
    <3> QED
      BY <3>1, <3>2, <3>3
  <2> QED
    BY <2>1, <2>8, <2>10
<1> HIDE DEF T
<1>3. Seq(Relative) \subseteq T
  BY <1>1, <1>2, AllSequences
<1> QED
  BY <1>3 DEF T

\* A sequence is one over whatever set its elements are of.
LEMMA SequenceOver ==
  ASSUME NEW A, NEW B, NEW s \in Seq(A), \A i \in 1 .. Len(s) : s[i] \in B
  PROVE  s \in Seq(B)
<1>1. Len(s) \in Nat /\ s \in [1 .. Len(s) -> A]
  BY LenProperties
<1>2. s \in [1 .. Len(s) -> B]
  BY <1>1
<1> QED
  BY <1>1, <1>2, SeqDef, Zenon

\* A path is absolute or relative.
Absolute == {<<Root>> \o path : path \in Seq(Steps)}

\* The components of a path, and what kinds of paths there are.
LEMMA PathIs ==
  ASSUME NEW path \in Paths
  PROVE  /\ path \in Seq(Component)
         /\ is_absolute(path) => path \in Absolute
         /\ ~is_absolute(path) =>
              /\ path \in Seq(Relative)
              /\ path \in Seq(Steps) \/ \E q \in Seq(Steps) : path = <<Dot>> \o q
<1> DEFINE C == {path[i] : i \in DOMAIN path}
<1>1. path \in Seq(C) /\ \A i \in 2 .. Len(path) : path[i] \notin {Root, Dot}
  BY PathsAssumption, Zenon DEF IsPath
<1>2. Len(path) \in Nat /\ DOMAIN path = 1 .. Len(path) /\ path \in [1 .. Len(path) -> C]
  BY <1>1, LenProperties
<1>3. C \subseteq Component
  <2>1. C \in {{p[i] : i \in DOMAIN p} : p \in Paths \cup WorkingDir}
    OBVIOUS
  <2> QED
    BY <2>1, Zenon DEF Component
<1> HIDE DEF C
<1>4. path \in Seq(Component)
  BY <1>1, <1>3, SeqMonotonic
<1>5. \A i \in 1 .. Len(path) : path[i] \in Component
  BY <1>4
<1>6. \A i \in 2 .. Len(path) : path[i] \in Steps
  BY <1>1, <1>5, Components DEF Steps
<1>7. ASSUME path # << >>
      PROVE  Tail(path) \in Seq(Steps) /\ path = <<path[1]>> \o Tail(path)
  <2>1. Len(path) >= 1 /\ Tail(path) \in Seq(Component) /\ Len(Tail(path)) = Len(path) - 1
        /\ \A i \in 1 .. Len(path) - 1 : Tail(path)[i] = path[i + 1]
    BY <1>4, <1>7
  <2>2. \A i \in 1 .. Len(Tail(path)) : Tail(path)[i] \in Steps
    <3> SUFFICES ASSUME NEW i \in 1 .. Len(path) - 1 PROVE path[i + 1] \in Steps
      BY <2>1
    <3>1. i + 1 \in 2 .. Len(path)
      BY <1>2
    <3> QED
      BY <1>6, <3>1
  <2>3. Tail(path) \in Seq(Steps)
    BY <2>1, <2>2, SequenceOver
  <2>4. path = <<path[1]>> \o Tail(path)
    BY <1>4, <1>7
  <2> QED
    BY <2>3, <2>4
<1>8. is_absolute(path) => path \in Absolute
  BY <1>7 DEF is_absolute, Nowhere, Absolute
<1>9. ASSUME ~is_absolute(path)
      PROVE  /\ path \in Seq(Relative)
             /\ path \in Seq(Steps) \/ \E q \in Seq(Steps) : path = <<Dot>> \o q
  <2>1. CASE path = << >>
    BY <2>1
  <2>2. CASE path # << >>
    <3>1. path[1] # Root /\ path[1] \in Component
      BY <1>2, <1>5, <1>9, <2>2 DEF is_absolute, Nowhere
    <3>2. path[1] \in Relative
      BY <3>1, Components DEF Relative, Steps
    <3>3. path \in Seq(Relative)
      BY <1>7, <2>2, <3>2, Components
    <3>4. path[1] = Dot => path = <<Dot>> \o Tail(path)
      BY <1>7, <2>2
    <3>5. path[1] # Dot => path \in Seq(Steps)
      BY <1>7, <2>2, <3>2 DEF Relative
    <3> QED
      BY <1>7, <2>2, <3>3, <3>4, <3>5
  <2> QED
    BY <2>1, <2>2
<1> QED
  BY <1>4, <1>8, <1>9

\* A working directory is the names from the root on.
LEMMA DirectoryIs == \A place \in WorkingDir : place \in Seq(PathNames)
<1> SUFFICES ASSUME NEW place \in WorkingDir PROVE place \in Seq(PathNames)
  OBVIOUS
<1> DEFINE C == {place[i] : i \in DOMAIN place}
<1>1. place \in Seq(C) /\ \A i \in DOMAIN place : place[i] \notin {Root, Dot, Up}
  BY PathsAssumption, Zenon DEF IsPath
<1>2. C \subseteq Component
  <2>1. C \in {{p[i] : i \in DOMAIN p} : p \in Paths \cup WorkingDir}
    OBVIOUS
  <2> QED
    BY <2>1, Zenon DEF Component
<1>3. C \subseteq PathNames
  BY <1>1, <1>2 DEF PathNames
<1> QED
  BY <1>1, <1>3, SeqMonotonic

\* One component, and what comes after it.
LEMMA WalkFirst ==
  ASSUME NEW place, NEW c \in Component, NEW path \in Seq(Component)
  PROVE  Walk(place, <<c>> \o path) = Walk(Go(place, c), path)
<1> DEFINE one == <<c>>
<1>1. one \in Seq(Component)
  OBVIOUS
<1>2. Walk(place, one) = Go(place, c)
  BY WalkOne
<1> HIDE DEF one
<1>3. Walk(place, one \o path) = Walk(Walk(place, one), path)
  BY <1>1, WalkConcat
<1> QED
  BY <1>2, <1>3 DEF one

\* What the root and "." do.
LEMMA GoRootDot == \A place : Go(place, Root) = Nowhere /\ Go(place, Dot) = place
BY Components DEF Go

\* An absolute path leads to one place from everywhere, and normalize tells it.
LEMMA WalkAbsolute ==
  ASSUME NEW place, NEW path \in Absolute
  PROVE  Walk(place, path) \in Seq(PathNames) /\ normalize(path) = <<Root>> \o Walk(place, path)
<1>1. PICK q \in Seq(Steps) : path = <<Root>> \o q
  BY DEF Absolute
<1>2. q \in Seq(Component) /\ Root \in Component
  BY Components
<1>3. Walk(place, <<Root>> \o q) = Walk(Go(place, Root), q)
  BY <1>2, WalkFirst
<1>4. Go(place, Root) = Nowhere
  BY GoRootDot
<1>5. Nowhere \in Seq(PathNames)
  BY DEF Nowhere
<1>6. Walk(Nowhere, q) \in Seq(PathNames)
  BY <1>2, <1>5, WalkType
<1> QED
  BY <1>1, <1>3, <1>4, <1>6, NormalizeAbsolute

\* The absolute path of a directory leads there.
LEMMA WalkRooted ==
  ASSUME NEW place, NEW there \in Seq(PathNames)
  PROVE  Walk(place, <<Root>> \o there) = there
<1>1. there \in Seq(Component) /\ Root \in Component
  BY Components
<1>2. Walk(place, <<Root>> \o there) = Walk(Go(place, Root), there)
  BY <1>1, WalkFirst
<1>3. Go(place, Root) = << >> /\ << >> \in Seq(PathNames)
  BY GoRootDot DEF Nowhere
<1>4. Walk(<< >>, there) = << >> \o there
  BY <1>3, WalkNames
<1> QED
  BY <1>2, <1>3, <1>4

\* A path pushed onto an absolute one leads on from where that leads.
LEMMA PushLeads ==
  ASSUME NEW base \in Absolute, NEW more \in Paths
  PROVE  /\ Push(base, more) \in Absolute
         /\ \A place : Walk(place, Push(base, more)) = Walk(Walk(place, base), more)
<1>1. PICK q \in Seq(Steps) : base = <<Root>> \o q
  BY DEF Absolute
<1>2. base # Nowhere /\ base \in Seq(Component)
  BY <1>1, Components DEF Nowhere
<1>3. CASE is_absolute(more)
  <2>1. Push(base, more) = more /\ more \in Absolute
    BY <1>3, PathIs DEF Push
  <2>2. PICK p \in Seq(Steps) : more = <<Root>> \o p
    BY <2>1 DEF Absolute
  <2>3. p \in Seq(Component) /\ Root \in Component
    BY Components
  <2>4. \A x : Walk(x, more) = Walk(Go(x, Root), p)
    BY <2>2, <2>3, WalkFirst
  <2>5. \A x : Go(x, Root) = Nowhere
    BY GoRootDot
  <2> QED
    BY <2>1, <2>4, <2>5
<1>4. ASSUME ~is_absolute(more), NEW tail \in Seq(Steps), Push(base, more) = base \o tail,
             \A x : Walk(x, more) = Walk(x, tail)
      PROVE  /\ Push(base, more) \in Absolute
             /\ \A place : Walk(place, Push(base, more)) = Walk(Walk(place, base), more)
  <2>1. q \o tail \in Seq(Steps) /\ base \o tail = <<Root>> \o (q \o tail)
    BY <1>1
  <2>2. Push(base, more) \in Absolute
    BY <1>4, <2>1 DEF Absolute
  <2>3. tail \in Seq(Component)
    BY Components
  <2>4. \A place : Walk(place, base \o tail) = Walk(Walk(place, base), tail)
    BY <1>2, <2>3, WalkConcat
  <2> QED
    BY <1>4, <2>2, <2>4
<1>5. CASE ~is_absolute(more) /\ more \in Seq(Steps)
  <2>1. more # Nowhere => more[1] # Dot
    <3> SUFFICES ASSUME more # << >> PROVE more[1] # Dot
      BY DEF Nowhere
    <3>1. more[1] \in Steps
      BY <1>5
    <3> QED
      BY <3>1, Components
  <2>2. Push(base, more) = base \o more
    BY <1>2, <1>5, <2>1 DEF Push
  <2> QED
    BY <1>4, <1>5, <2>2
<1>6. CASE ~is_absolute(more) /\ more \notin Seq(Steps)
  <2>1. PICK tail \in Seq(Steps) : more = <<Dot>> \o tail
    BY <1>6, PathIs
  <2>2. more # Nowhere /\ more[1] = Dot /\ Tail(more) = tail
    BY <2>1 DEF Nowhere
  <2>3. Push(base, more) = base \o tail
    BY <1>2, <1>6, <2>2 DEF Push
  <2>4. tail \in Seq(Component) /\ Dot \in Component
    BY Components
  <2>5. \A x : Walk(x, more) = Walk(Go(x, Dot), tail)
    BY <2>1, <2>4, WalkFirst
  <2>6. \A x : Go(x, Dot) = x
    BY GoRootDot
  <2> QED
    BY <1>4, <1>6, <2>3, <2>5, <2>6
<1> QED
  BY <1>3, <1>5, <1>6

\* Two segments are pushed one after the other.
IsPushed(g, path, segments) ==
  g = [i \in 0 .. Len(segments) |-> IF i = 0 THEN path ELSE Push(g[i - 1], segments[i])]

\* Such a function there is, and its end is two pushes.
LEMMA PushedTwo ==
  ASSUME NEW path, NEW a, NEW b
  PROVE  Pushed(path, <<a, b>>) = Push(Push(path, a), b)
<1>1. \A s : Pushed(path, s) = (CHOOSE g : IsPushed(g, path, s))[Len(s)]
  BY Zenon DEF Pushed, IsPushed
<1> DEFINE s == <<a, b>>
           h == [i \in 0 .. 2 |-> IF i = 0 THEN path
                                  ELSE IF i = 1 THEN Push(path, a) ELSE Push(Push(path, a), b)]
           g == CHOOSE f : IsPushed(f, path, s)
<1>2. Len(s) = 2 /\ s[1] = a /\ s[2] = b
  OBVIOUS
<1> HIDE DEF s
<1>3. IsPushed(h, path, s)
  <2>1. h[0] = path /\ h[1] = Push(path, a)
    OBVIOUS
  <2>2. \A i \in 0 .. 2 : h[i] = IF i = 0 THEN path ELSE Push(h[i - 1], s[i])
    <3> SUFFICES ASSUME NEW i \in 0 .. 2
                 PROVE  h[i] = IF i = 0 THEN path ELSE Push(h[i - 1], s[i])
      OBVIOUS
    <3>1. i = 0 \/ i = 1 \/ i = 2
      OBVIOUS
    <3> QED
      BY <1>2, <2>1, <3>1
  <2>3. h = [i \in 0 .. 2 |-> h[i]]
    OBVIOUS
  <2> HIDE DEF h
  <2>4. h = [i \in 0 .. 2 |-> IF i = 0 THEN path ELSE Push(h[i - 1], s[i])]
    BY <2>2, <2>3, Zenon
  <2> QED
    BY <1>2, <2>4 DEF IsPushed
<1>4. IsPushed(g, path, s)
  BY <1>3, Zenon
<1> HIDE DEF g
<1>5. g = [i \in 0 .. 2 |-> IF i = 0 THEN path ELSE Push(g[i - 1], s[i])]
  BY <1>2, <1>4 DEF IsPushed
<1>6. g[0] = path /\ g[1] = Push(g[0], s[1]) /\ g[2] = Push(g[1], s[2])
  BY <1>5
<1>7. Pushed(path, s) = g[2]
  BY <1>1, <1>2 DEF g
<1> QED
  BY <1>2, <1>6, <1>7 DEF s

\* resolve leads where the segments lead one after the other.
LEMMA ResolveLeads == Misresolved = {}
<1> SUFFICES ASSUME NEW cwd \in WorkingDir, NEW a \in Paths, NEW b \in Paths
             PROVE  resolve(cwd, <<a, b>>) = <<Root>> \o Walk(Walk(cwd, a), b)
  BY DEF Misresolved
<1> DEFINE base == <<Root>> \o cwd
<1>1. cwd \in Seq(PathNames) /\ cwd \in Seq(Steps)
  BY DirectoryIs, Components
<1>2. base \in Absolute
  BY <1>1 DEF Absolute
<1>3. Walk(cwd, base) = cwd
  BY <1>1, WalkRooted
<1> HIDE DEF base
<1>4. Push(base, a) \in Absolute /\ Walk(cwd, Push(base, a)) = Walk(cwd, a)
  BY <1>2, <1>3, PushLeads
<1>5. /\ Push(Push(base, a), b) \in Absolute
      /\ Walk(cwd, Push(Push(base, a), b)) = Walk(Walk(cwd, a), b)
  BY <1>4, PushLeads
<1>6. normalize(Push(Push(base, a), b)) = <<Root>> \o Walk(Walk(cwd, a), b)
  BY <1>5, WalkAbsolute
<1> QED
  BY <1>6, PushedTwo DEF resolve, base

\* normalize leads where the path leads.
LEMMA NormalizeLeads == Misnormalized = {}
<1> SUFFICES ASSUME NEW cwd \in WorkingDir, NEW path \in Paths,
                    is_absolute(path) \/ ~Climbs(path)
             PROVE  Walk(cwd, normalize(path)) = Walk(cwd, path)
  BY DEF Misnormalized
<1>1. cwd \in Seq(PathNames)
  BY DirectoryIs
<1>2. CASE is_absolute(path)
  <2>1. path \in Absolute
    BY <1>2, PathIs
  <2>2. Walk(cwd, path) \in Seq(PathNames) /\ normalize(path) = <<Root>> \o Walk(cwd, path)
    BY <2>1, WalkAbsolute
  <2> QED
    BY <2>2, WalkRooted
<1>3. CASE ~is_absolute(path) /\ ~Climbs(path)
  <2>1. path \in Seq(Relative)
    BY <1>3, PathIs
  <2>2. normalize(path) = Walk(Nowhere, path) /\ normalize(path) \in Seq(PathNames)
    BY <2>1, NormalizeRelative
  <2>3. Walk(cwd, path) = cwd \o Walk(Nowhere, path)
    BY <1>1, <1>3, <2>1, Sheltered
  <2>4. Walk(cwd, normalize(path)) = cwd \o normalize(path)
    BY <1>1, <2>2, WalkNames
  <2> QED
    BY <2>2, <2>3, <2>4
<1> QED
  BY <1>2, <1>3

\* A path is its directory and its name, joined.
LEMMA JoinLeads == Misjoined = {}
<1> SUFFICES ASSUME NEW cwd \in WorkingDir, NEW path \in Paths, basename(path) # Nowhere
             PROVE  join(<<dirname(path), basename(path)>>) = path
  BY DEF Misjoined
<1> DEFINE n == Len(path)
           front == SubSeq(path, 1, n - 1)
           c == path[n]
<1>1. path \in Seq(Component)
  BY PathIs
<1>2. path # << >> /\ c \notin {Root, Up, Dot} /\ basename(path) = <<c>>
  BY DEF basename, Nowhere
<1>3. n \in Nat /\ n >= 1
  BY <1>1, <1>2
<1>4. dirname(path) = front
  <2>1. path # <<Root>>
    <3>1. path = <<Root>> => n = 1 /\ path[1] = Root
      OBVIOUS
    <3> QED
      BY <1>2, <3>1
  <2> QED
    BY <1>2, <2>1 DEF dirname, Front, Nowhere
<1>5. path = front \o <<c>>
  BY <1>1, <1>3
<1> HIDE DEF c, front, n
<1>6. Push(Nowhere, front) = front
  BY DEF Push
<1>7. ~is_absolute(<<c>>) /\ <<c>> # Nowhere /\ <<c>>[1] # Dot
  BY <1>2 DEF is_absolute, Nowhere
<1>8. Push(front, <<c>>) = IF front = Nowhere THEN <<c>> ELSE front \o <<c>>
  BY <1>7 DEF Push
<1>9. front = Nowhere => front \o <<c>> = <<c>>
  BY DEF Nowhere
<1>10. Push(front, <<c>>) = path
  BY <1>5, <1>8, <1>9
<1> QED
  BY <1>2, <1>4, <1>6, <1>10, PushedTwo DEF join

\* Common counts a common beginning.
LEMMA CommonIs ==
  ASSUME NEW C, NEW from \in Seq(C), NEW to \in Seq(C)
  PROVE  LET n == Common(from, to)
         IN /\ n \in 0 .. Len(from) /\ n \in 0 .. Len(to)
            /\ \A i \in 1 .. n : from[i] = to[i]
            /\ Len(from) >= 1 /\ Len(to) >= 1 /\ from[1] = to[1] => n >= 1
<1> DEFINE S == {i \in DOMAIN from \cap DOMAIN to : \A j \in 1 .. i : from[j] = to[j]}
           Beyond == {i \in Nat : i + 1 \notin S}
<1>1. /\ Len(from) \in Nat /\ DOMAIN from = 1 .. Len(from)
      /\ Len(to) \in Nat /\ DOMAIN to = 1 .. Len(to)
  OBVIOUS
<1>2. Len(from) \in Beyond
  BY <1>1
<1>3. PICK n \in Beyond : \A i \in Beyond : n <= i
  BY <1>2, LeastNumber
<1>4. n \in Nat /\ n + 1 \notin S
  OBVIOUS
<1>5. S = 1 .. n
  <2>1. ASSUME NEW i \in 1 .. n PROVE i \in S
    <3>1. i - 1 \in Nat /\ ~(n <= i - 1) /\ i - 1 + 1 = i
      BY <1>4
    <3>2. i - 1 \notin Beyond
      BY <1>3, <3>1
    <3> QED
      BY <3>1, <3>2
  <2>2. ASSUME NEW i \in S PROVE i \in 1 .. n
    <3>1. i \in Nat /\ i >= 1
      BY <1>1
    <3> SUFFICES ASSUME i > n PROVE FALSE
      BY <1>4, <3>1
    <3>2. n + 1 \in 1 .. i
      BY <1>4, <3>1
    <3>3. n + 1 \in DOMAIN from \cap DOMAIN to
      BY <1>1, <3>2
    <3>4. \A j \in 1 .. n + 1 : from[j] = to[j]
      BY <1>4, <3>1, <3>2
    <3>5. n + 1 \in S
      BY <3>3, <3>4
    <3> QED
      BY <1>4, <3>5
  <2> QED
    BY <2>1, <2>2
<1>6. n <= Len(from) /\ n <= Len(to)
  <2> SUFFICES ASSUME n >= 1 PROVE n <= Len(from) /\ n <= Len(to)
    BY <1>1, <1>4
  <2>1. n \in S
    BY <1>4, <1>5
  <2> QED
    BY <1>1, <2>1
<1>7. \A i \in 1 .. n : from[i] = to[i]
  <2> SUFFICES ASSUME NEW i \in 1 .. n PROVE from[i] = to[i]
    OBVIOUS
  <2>1. i \in S /\ i \in 1 .. i
    BY <1>4, <1>5
  <2> QED
    BY <2>1
<1>8. Len(from) >= 1 /\ Len(to) >= 1 /\ from[1] = to[1] => n >= 1
  <2> SUFFICES ASSUME Len(from) >= 1, Len(to) >= 1, from[1] = to[1] PROVE 1 \in S
    BY <1>4, <1>5
  <2>1. 1 .. 1 = {1}
    OBVIOUS
  <2> QED
    BY <1>1, <2>1
<1>9. Common(from, to) = n
  <2>1. Cardinality(1 .. n) = IF 1 > n THEN 0 ELSE n - 1 + 1
    BY <1>4, FS_Interval
  <2>2. Cardinality(1 .. n) = n
    BY <1>4, <2>1
  <2> QED
    BY <1>5, <2>2 DEF Common
<1> QED
  BY <1>1, <1>4, <1>6, <1>7, <1>8, <1>9

\* As many ".." as there is more of `from`, then the rest of `to`.
LEMMA RelativeWalk ==
  ASSUME NEW C, NEW from \in Seq(C), NEW to \in Seq(C), NEW there \in Seq(PathNames),
         Len(from) - Common(from, to) <= Len(there),
         SubSeq(to, Common(from, to) + 1, Len(to)) \in Seq(PathNames)
  PROVE  Walk(there, relative(from, to))
           = SubSeq(there, 1, Len(there) - (Len(from) - Common(from, to)))
               \o SubSeq(to, Common(from, to) + 1, Len(to))
<1> DEFINE n == Common(from, to)
           k == Len(from) - n
           ups == [i \in 1 .. k |-> Up]
           beyond == SubSeq(to, n + 1, Len(to))
           above == SubSeq(there, 1, Len(there) - k)
<1>1. n \in 0 .. Len(from) /\ Len(from) \in Nat
  BY CommonIs
<1>2. k \in 0 .. Len(there) /\ beyond \in Seq(PathNames)
  BY <1>1
<1>3. relative(from, to) = IF Push(ups, beyond) = Nowhere THEN <<Dot>> ELSE Push(ups, beyond)
  BY Zenon DEF relative
<1> HIDE DEF n
<1> HIDE DEF k, beyond
<1>4. ups \in Seq(Component) /\ ups \o beyond \in Seq(Component) /\ beyond \in Seq(Component)
  <2>1. ups \in Seq(Component) /\ beyond \in Seq(Component)
    BY <1>2, Components
  <2> QED
    BY <2>1
<1>5. Walk(there, ups) = above
  BY <1>2, WalkUps
<1>6. above \in Seq(PathNames)
  BY <1>2
<1> HIDE DEF ups, above
<1>7. Walk(there, ups \o beyond) = above \o beyond
  <2>1. Walk(there, ups \o beyond) = Walk(above, beyond)
    BY <1>4, <1>5, WalkConcat
  <2> QED
    BY <1>2, <1>6, <2>1, WalkNames
<1>8. Push(ups, beyond) = ups \o beyond
  <2>1. beyond # << >> => beyond[1] \in PathNames
    BY <1>2
  <2>2. ~is_absolute(beyond) /\ ~(beyond # Nowhere /\ beyond[1] = Dot)
    BY <2>1, Components DEF is_absolute, Nowhere
  <2>3. Push(ups, beyond) = IF ups = Nowhere THEN beyond ELSE ups \o beyond
    BY <2>2 DEF Push
  <2>4. << >> \o beyond = beyond
    BY <1>2
  <2> QED
    BY <2>3, <2>4 DEF Nowhere
<1>9. CASE ups \o beyond = Nowhere
  <2>1. Walk(there, ups \o beyond) = there
    BY <1>9, WalkNothing DEF Nowhere
  <2>2. Walk(there, <<Dot>>) = Go(there, Dot)
    BY WalkOne
  <2>3. Walk(there, <<Dot>>) = there
    BY <2>2, GoRootDot
  <2> QED
    BY <1>3, <1>7, <1>8, <1>9, <2>1, <2>3 DEF above, beyond, k, n
<1>10. CASE ups \o beyond # Nowhere
  BY <1>3, <1>7, <1>8, <1>10 DEF above, beyond, k, n
<1> QED
  BY <1>9, <1>10

\* A sequence is its beginning and its end.
LEMMA Halves ==
  ASSUME NEW C, NEW s \in Seq(C), NEW n \in 0 .. Len(s)
  PROVE  /\ SubSeq(s, 1, n) \in Seq(C) /\ SubSeq(s, n + 1, Len(s)) \in Seq(C)
         /\ SubSeq(s, 1, n) \o SubSeq(s, n + 1, Len(s)) = s
<1>1. /\ Len(s) \in Nat /\ n \in Nat /\ 1 \in 1 .. Len(s) + 1
      /\ n \in 1 - 1 .. Len(s) /\ Len(s) \in n .. Len(s)
  OBVIOUS
<1>2. SubSeq(s, 1, n) \o SubSeq(s, n + 1, Len(s)) = SubSeq(s, 1, Len(s))
  BY <1>1, ConcatAdjacentSubSeq
<1>3. SubSeq(s, 1, Len(s)) = s
  BY SubSeqFull
<1>4. SubSeq(s, 1, n) \in Seq(C) /\ SubSeq(s, n + 1, Len(s)) \in Seq(C)
  BY <1>1
<1> QED
  BY <1>2, <1>3, <1>4

\* relative leads from the one path to the other.
LEMMA RelativeLeads == Misled = {}
<1> SUFFICES ASSUME NEW cwd \in WorkingDir, NEW p \in Paths, NEW q \in Paths,
                    is_absolute(p) <=> is_absolute(q)
             PROVE  Walk(Walk(cwd, normalize(p)), relative(normalize(p), normalize(q)))
                      = Walk(cwd, normalize(q))
  BY DEF Misled
<1> DEFINE from == normalize(p)
           to == normalize(q)
           n == Common(from, to)
<1>1. cwd \in Seq(PathNames)
  BY DirectoryIs
<1>2. CASE is_absolute(p)
  <2> DEFINE f == Walk(cwd, p)
             t == Walk(cwd, q)
  <2>1. f \in Seq(PathNames) /\ from = <<Root>> \o f /\ t \in Seq(PathNames) /\ to = <<Root>> \o t
    BY <1>2, PathIs, WalkAbsolute
  <2>2. Walk(cwd, from) = f /\ Walk(cwd, to) = t
    BY <2>1, WalkRooted
  <2> HIDE DEF f, t, from, to
  <2>3. /\ from \in Seq(Component) /\ to \in Seq(Component)
        /\ Len(from) = Len(f) + 1 /\ Len(to) = Len(t) + 1 /\ from[1] = Root /\ to[1] = Root
        /\ Len(f) \in Nat /\ Len(t) \in Nat
        /\ \A i \in 1 .. Len(f) : from[i + 1] = f[i]
        /\ \A i \in 1 .. Len(t) : to[i + 1] = t[i]
    BY <2>1, Components
  <2>4. /\ n \in 0 .. Len(from) /\ n \in 0 .. Len(to) /\ n >= 1
        /\ \A i \in 1 .. n : from[i] = to[i]
    <3> HIDE DEF n
    <3>1. /\ n \in 0 .. Len(from) /\ n \in 0 .. Len(to)
          /\ \A i \in 1 .. n : from[i] = to[i]
          /\ Len(from) >= 1 /\ Len(to) >= 1 /\ from[1] = to[1] => n >= 1
      BY <2>3, CommonIs DEF n
    <3>2. Len(from) >= 1 /\ Len(to) >= 1 /\ from[1] = to[1]
      BY <2>3
    <3> QED
      BY <3>1, <3>2
  <2> HIDE DEF n
  <2>5. SubSeq(to, n + 1, Len(to)) = SubSeq(t, n, Len(t))
    BY <2>1, <2>3, <2>4
  <2>6. SubSeq(t, n, Len(t)) \in Seq(PathNames) /\ Len(from) - n <= Len(f)
        /\ Len(f) - (Len(from) - n) = n - 1
    BY <2>1, <2>3, <2>4
  <2>7. Walk(f, relative(from, to)) = SubSeq(f, 1, n - 1) \o SubSeq(t, n, Len(t))
    <3>1. SubSeq(to, n + 1, Len(to)) \in Seq(PathNames)
      BY <2>5, <2>6
    <3>2. Walk(f, relative(from, to))
            = SubSeq(f, 1, Len(f) - (Len(from) - n)) \o SubSeq(to, n + 1, Len(to))
      BY <2>1, <2>3, <2>6, <3>1, RelativeWalk DEF n
    <3> QED
      BY <2>5, <2>6, <3>2
  <2>8. SubSeq(f, 1, n - 1) = SubSeq(t, 1, n - 1)
    <3>1. \A i \in 1 .. n - 1 : f[i] = t[i]
      <4> SUFFICES ASSUME NEW i \in 1 .. n - 1 PROVE f[i] = t[i]
        OBVIOUS
      <4>1. i + 1 \in 1 .. n /\ i \in 1 .. Len(f) /\ i \in 1 .. Len(t)
        BY <2>3, <2>4
      <4> QED
        BY <2>3, <2>4, <4>1
    <3> QED
      BY <2>1, <2>3, <2>4, <3>1
  <2>9. SubSeq(t, 1, n - 1) \o SubSeq(t, n, Len(t)) = t
    <3>1. n - 1 \in 0 .. Len(t) /\ n - 1 + 1 = n
      BY <2>3, <2>4
    <3>2. SubSeq(t, 1, n - 1) \o SubSeq(t, n - 1 + 1, Len(t)) = t
      BY <2>1, <3>1, Halves
    <3> QED
      BY <3>1, <3>2
  <2> QED
    BY <2>2, <2>7, <2>8, <2>9 DEF from, to
<1>3. CASE ~is_absolute(p)
  <2>1. from \in Seq(PathNames) /\ to \in Seq(PathNames)
    BY <1>3, PathIs, NormalizeRelative
  <2> HIDE DEF from, to
  <2>2. Walk(cwd, from) = cwd \o from /\ Walk(cwd, to) = cwd \o to
    BY <1>1, <2>1, WalkNames
  <2>3. /\ n \in 0 .. Len(from) /\ n \in 0 .. Len(to)
        /\ \A i \in 1 .. n : from[i] = to[i]
        /\ Len(from) \in Nat /\ Len(to) \in Nat /\ Len(cwd) \in Nat
    BY <1>1, <2>1, CommonIs
  <2> HIDE DEF n
  <2>4. /\ cwd \o from \in Seq(PathNames) /\ Len(cwd \o from) = Len(cwd) + Len(from)
        /\ SubSeq(to, n + 1, Len(to)) \in Seq(PathNames)
        /\ Len(from) - n <= Len(cwd) + Len(from)
        /\ Len(cwd) + Len(from) - (Len(from) - n) = Len(cwd) + n
    BY <1>1, <2>1, <2>3
  <2>5. Walk(cwd \o from, relative(from, to))
          = SubSeq(cwd \o from, 1, Len(cwd) + n) \o SubSeq(to, n + 1, Len(to))
    <3>1. Walk(cwd \o from, relative(from, to))
            = SubSeq(cwd \o from, 1, Len(cwd \o from) - (Len(from) - n))
                \o SubSeq(to, n + 1, Len(to))
      <4>1. Len(from) - n <= Len(cwd \o from)
        BY <2>4
      <4> QED
        BY <2>1, <2>4, <4>1, RelativeWalk DEF n
    <3>2. Len(cwd \o from) - (Len(from) - n) = Len(cwd) + n
      BY <2>3, <2>4
    <3> QED
      BY <3>1, <3>2, Zenon
  <2>6. SubSeq(cwd \o from, 1, Len(cwd) + n) = cwd \o SubSeq(from, 1, n)
    BY <1>1, <2>1, <2>3
  <2>7. SubSeq(from, 1, n) = SubSeq(to, 1, n)
    BY <2>1, <2>3
  <2>8. (cwd \o SubSeq(to, 1, n)) \o SubSeq(to, n + 1, Len(to)) = cwd \o to
    <3> DEFINE a == SubSeq(to, 1, n)
               b == SubSeq(to, n + 1, Len(to))
    <3>1. a \in Seq(PathNames) /\ b \in Seq(PathNames) /\ a \o b = to
      BY <2>1, <2>3, Halves
    <3> HIDE DEF a, b
    <3>2. ASSUME NEW x \in Seq(PathNames), NEW y \in Seq(PathNames), NEW z \in Seq(PathNames)
          PROVE  (x \o y) \o z = x \o (y \o z)
      BY ConcatAssociative
    <3>3. (cwd \o a) \o b = cwd \o (a \o b)
      BY <1>1, <3>1, <3>2
    <3> QED
      BY <3>1, <3>3 DEF a, b
  <2> QED
    BY <2>2, <2>5, <2>6, <2>7, <2>8 DEF from, to
<1> QED
  BY <1>2, <1>3

-----------------------------------------------------------------------------
(* Values                                                                  *)

\* The conversions and the two conditions are recursive functions: one layer of
\* each, given what it is for the parts.
OutputsLayer(g, v) ==
  CASE v.type = "table" /\ IsArray(v.at) ->
         Array([i \in 1 .. max_index(v.at) |->
                  IF Present(v.at, i) THEN g[v.at[Index(i)]] ELSE Nil])
    [] v.type = "table" /\ ~IsArray(v.at) -> Object([n \in Texts(v.at) |-> g[At(v.at, n)]])
    [] v.type \in {"infinite", "function"} -> Refused
    [] OTHER -> v

InputsLayer(g, v) ==
  CASE v.type = "table" /\ raw_len(v.at) > 0 /\ Present(v.at, 1) ->
         Array([i \in 1 .. raw_len(v.at) |->
                  g[IF Present(v.at, i) THEN v.at[Index(i)] ELSE Nil]])
    [] v.type = "table" /\ ~(raw_len(v.at) > 0 /\ Present(v.at, 1)) ->
         Object([n \in Texts(v.at) |-> g[At(v.at, n)]])
    [] v.type = "integer" -> Number(AsFloat(v.n))
    [] v.type \in {"function", "nil"} -> Refused
    [] OTHER -> v

BackLayer(g, j) ==
  CASE j.type = "array" ->
         Table([k \in {Index(i) : i \in {n \in DOMAIN j.items : j.items[n] # Nil}} |->
                  g[j.items[k.n]]])
    [] j.type = "object" ->
         Table([k \in {Text(n) : n \in {m \in DOMAIN j.fields : j.fields[m] # Nil}} |->
                  g[j.fields[k.n]]])
    [] OTHER -> j

PlainLayer(g, v) ==
  CASE v.type = "table" ->
         (Named(v.at) \/ IsArray(v.at)) /\ \A k \in DOMAIN v.at : g[v.at[k]]
    [] v.type \in {"infinite", "function"} -> FALSE
    [] OTHER -> TRUE

WholeLayer(g, v) ==
  CASE v.type = "table" ->
         /\ Named(v.at) \/ \A k \in DOMAIN v.at : k.n = 1 \/ Present(v.at, k.n - 1)
         /\ \A k \in DOMAIN v.at : g[v.at[k]]
    [] v.type = "integer" -> IsExact(v.n)
    [] OTHER -> TRUE

FloatsLayer(g, v) ==
  CASE v.type = "table" -> Table([k \in DOMAIN v.at |-> g[v.at[k]]])
    [] v.type = "integer" -> Number(v.n)
    [] OTHER -> v

Layer(which, g, v) ==
  CASE which = "outputs" -> OutputsLayer(g, v)
    [] which = "inputs" -> InputsLayer(g, v)
    [] which = "back" -> BackLayer(g, v)
    [] which = "plain" -> PlainLayer(g, v)
    [] which = "whole" -> WholeLayer(g, v)
    [] which = "floats" -> FloatsLayer(g, v)

\* A function that is so on a set.
Solves(which, g, D) == g = [v \in D |-> Layer(which, g, v)]

\* The parts a layer looks at are smaller, and it looks at nothing else.
Founded(which, D, size, parts) ==
  /\ \A v \in D : size[v] \in Nat /\ parts[v] \subseteq D
  /\ \A v \in D : \A part \in parts[v] : size[part] < size[v]
  /\ \A v \in D : \A g, h :
       (\A part \in parts[v] : g[part] = h[part]) => Layer(which, g, v) = Layer(which, h, v)

\* On all values up to a size there is one.
LEMMA SolvedTo ==
  ASSUME NEW which, NEW D, NEW size, NEW parts, Founded(which, D, size, parts), NEW n \in Nat
  PROVE  \E g : Solves(which, g, {v \in D : size[v] < n})
<1> DEFINE T == {k \in Nat : \E g : Solves(which, g, {v \in D : size[v] < k})}
<1>1. 0 \in T
  <2>1. {v \in D : size[v] < 0} = {}
    BY DEF Founded
  <2> DEFINE g == [v \in {} |-> v]
  <2>2. g = [v \in {} |-> Layer(which, g, v)]
    OBVIOUS
  <2> HIDE DEF g
  <2>3. Solves(which, g, {})
    BY <2>2 DEF Solves
  <2> QED
    BY <2>1, <2>3
<1>2. ASSUME NEW k \in Nat, k \in T PROVE k + 1 \in T
  <2> DEFINE B == {v \in D : size[v] < k}
             C == {v \in D : size[v] < k + 1}
  <2>1. PICK g : Solves(which, g, B)
    BY <1>2
  <2>2. g = [v \in B |-> Layer(which, g, v)]
    BY <2>1 DEF Solves
  <2> DEFINE h == [v \in C |-> Layer(which, g, v)]
  <2>3. B \subseteq C
    BY DEF Founded
  <2> HIDE DEF C
  <2>4. \A v \in B : h[v] = g[v]
    BY <2>2, <2>3
  <2>5. \A v \in C : parts[v] \subseteq B
    BY DEF C, Founded
  <2>6. \A v \in C : v \in D
    BY DEF C
  <2> HIDE DEF B, h
  <2>7. \A v \in C : Layer(which, g, v) = Layer(which, h, v)
    BY <2>4, <2>5, <2>6, Zenon DEF Founded
  <2>8. h = [v \in C |-> Layer(which, h, v)]
    BY <2>7, Zenon DEF h
  <2>9. Solves(which, h, C)
    BY <2>8 DEF Solves
  <2> QED
    BY <2>9 DEF C
<1> HIDE DEF T
<1>3. Nat \subseteq T
  BY <1>1, <1>2, AllNumbers
<1> QED
  BY <1>3 DEF T

\* And they agree.
LEMMA SolvedAlike ==
  ASSUME NEW which, NEW D, NEW size, NEW parts, Founded(which, D, size, parts),
         NEW n \in Nat, NEW g, Solves(which, g, {v \in D : size[v] < n}),
         NEW m \in Nat, NEW h, Solves(which, h, {v \in D : size[v] < m}),
         NEW v \in D, size[v] < n, size[v] < m
  PROVE  g[v] = h[v]
<1> DEFINE B == {w \in D : size[w] < n}
           C == {w \in D : size[w] < m}
           T == {k \in Nat : \A w \in D : size[w] < n /\ size[w] < m /\ size[w] < k => g[w] = h[w]}
<1>1. 0 \in T
  BY DEF Founded
<1>2. ASSUME NEW k \in Nat, k \in T PROVE k + 1 \in T
  <2> SUFFICES ASSUME NEW w \in D, size[w] < n, size[w] < m, size[w] < k + 1
               PROVE  g[w] = h[w]
    OBVIOUS
  <2>1. /\ size[w] \in Nat
        /\ \A part \in parts[w] : part \in D /\ size[part] \in Nat /\ size[part] < size[w]
    BY DEF Founded
  <2>2. \A part \in parts[w] : g[part] = h[part]
    BY <1>2, <2>1
  <2>3. Layer(which, g, w) = Layer(which, h, w)
    BY <2>2, Zenon DEF Founded
  <2>4. g = [x \in B |-> Layer(which, g, x)] /\ h = [x \in C |-> Layer(which, h, x)]
    BY DEF Solves
  <2>5. w \in B /\ w \in C
    OBVIOUS
  <2> HIDE DEF B, C
  <2>6. g[w] = Layer(which, g, w) /\ h[w] = Layer(which, h, w)
    BY <2>4, <2>5, Zenon
  <2> QED
    BY <2>3, <2>6
<1> HIDE DEF T
<1>3. Nat \subseteq T
  BY <1>1, <1>2, AllNumbers
<1>4. size[v] \in Nat /\ size[v] + 1 \in T
  BY <1>3 DEF Founded
<1> QED
  BY <1>4 DEF T

\* So there is one on all values.
LEMMA SolvedOnAll ==
  ASSUME NEW which, NEW D, NEW size, NEW parts, Founded(which, D, size, parts)
  PROVE  \E g : Solves(which, g, D)
<1> DEFINE To(n) == {v \in D : size[v] < n}
           G(n) == CHOOSE g : Solves(which, g, To(n))
           f == [v \in D |-> G(size[v] + 1)[v]]
<1>1. \A n \in Nat : Solves(which, G(n), To(n))
  <2> SUFFICES ASSUME NEW n \in Nat PROVE Solves(which, G(n), To(n))
    OBVIOUS
  <2>1. \E g : Solves(which, g, To(n))
    BY SolvedTo
  <2> HIDE DEF To
  <2> QED
    BY <2>1, Zenon
<1> HIDE DEF G
<1>2. ASSUME NEW v \in D PROVE f[v] = Layer(which, f, v)
  <2> DEFINE s == size[v] + 1
             g == G(s)
  <2>1. /\ size[v] \in Nat
        /\ \A part \in parts[v] : part \in D /\ size[part] \in Nat /\ size[part] < size[v]
    BY DEF Founded
  <2>2. s \in Nat /\ v \in To(s) /\ Solves(which, g, To(s))
    BY <1>1, <2>1
  <2>3. g = [w \in To(s) |-> Layer(which, g, w)]
    BY <2>2 DEF Solves
  <2>4. g[v] = Layer(which, g, v)
    <3> HIDE DEF To, g, s
    <3> QED
      BY <2>2, <2>3, Zenon
  <2>5. ASSUME NEW part \in parts[v] PROVE g[part] = f[part]
    <3> DEFINE r == size[part] + 1
    <3>1. r \in Nat /\ part \in D /\ size[part] < r /\ size[part] < s
      BY <2>1
    <3>2. Solves(which, G(r), To(r))
      BY <1>1, <3>1
    <3>3. g[part] = G(r)[part]
      <4> HIDE DEF g, s, r
      <4> QED
        BY <2>2, <3>1, <3>2, SolvedAlike
    <3> QED
      BY <3>1, <3>3
  <2>6. f[v] = g[v]
    OBVIOUS
  <2> HIDE DEF f, g
  <2>7. Layer(which, g, v) = Layer(which, f, v)
    BY <2>5, Zenon DEF Founded
  <2> QED
    BY <2>4, <2>6, <2>7
<1>3. f = [v \in D |-> f[v]]
  OBVIOUS
<1> HIDE DEF f
<1>4. f = [v \in D |-> Layer(which, f, v)]
  BY <1>2, <1>3, Zenon
<1> QED
  BY <1>4 DEF Solves

\* How much is in a value, and the parts that a layer looks at.
Sizes == [v \in Values \cup {Nil} |-> IF v = Nil THEN 0 ELSE Cardinality(Inside[v]) + 1]
PartsIn(D) == [v \in D |-> IF v.type = "table" THEN Parts(v) \cup (D \cap {Nil}) ELSE {}]

LEMMA NilIsNoValue == Nil \notin Values /\ Nil.type = "nil"
BY ValuesAssumption DEF Nil

\* A table's keys, and what it has under them.
LEMMA TableIs ==
  ASSUME NEW v \in Tables
  PROVE  /\ v \in Values /\ v.type = "table"
         /\ v = Table([k \in DOMAIN v.at |-> v.at[k]]) /\ IsFiniteSet(DOMAIN v.at)
         /\ \A k \in DOMAIN v.at :
              /\ k.n \in Int /\ k \in {Index(k.n), Text(k.n)}
              /\ v.at[k] \in Parts(v) /\ v.at[k] \in Values
         /\ \A part \in Parts(v) : part \in Values /\ Sizes[part] < Sizes[v]
         /\ \A n \in Texts(v.at) : At(v.at, n) \in Parts(v)
<1>1. /\ v \in Values /\ v.type = "table"
      /\ v = Table([k \in DOMAIN v.at |-> v.at[k]]) /\ IsFiniteSet(DOMAIN v.at)
      /\ \A k \in DOMAIN v.at : k.n \in Int /\ k \in {Index(k.n), Text(k.n)}
  BY ValuesAssumption DEF Tables
<1>2. Parts(v) \subseteq Values
  BY ValuesAssumption
<1>3. \A k \in DOMAIN v.at : v.at[k] \in Parts(v)
  BY DEF Parts
<1>4. ASSUME NEW part \in Parts(v) PROVE part \in Values /\ Sizes[part] < Sizes[v]
  <2>1. part \in Values /\ part # Nil /\ v # Nil
    BY <1>1, <1>2, NilIsNoValue
  <2>2. /\ IsFiniteSet(Inside[v]) /\ IsFiniteSet(Inside[part])
        /\ Inside[part] \subseteq Inside[v] \ {v}
    BY <1>1, <2>1, ValuesAssumption
  <2>3. v \in Inside[v] => Cardinality(Inside[part]) < Cardinality(Inside[v])
    <3> SUFFICES ASSUME v \in Inside[v] PROVE Cardinality(Inside[part]) < Cardinality(Inside[v])
      OBVIOUS
    <3>1. Inside[part] \subseteq Inside[v] /\ Inside[part] # Inside[v]
      BY <2>2
    <3>2. /\ Cardinality(Inside[part]) <= Cardinality(Inside[v])
          /\ Cardinality(Inside[part]) # Cardinality(Inside[v])
      BY <2>2, <3>1, FS_Subset
    <3>3. Cardinality(Inside[part]) \in Nat /\ Cardinality(Inside[v]) \in Nat
      BY <2>2, FS_CardinalityType
    <3> QED
      BY <3>2, <3>3
  <2>4. v \in Inside[v]
    BY <1>1, ValuesAssumption
  <2>5. Cardinality(Inside[part]) \in Nat /\ Cardinality(Inside[v]) \in Nat
    BY <2>2, FS_CardinalityType
  <2>6. Sizes[part] = Cardinality(Inside[part]) + 1 /\ Sizes[v] = Cardinality(Inside[v]) + 1
    BY <1>1, <2>1 DEF Sizes
  <2> QED
    BY <2>1, <2>3, <2>4, <2>5, <2>6
<1>5. ASSUME NEW n \in Texts(v.at) PROVE At(v.at, n) \in Parts(v)
  <2>1. \E k \in DOMAIN v.at : k.n = n
    BY DEF Texts
  <2>2. (CHOOSE k \in DOMAIN v.at : k.n = n) \in DOMAIN v.at
    BY <2>1
  <2> QED
    BY <1>3, <2>2 DEF At
<1> QED
  BY <1>1, <1>3, <1>4, <1>5

\* A layer of a value looks at the value's parts.
LEMMA LayersAlike ==
  ASSUME NEW which \in {"outputs", "inputs", "plain", "whole", "floats"}, NEW v \in Values \cup {Nil},
         NEW g, NEW h,
         v.type = "table" => \A part \in Parts(v) : g[part] = h[part],
         which = "inputs" /\ v.type = "table" => g[Nil] = h[Nil]
  PROVE  Layer(which, g, v) = Layer(which, h, v)
<1>1. CASE v.type # "table"
  BY <1>1 DEF Layer, OutputsLayer, InputsLayer, PlainLayer, WholeLayer, FloatsLayer
<1>2. CASE v.type = "table"
  <2>1. v \in Tables
    BY <1>2, NilIsNoValue DEF Tables
  <2>2. \A k \in DOMAIN v.at : g[v.at[k]] = h[v.at[k]]
    BY <1>2, <2>1, TableIs
  <2>3. [n \in Texts(v.at) |-> g[At(v.at, n)]] = [n \in Texts(v.at) |-> h[At(v.at, n)]]
    <3>1. \A n \in Texts(v.at) : g[At(v.at, n)] = h[At(v.at, n)]
      BY <1>2, <2>1, TableIs
    <3> QED
      BY <3>1
  <2>4. OutputsLayer(g, v) = OutputsLayer(h, v)
    <3>1. \A i : Present(v.at, i) => g[v.at[Index(i)]] = h[v.at[Index(i)]]
      BY <2>2 DEF Present
    <3>2. [i \in 1 .. max_index(v.at) |-> IF Present(v.at, i) THEN g[v.at[Index(i)]] ELSE Nil]
            = [i \in 1 .. max_index(v.at) |-> IF Present(v.at, i) THEN h[v.at[Index(i)]] ELSE Nil]
      BY <3>1, Zenon
    <3> QED
      BY <1>2, <2>3, <3>2, Zenon DEF OutputsLayer
  <2>5. ASSUME which = "inputs" PROVE InputsLayer(g, v) = InputsLayer(h, v)
    <3>1. \A i : g[IF Present(v.at, i) THEN v.at[Index(i)] ELSE Nil]
                   = h[IF Present(v.at, i) THEN v.at[Index(i)] ELSE Nil]
      BY <1>2, <2>2, <2>5 DEF Present
    <3>2. [i \in 1 .. raw_len(v.at) |-> g[IF Present(v.at, i) THEN v.at[Index(i)] ELSE Nil]]
            = [i \in 1 .. raw_len(v.at) |-> h[IF Present(v.at, i) THEN v.at[Index(i)] ELSE Nil]]
      BY <3>1, Zenon
    <3> QED
      BY <1>2, <2>3, <3>2, Zenon DEF InputsLayer
  <2>6. PlainLayer(g, v) = PlainLayer(h, v) /\ WholeLayer(g, v) = WholeLayer(h, v)
    <3>1. (\A k \in DOMAIN v.at : g[v.at[k]]) <=> (\A k \in DOMAIN v.at : h[v.at[k]])
      BY <2>2, Zenon
    <3>2. \A f : PlainLayer(f, v)
                   = ((Named(v.at) \/ IsArray(v.at)) /\ \A k \in DOMAIN v.at : f[v.at[k]])
      BY <1>2 DEF PlainLayer
    <3>3. \A f : WholeLayer(f, v)
                   = (/\ Named(v.at) \/ \A k \in DOMAIN v.at : k.n = 1 \/ Present(v.at, k.n - 1)
                      /\ \A k \in DOMAIN v.at : f[v.at[k]])
      BY <1>2 DEF WholeLayer
    <3> QED
      BY <3>1, <3>2, <3>3
  <2>7. FloatsLayer(g, v) = FloatsLayer(h, v)
    <3>1. [k \in DOMAIN v.at |-> g[v.at[k]]] = [k \in DOMAIN v.at |-> h[v.at[k]]]
      BY <2>2, Zenon
    <3> QED
      BY <1>2, <3>1, Zenon DEF FloatsLayer
  <2> QED
    BY <2>4, <2>5, <2>6, <2>7 DEF Layer
<1> QED
  BY <1>1, <1>2

\* Parts are smaller than what they are in, Nil than everything.
LEMMA ValuesFounded ==
  ASSUME NEW which \in {"outputs", "inputs", "plain", "whole", "floats"}, NEW D,
         IF which = "inputs" THEN D = Values \cup {Nil} ELSE D = Values
  PROVE  Founded(which, D, Sizes, PartsIn(D))
<1>1. D \subseteq Values \cup {Nil} /\ (Nil \in D <=> which = "inputs")
  BY NilIsNoValue
<1>2. \A v \in D : Sizes[v] \in Nat /\ (v # Nil => Sizes[v] > 0) /\ Sizes[Nil] = 0
  <2> SUFFICES ASSUME NEW v \in D
               PROVE  Sizes[v] \in Nat /\ (v # Nil => Sizes[v] > 0) /\ Sizes[Nil] = 0
    OBVIOUS
  <2>1. v # Nil => v \in Values /\ IsFiniteSet(Inside[v])
    BY <1>1, ValuesAssumption
  <2>2. v # Nil => Cardinality(Inside[v]) \in Nat
    BY <2>1, FS_CardinalityType
  <2> QED
    BY <1>1, <2>2 DEF Sizes
<1>3. ASSUME NEW v \in D
      PROVE  /\ PartsIn(D)[v] \subseteq D
             /\ \A part \in PartsIn(D)[v] : Sizes[part] < Sizes[v]
             /\ \A g, h : (\A part \in PartsIn(D)[v] : g[part] = h[part])
                            => Layer(which, g, v) = Layer(which, h, v)
  <2>1. CASE v.type # "table"
    <3>1. PartsIn(D)[v] = {}
      BY <2>1 DEF PartsIn
    <3>2. \A g, h : Layer(which, g, v) = Layer(which, h, v)
      <4> SUFFICES ASSUME NEW g, NEW h PROVE Layer(which, g, v) = Layer(which, h, v)
        OBVIOUS
      <4>1. v \in Values \cup {Nil}
        BY <1>1
      <4> QED
        BY <2>1, <4>1, LayersAlike
    <3> QED
      BY <3>1, <3>2
  <2>2. CASE v.type = "table"
    <3>1. PartsIn(D)[v] = Parts(v) \cup (D \cap {Nil})
      BY <2>2 DEF PartsIn
    <3>2. v \in Tables /\ v # Nil
      BY <1>1, <2>2, NilIsNoValue DEF Tables
    <3>3. \A part \in Parts(v) : part \in Values /\ Sizes[part] < Sizes[v]
      BY <3>2, TableIs
    <3>4. Values \subseteq D
      OBVIOUS
    <3>5. PartsIn(D)[v] \subseteq D
      BY <3>1, <3>3, <3>4
    <3>6. \A part \in PartsIn(D)[v] : Sizes[part] < Sizes[v]
      BY <1>2, <3>1, <3>2, <3>3
    <3>7. \A g, h : (\A part \in PartsIn(D)[v] : g[part] = h[part])
                      => Layer(which, g, v) = Layer(which, h, v)
      <4> SUFFICES ASSUME NEW g, NEW h, \A part \in PartsIn(D)[v] : g[part] = h[part]
                   PROVE  Layer(which, g, v) = Layer(which, h, v)
        OBVIOUS
      <4>1. \A part \in Parts(v) : g[part] = h[part]
        BY <3>1
      <4>2. which = "inputs" => g[Nil] = h[Nil]
        BY <1>1, <3>1
      <4> QED
        BY <1>1, <4>1, <4>2, LayersAlike
    <3> QED
      BY <3>5, <3>6, <3>7
  <2> QED
    BY <2>1, <2>2
<1> QED
  BY <1>2, <1>3 DEF Founded

\* What the functions over values are, layer by layer.
LEMMA Layers ==
  /\ \A v \in Values : lua_value_to_json[v] = OutputsLayer(lua_value_to_json, v)
  /\ \A v \in Values \cup {Nil} :
       lua_value_to_bind_inputs_def[v] = InputsLayer(lua_value_to_bind_inputs_def, v)
  /\ \A v \in Values : Plain[v] = PlainLayer(Plain, v)
  /\ \A v \in Values : Whole[v] = WholeLayer(Whole, v)
  /\ \A v \in Values : Floats[v] = FloatsLayer(Floats, v)
<1>1. \A v \in Values : lua_value_to_json[v] = OutputsLayer(lua_value_to_json, v)
  <2>1. lua_value_to_json = CHOOSE g : g = [v \in Values |-> OutputsLayer(g, v)]
    BY Zenon DEF lua_value_to_json, OutputsLayer
  <2>2. \E g : g = [v \in Values |-> OutputsLayer(g, v)]
    <3>1. PICK g : Solves("outputs", g, Values)
      BY ValuesFounded, SolvedOnAll
    <3>2. g = [v \in Values |-> Layer("outputs", g, v)]
      BY <3>1 DEF Solves
    <3>3. \A v : Layer("outputs", g, v) = OutputsLayer(g, v)
      BY DEF Layer
    <3> QED
      BY <3>2, <3>3, Zenon
  <2>3. lua_value_to_json = [v \in Values |-> OutputsLayer(lua_value_to_json, v)]
    BY <2>1, <2>2, Zenon
  <2> QED
    BY <2>3, Zenon
<1>2. \A v \in Values \cup {Nil} :
        lua_value_to_bind_inputs_def[v] = InputsLayer(lua_value_to_bind_inputs_def, v)
  <2>1. lua_value_to_bind_inputs_def
          = CHOOSE g : g = [v \in Values \cup {Nil} |-> InputsLayer(g, v)]
    BY Zenon DEF lua_value_to_bind_inputs_def, InputsLayer
  <2>2. \E g : g = [v \in Values \cup {Nil} |-> InputsLayer(g, v)]
    <3>1. PICK g : Solves("inputs", g, Values \cup {Nil})
      BY ValuesFounded, SolvedOnAll
    <3>2. g = [v \in Values \cup {Nil} |-> Layer("inputs", g, v)]
      BY <3>1 DEF Solves
    <3>3. \A v : Layer("inputs", g, v) = InputsLayer(g, v)
      BY DEF Layer
    <3> QED
      BY <3>2, <3>3, Zenon
  <2>3. lua_value_to_bind_inputs_def
          = [v \in Values \cup {Nil} |-> InputsLayer(lua_value_to_bind_inputs_def, v)]
    BY <2>1, <2>2, Zenon
  <2> QED
    BY <2>3, Zenon
<1>3. \A v \in Values : Plain[v] = PlainLayer(Plain, v)
  <2>1. Plain = CHOOSE g : g = [v \in Values |-> PlainLayer(g, v)]
    BY Zenon DEF Plain, PlainLayer
  <2>2. \E g : g = [v \in Values |-> PlainLayer(g, v)]
    <3>1. PICK g : Solves("plain", g, Values)
      BY ValuesFounded, SolvedOnAll
    <3>2. g = [v \in Values |-> Layer("plain", g, v)]
      BY <3>1 DEF Solves
    <3>3. \A v : Layer("plain", g, v) = PlainLayer(g, v)
      BY DEF Layer
    <3> QED
      BY <3>2, <3>3, Zenon
  <2>3. Plain = [v \in Values |-> PlainLayer(Plain, v)]
    BY <2>1, <2>2, Zenon
  <2> QED
    BY <2>3, Zenon
<1>4. \A v \in Values : Whole[v] = WholeLayer(Whole, v)
  <2>1. Whole = CHOOSE g : g = [v \in Values |-> WholeLayer(g, v)]
    BY Zenon DEF Whole, WholeLayer
  <2>2. \E g : g = [v \in Values |-> WholeLayer(g, v)]
    <3>1. PICK g : Solves("whole", g, Values)
      BY ValuesFounded, SolvedOnAll
    <3>2. g = [v \in Values |-> Layer("whole", g, v)]
      BY <3>1 DEF Solves
    <3>3. \A v : Layer("whole", g, v) = WholeLayer(g, v)
      BY DEF Layer
    <3> QED
      BY <3>2, <3>3, Zenon
  <2>3. Whole = [v \in Values |-> WholeLayer(Whole, v)]
    BY <2>1, <2>2, Zenon
  <2> QED
    BY <2>3, Zenon
<1>5. \A v \in Values : Floats[v] = FloatsLayer(Floats, v)
  <2>1. Floats = CHOOSE g : g = [v \in Values |-> FloatsLayer(g, v)]
    BY Zenon DEF Floats, FloatsLayer
  <2>2. \E g : g = [v \in Values |-> FloatsLayer(g, v)]
    <3>1. PICK g : Solves("floats", g, Values)
      BY ValuesFounded, SolvedOnAll
    <3>2. g = [v \in Values |-> Layer("floats", g, v)]
      BY <3>1 DEF Solves
    <3>3. \A v : Layer("floats", g, v) = FloatsLayer(g, v)
      BY DEF Layer
    <3> QED
      BY <3>2, <3>3, Zenon
  <2>3. Floats = [v \in Values |-> FloatsLayer(Floats, v)]
    BY <2>1, <2>2, Zenon
  <2> QED
    BY <2>3, Zenon
<1> QED
  BY <1>1, <1>2, <1>3, <1>4, <1>5

\* What an array or an object is made of, unless it was refused.
LEMMA MadeOf ==
  ASSUME NEW parts
  PROVE  /\ \/ Array(parts) = Refused
            \/ Array(parts).type = "array" /\ Array(parts).items = parts
         /\ \/ Object(parts) = Refused
            \/ Object(parts).type = "object" /\ Object(parts).fields = parts
         /\ Array(parts) = Refused <=> \E i \in DOMAIN parts : parts[i] = Refused
         /\ Object(parts) = Refused <=> \E i \in DOMAIN parts : parts[i] = Refused
         /\ Refused.type = "refused"
<1>1. Refused.type = "refused" /\ Nil.type = "nil"
  BY DEF Refused, Nil
<1>2. \A made : made.type # "refused" => made # Refused
  BY <1>1
<1>3. /\ [type |-> "array", items |-> parts].type = "array"
      /\ [type |-> "array", items |-> parts].items = parts
      /\ [type |-> "object", fields |-> parts].type = "object"
      /\ [type |-> "object", fields |-> parts].fields = parts
  OBVIOUS
<1>4. CASE \E i \in DOMAIN parts : parts[i] = Refused
  BY <1>1, <1>4 DEF Array, Object
<1>5. CASE ~\E i \in DOMAIN parts : parts[i] = Refused
  <2>1. Array(parts) = [type |-> "array", items |-> parts]
    BY <1>5 DEF Array
  <2>2. Object(parts) = [type |-> "object", fields |-> parts]
    BY <1>5 DEF Object
  <2> QED
    BY <1>1, <1>2, <1>3, <1>5, <2>1, <2>2
<1> QED
  BY <1>4, <1>5

\* What is in something stored, other than Nil.
PartsOf(j) ==
  CASE j.type = "array" -> {j.items[i] : i \in DOMAIN j.items} \ {Nil}
    [] j.type = "object" -> {j.fields[n] : n \in DOMAIN j.fields} \ {Nil}
    [] OTHER -> {}

\* How something is stored, of the value that is converted.
Conversions(v) == {lua_value_to_json[v], lua_value_to_bind_inputs_def[v]}

\* The fields that are stored of a table are conversions of its parts.
LEMMA ObjectParts ==
  ASSUME NEW v \in Tables, NEW f, f \in {lua_value_to_json, lua_value_to_bind_inputs_def},
         NEW j, j = Object([n \in Texts(v.at) |-> f[At(v.at, n)]]), NEW part \in PartsOf(j)
  PROVE  \E w \in Parts(v) : part \in Conversions(w)
<1> DEFINE fields == [n \in Texts(v.at) |-> f[At(v.at, n)]]
<1>1. j.type = "object" /\ j.fields = fields
  BY MadeOf DEF PartsOf
<1>2. PICK n \in DOMAIN fields : part = fields[n]
  BY <1>1 DEF PartsOf
<1>3. n \in Texts(v.at) /\ part = f[At(v.at, n)]
  BY <1>2
<1>4. At(v.at, n) \in Parts(v)
  BY <1>3, TableIs
<1> QED
  BY <1>3, <1>4 DEF Conversions

\* What is stored in the conversion of a value is the conversion of a part of it.
LEMMA ConvertedParts ==
  ASSUME NEW v \in Values, NEW j, j \in Conversions(v) \/ (v \in Tables /\ j = parse_outputs(v)),
         NEW part \in PartsOf(j)
  PROVE  \E w \in Values : Sizes[w] < Sizes[v] /\ part \in Conversions(w)
<1>1. j.type \in {"array", "object"} /\ part # Nil
  BY DEF PartsOf
<1>2. v.type = "table"
  <2> SUFFICES ASSUME v.type # "table" PROVE FALSE
    OBVIOUS
  <2>1. /\ v.type \in {"scalar", "integer", "number", "infinite", "function"}
        /\ v \notin Tables
    BY ValuesAssumption DEF Tables
  <2>2. OutputsLayer(lua_value_to_json, v) \in {v, Refused}
    BY DEF OutputsLayer
  <2>3. InputsLayer(lua_value_to_bind_inputs_def, v) \in {v, Refused, Number(AsFloat(v.n))}
    BY DEF InputsLayer
  <2>4. j \in {v, Refused, Number(AsFloat(v.n))}
    BY <2>1, <2>2, <2>3, Layers DEF Conversions
  <2>5. Number(AsFloat(v.n)).type = "number"
    BY DEF Number
  <2> QED
    BY <1>1, <2>1, <2>4, <2>5, MadeOf
<1>3. v \in Tables
  BY <1>2 DEF Tables
<1> SUFFICES \E w \in Parts(v) : part \in Conversions(w)
  BY <1>3, TableIs
<1>4. CASE v \in Tables /\ j = parse_outputs(v)
  BY <1>4, ObjectParts DEF parse_outputs
<1>5. CASE j = lua_value_to_json[v]
  <2>1. j = OutputsLayer(lua_value_to_json, v)
    BY <1>5, Layers
  <2>2. CASE IsArray(v.at)
    <3> DEFINE items == [i \in 1 .. max_index(v.at) |->
                  IF Present(v.at, i) THEN lua_value_to_json[v.at[Index(i)]] ELSE Nil]
    <3>1. j = Array(items)
      BY <1>2, <2>1, <2>2 DEF OutputsLayer
    <3>2. j.type = "array" /\ j.items = items
      BY <1>1, <3>1, MadeOf
    <3>3. PICK i \in DOMAIN items : part = items[i]
      BY <3>2 DEF PartsOf
    <3>4. Present(v.at, i) /\ part = lua_value_to_json[v.at[Index(i)]]
      BY <1>1, <3>3
    <3> QED
      BY <1>3, <3>4, TableIs DEF Present, Conversions
  <2>3. CASE ~IsArray(v.at)
    <3>1. j = Object([n \in Texts(v.at) |-> lua_value_to_json[At(v.at, n)]])
      BY <1>2, <2>1, <2>3 DEF OutputsLayer
    <3> QED
      BY <1>3, <3>1, ObjectParts
  <2> QED
    BY <2>2, <2>3
<1>6. CASE j = lua_value_to_bind_inputs_def[v]
  <2>1. j = InputsLayer(lua_value_to_bind_inputs_def, v)
    BY <1>6, Layers
  <2>2. CASE raw_len(v.at) > 0 /\ Present(v.at, 1)
    <3> DEFINE items == [i \in 1 .. raw_len(v.at) |->
                  lua_value_to_bind_inputs_def[IF Present(v.at, i) THEN v.at[Index(i)] ELSE Nil]]
    <3>1. j = Array(items)
      BY <1>2, <2>1, <2>2 DEF InputsLayer
    <3>2. j.type = "array" /\ j.items = items /\ j # Refused
      BY <1>1, <3>1, MadeOf
    <3>3. PICK i \in DOMAIN items : part = items[i]
      BY <3>2 DEF PartsOf
    <3>4. items[i] # Refused
      BY <3>1, <3>2, MadeOf
    <3>5. lua_value_to_bind_inputs_def[Nil] = Refused
      <4>1. InputsLayer(lua_value_to_bind_inputs_def, Nil) = Refused
        BY DEF InputsLayer, Nil
      <4> QED
        BY <4>1, Layers
    <3>6. Present(v.at, i) /\ part = lua_value_to_bind_inputs_def[v.at[Index(i)]]
      BY <3>3, <3>4, <3>5
    <3> QED
      BY <1>3, <3>6, TableIs DEF Present, Conversions
  <2>3. CASE ~(raw_len(v.at) > 0 /\ Present(v.at, 1))
    <3>1. j = Object([n \in Texts(v.at) |-> lua_value_to_bind_inputs_def[At(v.at, n)]])
      BY <1>2, <2>1, <2>3 DEF InputsLayer
    <3> QED
      BY <1>3, <3>1, ObjectParts
  <2> QED
    BY <2>2, <2>3
<1> QED
  BY <1>4, <1>5, <1>6 DEF Conversions

\* Where something stored comes from, by the size of the value.
Origin(j, n) ==
  \/ n = 0 /\ j = Nil
  \/ \E v \in Values :
       /\ Sizes[v] = n
       /\ j \in Conversions(v) \/ (v \in Tables /\ j = parse_outputs(v))
Origins(j) == {n \in Nat : Origin(j, n)}
StoredSizes == [j \in Stored |-> CHOOSE n \in Origins(j) : \A m \in Origins(j) : n <= m]
StoredParts == [j \in Stored |-> PartsOf(j)]

\* Nothing else has the size of Nil.
LEMMA SizesAreNumbers == \A v \in Values : Sizes[v] \in Nat \ {0}
<1> SUFFICES ASSUME NEW v \in Values PROVE Sizes[v] \in Nat \ {0}
  OBVIOUS
<1>1. Cardinality(Inside[v]) \in Nat
  BY ValuesAssumption, FS_CardinalityType
<1> QED
  BY <1>1, NilIsNoValue DEF Sizes

\* What is stored in something comes from less.
LEMMA StoredFounded == Founded("back", Stored, StoredSizes, StoredParts)
<1>1. ASSUME NEW j \in Stored
      PROVE  StoredSizes[j] \in Origins(j) /\ \A m \in Origins(j) : StoredSizes[j] <= m
  <2>1. Origins(j) # {}
    <3>1. CASE j = Nil
      BY <3>1 DEF Origins, Origin
    <3>2. CASE \E v \in Values : j \in Conversions(v) \/ (v \in Tables /\ j = parse_outputs(v))
      BY <3>2, SizesAreNumbers DEF Origins, Origin
    <3> QED
      BY <3>1, <3>2 DEF Stored, Conversions, Tables
  <2>2. \E n \in Origins(j) : \A m \in Origins(j) : n <= m
    BY <2>1, LeastNumber DEF Origins
  <2> QED
    BY <2>2 DEF StoredSizes
<1>2. ASSUME NEW j \in Stored, NEW part \in StoredParts[j]
      PROVE  part \in Stored /\ StoredSizes[part] < StoredSizes[j]
  <2>1. part \in PartsOf(j)
    BY DEF StoredParts
  <2>2. j # Nil
    BY <2>1 DEF PartsOf, Nil
  <2>3. Origin(j, StoredSizes[j])
    BY <1>1 DEF Origins
  <2>4. PICK v \in Values :
          /\ Sizes[v] = StoredSizes[j]
          /\ j \in Conversions(v) \/ (v \in Tables /\ j = parse_outputs(v))
    BY <2>2, <2>3 DEF Origin
  <2>5. PICK w \in Values : Sizes[w] < Sizes[v] /\ part \in Conversions(w)
    BY <2>1, <2>4, ConvertedParts
  <2>6. part \in Stored
    BY <2>5 DEF Stored, Conversions
  <2>7. Sizes[w] \in Origins(part)
    BY <2>5, SizesAreNumbers DEF Origins, Origin
  <2>8. StoredSizes[part] \in Nat /\ StoredSizes[part] <= Sizes[w]
    BY <1>1, <2>6, <2>7 DEF Origins
  <2> QED
    BY <2>4, <2>5, <2>6, <2>8, SizesAreNumbers
<1>3. ASSUME NEW j \in Stored, NEW g, NEW h, \A part \in StoredParts[j] : g[part] = h[part]
      PROVE  Layer("back", g, j) = Layer("back", h, j)
  <2>1. \A part \in PartsOf(j) : g[part] = h[part]
    BY <1>3 DEF StoredParts
  <2>2. BackLayer(g, j) = BackLayer(h, j)
    <3>1. CASE j.type = "array"
      <4> DEFINE Keys == {Index(i) : i \in {n \in DOMAIN j.items : j.items[n] # Nil}}
      <4>1. \A k \in Keys : j.items[k.n] \in PartsOf(j)
        BY <3>1 DEF PartsOf, Index
      <4>2. \A k \in Keys : g[j.items[k.n]] = h[j.items[k.n]]
        BY <2>1, <4>1
      <4>3. [k \in Keys |-> g[j.items[k.n]]] = [k \in Keys |-> h[j.items[k.n]]]
        BY <4>2, Zenon
      <4>4. \A f : BackLayer(f, j) = Table([k \in Keys |-> f[j.items[k.n]]])
        BY <3>1 DEF BackLayer
      <4> QED
        BY <4>3, <4>4, Zenon
    <3>2. CASE j.type = "object"
      <4> DEFINE Keys == {Text(n) : n \in {m \in DOMAIN j.fields : j.fields[m] # Nil}}
      <4>1. \A k \in Keys : j.fields[k.n] \in PartsOf(j)
        BY <3>2 DEF PartsOf, Text
      <4>2. \A k \in Keys : g[j.fields[k.n]] = h[j.fields[k.n]]
        BY <2>1, <4>1
      <4>3. [k \in Keys |-> g[j.fields[k.n]]] = [k \in Keys |-> h[j.fields[k.n]]]
        BY <4>2, Zenon
      <4>4. \A f : BackLayer(f, j) = Table([k \in Keys |-> f[j.fields[k.n]]])
        BY <3>2 DEF BackLayer
      <4> QED
        BY <4>3, <4>4, Zenon
    <3>3. CASE j.type \notin {"array", "object"}
      BY <3>3 DEF BackLayer
    <3> QED
      BY <3>1, <3>2, <3>3
  <2> QED
    BY <2>2 DEF Layer
<1> QED
  BY <1>1, <1>2, <1>3 DEF Founded, Origins

\* What is given back, layer by layer.
LEMMA BackLayers == \A j \in Stored : json_to_lua_value[j] = BackLayer(json_to_lua_value, j)
<1>1. json_to_lua_value = CHOOSE g : g = [j \in Stored |-> BackLayer(g, j)]
  BY Zenon DEF json_to_lua_value, BackLayer
<1>2. \E g : g = [j \in Stored |-> BackLayer(g, j)]
  <2>1. PICK g : Solves("back", g, Stored)
    BY StoredFounded, SolvedOnAll
  <2>2. g = [v \in Stored |-> Layer("back", g, v)]
    BY <2>1 DEF Solves
  <2>3. \A v : Layer("back", g, v) = BackLayer(g, v)
    BY DEF Layer
  <2> QED
    BY <2>2, <2>3, Zenon
<1>3. json_to_lua_value = [j \in Stored |-> BackLayer(json_to_lua_value, j)]
  BY <1>1, <1>2, Zenon
<1> QED
  BY <1>3, Zenon

\* A finite set of keys has one with the greatest number.
LEMMA GreatestKey ==
  ASSUME NEW Keys, IsFiniteSet(Keys), Keys # {}, \A k \in Keys : k.n \in Int
  PROVE  \E k \in Keys : \A l \in Keys : l.n <= k.n
<1> DEFINE Greatest(S) == \E k \in S : \A l \in S : l.n <= k.n
           T == {c \in Nat : \A S \in SUBSET Keys : Cardinality(S) = c + 1 => Greatest(S)}
<1>1. \A S \in SUBSET Keys : IsFiniteSet(S) /\ Cardinality(S) \in Nat
  BY FS_Subset, FS_CardinalityType
<1>2. ASSUME NEW S \in SUBSET Keys, NEW k \in S, S # {k}
      PROVE  /\ S \ {k} # {} /\ S \ {k} \in SUBSET Keys
             /\ Cardinality(S \ {k}) = Cardinality(S) - 1
             /\ Greatest(S \ {k}) => Greatest(S)
  <2>1. S \ {k} # {} /\ S \ {k} \in SUBSET Keys /\ Cardinality(S \ {k}) = Cardinality(S) - 1
    BY <1>1, <1>2, FS_RemoveElement
  <2>2. ASSUME Greatest(S \ {k}) PROVE Greatest(S)
    <3>1. PICK g \in S \ {k} : \A l \in S \ {k} : l.n <= g.n
      BY <2>2
    <3>2. k.n \in Int /\ g.n \in Int /\ \A l \in S : l.n \in Int
      OBVIOUS
    <3>3. CASE k.n <= g.n
      BY <3>1, <3>3
    <3>4. CASE ~(k.n <= g.n)
      <4>1. \A l \in S : l.n <= k.n
        BY <3>1, <3>2, <3>4
      <4> QED
        BY <4>1
    <3> QED
      BY <3>3, <3>4
  <2> QED
    BY <2>1, <2>2
<1>3. 0 \in T
  <2> SUFFICES ASSUME NEW S \in SUBSET Keys, Cardinality(S) = 0 + 1 PROVE Greatest(S)
    OBVIOUS
  <2>1. PICK k : S = {k}
    BY <1>1, 0 + 1 = 1, FS_Singleton
  <2>2. k.n <= k.n
    BY <2>1
  <2> QED
    BY <2>1, <2>2
<1>4. ASSUME NEW c \in Nat, c \in T PROVE c + 1 \in T
  <2> SUFFICES ASSUME NEW S \in SUBSET Keys, Cardinality(S) = c + 1 + 1 PROVE Greatest(S)
    <3>1. c + 1 \in Nat
      OBVIOUS
    <3> QED
      BY <3>1, Zenon
  <2>1. S # {} /\ \A k : S # {k}
    <3>1. IsFiniteSet(S) /\ Cardinality(S) # 0 /\ Cardinality(S) # 1
      BY <1>1
    <3> QED
      BY <3>1, FS_EmptySet, FS_Singleton
  <2>2. PICK k \in S : TRUE
    BY <2>1
  <2>3. S \ {k} \in SUBSET Keys /\ Cardinality(S \ {k}) = c + 1
    BY <1>2, <2>1
  <2>4. Greatest(S \ {k})
    BY <1>4, <2>3
  <2> QED
    BY <1>2, <2>1, <2>4
<1>5. Nat \subseteq T
  <2> HIDE DEF T
  <2> QED
    BY <1>3, <1>4, AllNumbers
<1>6. Cardinality(Keys) - 1 \in Nat
  <2>1. Cardinality(Keys) # 0 /\ Cardinality(Keys) \in Nat
    BY <1>1, FS_EmptySet
  <2> QED
    BY <2>1
<1>7. Greatest(Keys)
  <2>1. Keys \in SUBSET Keys /\ Cardinality(Keys) = (Cardinality(Keys) - 1) + 1
    BY <1>1
  <2>2. Cardinality(Keys) - 1 \in T
    BY <1>5, <1>6
  <2> QED
    BY <2>1, <2>2
<1> QED
  BY <1>7

\* What comes back from something stored.
Returns(v, j) == j \notin {Refused, Nil} /\ json_to_lua_value[j] = v

\* A table whose keys are texts comes back with what its parts come back as.
LEMMA ObjectReturns ==
  ASSUME NEW v \in Tables, Named(v.at), NEW f, NEW to,
         \A part \in Parts(v) : Returns(to[part], f[part]),
         NEW j \in Stored, j = Object([n \in Texts(v.at) |-> f[At(v.at, n)]])
  PROVE  Returns(Table([k \in DOMAIN v.at |-> to[v.at[k]]]), j)
<1> DEFINE fields == [n \in Texts(v.at) |-> f[At(v.at, n)]]
<1>1. \A n \in Texts(v.at) : Returns(to[At(v.at, n)], fields[n])
  BY TableIs
<1>2. j.type = "object" /\ j.fields = fields /\ j \notin {Refused, Nil}
  <2>1. \A n \in DOMAIN fields : fields[n] # Refused
    BY <1>1 DEF Returns
  <2>2. j # Refused
    BY <2>1, MadeOf
  <2> QED
    BY <2>2, MadeOf, NilIsNoValue
<1>3. \A k \in DOMAIN v.at : k = Text(k.n) /\ k.n \in Texts(v.at) /\ At(v.at, k.n) = v.at[k]
  <2>1. \A k \in DOMAIN v.at : k = Text(k.n)
    <3>1. \A n : Index(n).kind = "int"
      BY DEF Index
    <3> QED
      BY <3>1, TableIs DEF Named
  <2>2. \A k, l \in DOMAIN v.at : k.n = l.n => k = l
    BY <2>1, Zenon
  <2>3. ASSUME NEW k \in DOMAIN v.at PROVE At(v.at, k.n) = v.at[k]
    <3>1. (CHOOSE l \in DOMAIN v.at : l.n = k.n) = k
      BY <2>2
    <3> QED
      BY <3>1, Zenon DEF At
  <2> QED
    BY <2>1, <2>3 DEF Texts
<1>4. {Text(n) : n \in {m \in DOMAIN j.fields : j.fields[m] # Nil}} = DOMAIN v.at
  <2>1. {m \in DOMAIN j.fields : j.fields[m] # Nil} = Texts(v.at)
    BY <1>1, <1>2 DEF Returns
  <2>2. {Text(n) : n \in Texts(v.at)} = DOMAIN v.at
    BY <1>3 DEF Texts
  <2> QED
    BY <2>1, <2>2, Zenon
<1>5. \A k \in DOMAIN v.at : json_to_lua_value[j.fields[k.n]] = to[v.at[k]]
  BY <1>1, <1>2, <1>3 DEF Returns
<1>6. json_to_lua_value[j] = Table([k \in DOMAIN v.at |-> json_to_lua_value[j.fields[k.n]]])
  <2>1. BackLayer(json_to_lua_value, j)
          = Table([k \in {Text(n) : n \in {m \in DOMAIN j.fields : j.fields[m] # Nil}} |->
                     json_to_lua_value[j.fields[k.n]]])
    BY <1>2 DEF BackLayer
  <2> QED
    BY <1>4, <2>1, BackLayers, Zenon
<1>7. json_to_lua_value[j] = Table([k \in DOMAIN v.at |-> to[v.at[k]]])
  BY <1>5, <1>6, Zenon
<1> QED
  BY <1>2, <1>7 DEF Returns

\* So does an array, whatever is missing before its last item.
LEMMA ArrayReturns ==
  ASSUME NEW v \in Tables, NEW m \in Int,
         \A k \in DOMAIN v.at : k = Index(k.n) /\ k.n \in 1 .. m,
         NEW f, NEW to, \A part \in Parts(v) : Returns(to[part], f[part]),
         NEW j \in Stored,
         j = Array([i \in 1 .. m |-> IF Present(v.at, i) THEN f[v.at[Index(i)]] ELSE Nil])
  PROVE  Returns(Table([k \in DOMAIN v.at |-> to[v.at[k]]]), j)
<1> DEFINE items == [i \in 1 .. m |-> IF Present(v.at, i) THEN f[v.at[Index(i)]] ELSE Nil]
<1>1. \A k \in DOMAIN v.at : items[k.n] = f[v.at[k]] /\ Returns(to[v.at[k]], items[k.n])
  BY TableIs DEF Present
<1>2. \A i \in 1 .. m : items[i] # Nil <=> Present(v.at, i)
  BY TableIs DEF Present, Returns
<1>3. j.type = "array" /\ j.items = items /\ j \notin {Refused, Nil}
  <2>1. \A i \in DOMAIN items : items[i] # Refused
    <3>1. Nil # Refused
      BY MadeOf, NilIsNoValue
    <3> QED
      BY <3>1, TableIs DEF Present, Returns
  <2>2. j # Refused
    BY <2>1, MadeOf
  <2> QED
    BY <2>2, MadeOf, NilIsNoValue
<1>4. {Index(i) : i \in {n \in DOMAIN j.items : j.items[n] # Nil}} = DOMAIN v.at
  <2>1. {n \in DOMAIN j.items : j.items[n] # Nil} = {i \in 1 .. m : Present(v.at, i)}
    BY <1>2, <1>3
  <2>2. {Index(i) : i \in {n \in 1 .. m : Present(v.at, n)}} = DOMAIN v.at
    BY DEF Present
  <2> QED
    BY <2>1, <2>2, Zenon
<1>5. \A k \in DOMAIN v.at : json_to_lua_value[j.items[k.n]] = to[v.at[k]]
  BY <1>1, <1>3 DEF Returns
<1>6. json_to_lua_value[j] = Table([k \in DOMAIN v.at |-> json_to_lua_value[j.items[k.n]]])
  <2>1. BackLayer(json_to_lua_value, j)
          = Table([k \in {Index(i) : i \in {n \in DOMAIN j.items : j.items[n] # Nil}} |->
                     json_to_lua_value[j.items[k.n]]])
    BY <1>3 DEF BackLayer
  <2> QED
    BY <1>4, <2>1, BackLayers, Zenon
<1>7. json_to_lua_value[j] = Table([k \in DOMAIN v.at |-> to[v.at[k]]])
  BY <1>5, <1>6, Zenon
<1> QED
  BY <1>3, <1>7 DEF Returns

\* A table is the table of its parts, and its floats that of their floats.
Same == [w \in Values |-> w]
LEMMA TablesAgain ==
  ASSUME NEW v \in Tables
  PROVE  /\ \A part \in Parts(v) : Same[part] = part
         /\ Table([k \in DOMAIN v.at |-> Same[v.at[k]]]) = v
         /\ Table([k \in DOMAIN v.at |-> Floats[v.at[k]]]) = Floats[v]
<1>1. \A part \in Parts(v) : Same[part] = part
  BY TableIs DEF Same
<1>2. \A k \in DOMAIN v.at : Same[v.at[k]] = v.at[k]
  BY TableIs DEF Same
<1>3. [k \in DOMAIN v.at |-> v.at[k]] = [k \in DOMAIN v.at |-> Same[v.at[k]]]
  BY <1>2, Zenon
<1>4. v = Table([k \in DOMAIN v.at |-> v.at[k]])
  BY TableIs
<1>5. v = Table([k \in DOMAIN v.at |-> Same[v.at[k]]])
  BY <1>3, <1>4, Zenon
<1>6. v \in Values /\ v.type = "table"
  BY TableIs
<1>7. Floats[v] = FloatsLayer(Floats, v)
  BY <1>6, Layers
<1>8. FloatsLayer(Floats, v) = Table([k \in DOMAIN v.at |-> Floats[v.at[k]]])
  BY <1>6 DEF FloatsLayer
<1> QED
  BY <1>1, <1>5, <1>7, <1>8, Zenon

\* What a condition on every level says of a table.
LEMMA PlainTables ==
  \A v \in Tables :
    Plain[v] <=> /\ Named(v.at) \/ IsArray(v.at)
                 /\ \A part \in Parts(v) : Plain[part]
<1> SUFFICES ASSUME NEW v \in Tables
             PROVE  Plain[v] <=> /\ Named(v.at) \/ IsArray(v.at)
                                 /\ \A part \in Parts(v) : Plain[part]
  OBVIOUS
<1>1. v \in Values /\ v.type = "table"
  BY TableIs
<1>2. Plain[v] = PlainLayer(Plain, v)
  BY <1>1, Layers
<1>3. PlainLayer(Plain, v)
        = ((Named(v.at) \/ IsArray(v.at)) /\ \A k \in DOMAIN v.at : Plain[v.at[k]])
  BY <1>1 DEF PlainLayer
<1>4. (\A k \in DOMAIN v.at : Plain[v.at[k]]) <=> (\A part \in Parts(v) : Plain[part])
  BY Zenon DEF Parts
<1> QED
  BY <1>2, <1>3, <1>4, Zenon

\* The same of tables without gaps.
LEMMA WholeTables ==
  \A v \in Tables :
    Whole[v] <=> /\ Named(v.at) \/ \A k \in DOMAIN v.at : k.n = 1 \/ Present(v.at, k.n - 1)
                 /\ \A part \in Parts(v) : Whole[part]
<1> SUFFICES ASSUME NEW v \in Tables
             PROVE  Whole[v] <=>
                      /\ Named(v.at) \/ \A k \in DOMAIN v.at : k.n = 1 \/ Present(v.at, k.n - 1)
                      /\ \A part \in Parts(v) : Whole[part]
  OBVIOUS
<1>1. v \in Values /\ v.type = "table"
  BY TableIs
<1>2. Whole[v] = WholeLayer(Whole, v)
  BY <1>1, Layers
<1>3. WholeLayer(Whole, v)
        = (/\ Named(v.at) \/ \A k \in DOMAIN v.at : k.n = 1 \/ Present(v.at, k.n - 1)
           /\ \A k \in DOMAIN v.at : Whole[v.at[k]])
  BY <1>1 DEF WholeLayer
<1>4. (\A k \in DOMAIN v.at : Whole[v.at[k]]) <=> (\A part \in Parts(v) : Whole[part])
  BY Zenon DEF Parts
<1> QED
  BY <1>2, <1>3, <1>4, Zenon

\* The keys of an array go up to the greatest of them.
LEMMA ArrayKeys ==
  ASSUME NEW v \in Tables, IsArray(v.at)
  PROVE  /\ max_index(v.at) \in Int /\ Present(v.at, max_index(v.at))
         /\ \A k \in DOMAIN v.at : k = Index(k.n) /\ k.n \in 1 .. max_index(v.at)
         /\ ~Named(v.at)
<1>1. \A k \in DOMAIN v.at : k = Index(k.n) /\ k.n \in Int /\ k.n > 0
  <2>1. \A n : Text(n).kind = "text"
    BY DEF Text
  <2> QED
    BY <2>1, TableIs DEF IsArray
<1>2. PICK g \in DOMAIN v.at : \A l \in DOMAIN v.at : l.n <= g.n
  BY TableIs, GreatestKey DEF IsArray
<1>3. \E n \in Texts(v.at) : \A m \in Texts(v.at) : m <= n
  BY <1>2 DEF Texts
<1>4. /\ max_index(v.at) \in Texts(v.at)
      /\ \A m \in Texts(v.at) : m <= max_index(v.at)
  BY <1>3 DEF max_index
<1>5. PICK k \in DOMAIN v.at : max_index(v.at) = k.n
  BY <1>4 DEF Texts
<1>6. max_index(v.at) \in Int /\ Present(v.at, max_index(v.at))
  BY <1>1, <1>5 DEF Present
<1>7. \A l \in DOMAIN v.at : l.n <= max_index(v.at)
  BY <1>4 DEF Texts
<1>8. ~Named(v.at)
  BY DEF IsArray, Named
<1> QED
  BY <1>1, <1>6, <1>7, <1>8

\* What is no table is given back as it is stored.
LEMMA ScalarBack ==
  ASSUME NEW j \in Stored, j.type \in {"scalar", "integer", "number"}
  PROVE  Returns(j, j)
<1>1. j \notin {Nil, Refused}
  BY NilIsNoValue, MadeOf
<1>2. BackLayer(json_to_lua_value, j) = j
  BY DEF BackLayer
<1> QED
  BY <1>1, <1>2, BackLayers DEF Returns

\* An integer that is a float, too, is turned into that.
LEMMA ExactIntegers == \A n : IsExact(n) => AsFloat(n) = n
BY DEF AsFloat

\* Texts, truth values and numbers are stored as they are, but for the integers of
\* inputs.
LEMMA ScalarReturns ==
  ASSUME NEW v \in Values, v.type # "table", Plain[v]
  PROVE  /\ Returns(v, lua_value_to_json[v])
         /\ Whole[v] => Returns(Floats[v], lua_value_to_bind_inputs_def[v])
<1>1. v.type \in {"scalar", "integer", "number"}
  <2>1. PlainLayer(Plain, v) = (v.type \notin {"infinite", "function"})
    BY DEF PlainLayer
  <2> QED
    BY <2>1, Layers, ValuesAssumption
<1>2. lua_value_to_json[v] \in Stored /\ lua_value_to_bind_inputs_def[v] \in Stored
  BY DEF Stored
<1>3. Returns(v, lua_value_to_json[v])
  <2>1. OutputsLayer(lua_value_to_json, v) = v
    BY <1>1 DEF OutputsLayer
  <2> QED
    BY <1>1, <1>2, <2>1, Layers, ScalarBack
<1>4. ASSUME Whole[v] PROVE Returns(Floats[v], lua_value_to_bind_inputs_def[v])
  <2>1. CASE v.type = "integer"
    <3>1. IsExact(v.n)
      <4>1. WholeLayer(Whole, v) = IsExact(v.n)
        BY <2>1 DEF WholeLayer
      <4> QED
        BY <1>4, <4>1, Layers
    <3>2. AsFloat(v.n) = v.n
      BY <3>1, ExactIntegers
    <3>3. InputsLayer(lua_value_to_bind_inputs_def, v) = Number(AsFloat(v.n))
      BY <2>1 DEF InputsLayer
    <3>4. FloatsLayer(Floats, v) = Number(v.n)
      BY <2>1 DEF FloatsLayer
    <3>5. lua_value_to_bind_inputs_def[v] = Number(v.n) /\ Floats[v] = Number(v.n)
      BY <3>2, <3>3, <3>4, Layers
    <3>6. Number(v.n).type = "number"
      BY DEF Number
    <3> QED
      BY <1>2, <3>5, <3>6, ScalarBack
  <2>2. CASE v.type # "integer"
    <3>1. InputsLayer(lua_value_to_bind_inputs_def, v) = v /\ FloatsLayer(Floats, v) = v
      BY <1>1, <2>2 DEF InputsLayer, FloatsLayer
    <3> QED
      BY <1>1, <1>2, <3>1, Layers, ScalarBack
  <2> QED
    BY <2>1, <2>2
<1> QED
  BY <1>3, <1>4

\* A plain value comes back from the outputs.
LEMMA OutputsReturn == \A v \in Values : Plain[v] => Returns(v, lua_value_to_json[v])
<1> DEFINE T == {n \in Nat : \A v \in Values :
                               Sizes[v] < n /\ Plain[v] => Returns(v, lua_value_to_json[v])}
<1>1. 0 \in T
  BY SizesAreNumbers
<1>2. ASSUME NEW n \in Nat, n \in T PROVE n + 1 \in T
  <2> SUFFICES ASSUME NEW v \in Values, Sizes[v] < n + 1, Plain[v]
               PROVE  Returns(v, lua_value_to_json[v])
    OBVIOUS
  <2>1. CASE v.type # "table"
    BY <2>1, ScalarReturns
  <2>2. CASE v.type = "table"
    <3>1. v \in Tables
      BY <2>2 DEF Tables
    <3>2. Named(v.at) \/ IsArray(v.at)
      BY <3>1, PlainTables
    <3>3. \A part \in Parts(v) : Returns(Same[part], lua_value_to_json[part])
      <4> SUFFICES ASSUME NEW part \in Parts(v) PROVE Returns(part, lua_value_to_json[part])
        BY <3>1, TablesAgain
      <4>1. part \in Values /\ Sizes[part] < Sizes[v] /\ Plain[part]
        BY <3>1, PlainTables, TableIs
      <4>2. Sizes[part] < n
        BY <4>1, SizesAreNumbers
      <4> QED
        BY <1>2, <4>1, <4>2
    <3>4. /\ lua_value_to_json[v] = OutputsLayer(lua_value_to_json, v)
          /\ lua_value_to_json[v] \in Stored
      BY Layers DEF Stored
    <3>5. CASE IsArray(v.at)
      <4>1. OutputsLayer(lua_value_to_json, v)
              = Array([i \in 1 .. max_index(v.at) |->
                         IF Present(v.at, i) THEN lua_value_to_json[v.at[Index(i)]] ELSE Nil])
        BY <2>2, <3>5 DEF OutputsLayer
      <4>2. Returns(Table([k \in DOMAIN v.at |-> Same[v.at[k]]]), lua_value_to_json[v])
        BY <3>1, <3>3, <3>4, <3>5, <4>1, ArrayKeys, ArrayReturns
      <4> QED
        BY <3>1, <4>2, TablesAgain, Zenon
    <3>6. CASE ~IsArray(v.at)
      <4>1. OutputsLayer(lua_value_to_json, v)
              = Object([k \in Texts(v.at) |-> lua_value_to_json[At(v.at, k)]])
        BY <2>2, <3>6 DEF OutputsLayer
      <4>2. Returns(Table([k \in DOMAIN v.at |-> Same[v.at[k]]]), lua_value_to_json[v])
        BY <3>1, <3>2, <3>3, <3>4, <3>6, <4>1, ObjectReturns
      <4> QED
        BY <3>1, <4>2, TablesAgain, Zenon
    <3> QED
      BY <3>5, <3>6
  <2> QED
    BY <2>1, <2>2
<1>3. Nat \subseteq T
  <2> HIDE DEF T
  <2> QED
    BY <1>1, <1>2, AllNumbers
<1>4. ASSUME NEW v \in Values, Plain[v] PROVE Returns(v, lua_value_to_json[v])
  <2>1. Sizes[v] + 1 \in T /\ Sizes[v] < Sizes[v] + 1
    BY <1>3, SizesAreNumbers
  <2> QED
    BY <1>4, <2>1
<1> QED
  BY <1>4

\* No outputs are lost.
LEMMA NoOutputsLost == LostOutputs = {}
<1> SUFFICES ASSUME NEW v \in Tables, Named(v.at), Plain[v]
             PROVE  json_to_lua_value[parse_outputs(v)] = v
  BY DEF LostOutputs
<1>1. \A part \in Parts(v) : Returns(Same[part], lua_value_to_json[part])
  <2>1. \A part \in Parts(v) : Returns(part, lua_value_to_json[part])
    BY PlainTables, TableIs, OutputsReturn
  <2> QED
    BY <2>1, TablesAgain, Zenon
<1>2. parse_outputs(v) \in Stored
  BY DEF Stored
<1>3. parse_outputs(v) = Object([n \in Texts(v.at) |-> lua_value_to_json[At(v.at, n)]])
  BY DEF parse_outputs
<1>4. Returns(Table([k \in DOMAIN v.at |-> Same[v.at[k]]]), parse_outputs(v))
  BY <1>1, <1>2, <1>3, ObjectReturns
<1>5. Returns(v, parse_outputs(v))
  BY <1>4, TablesAgain
<1> QED
  BY <1>5 DEF Returns

\* Without gaps, every index up to the greatest is there, and it is the length.
LEMMA WholeArrays ==
  ASSUME NEW v \in Tables, IsArray(v.at),
         \A k \in DOMAIN v.at : k.n = 1 \/ Present(v.at, k.n - 1)
  PROVE  /\ raw_len(v.at) = max_index(v.at) /\ max_index(v.at) > 0
         /\ \A i \in 1 .. max_index(v.at) : Present(v.at, i)
<1> DEFINE m == max_index(v.at)
           T == {d \in Nat : m - d > 0 => Present(v.at, m - d)}
<1>1. /\ m \in Int /\ Present(v.at, m) /\ m > 0
      /\ \A k \in DOMAIN v.at : k = Index(k.n) /\ k.n \in 1 .. m
  <2>1. Index(m).n = m
    BY DEF Index
  <2> QED
    BY <2>1, ArrayKeys DEF Present
<1>2. \A i : Present(v.at, i) => i \in 1 .. m /\ (i = 1 \/ Present(v.at, i - 1))
  <2>1. \A i : Index(i).n = i
    BY DEF Index
  <2> QED
    BY <1>1, <2>1 DEF Present
<1> HIDE DEF m
<1>3. 0 \in T
  BY <1>1
<1>4. ASSUME NEW d \in Nat, d \in T PROVE d + 1 \in T
  <2> SUFFICES ASSUME m - (d + 1) > 0 PROVE Present(v.at, m - (d + 1))
    OBVIOUS
  <2>1. m - d > 0 /\ m - d # 1 /\ m - d - 1 = m - (d + 1)
    BY <1>1
  <2> QED
    BY <1>2, <1>4, <2>1
<1>5. Nat \subseteq T
  <2> HIDE DEF T
  <2> QED
    BY <1>3, <1>4, AllNumbers
<1>6. \A i \in 1 .. m : Present(v.at, i)
  <2> SUFFICES ASSUME NEW i \in 1 .. m PROVE Present(v.at, i)
    OBVIOUS
  <2>1. m - i \in Nat /\ m - (m - i) = i /\ i > 0
    BY <1>1
  <2> QED
    BY <1>5, <2>1
<1>7. raw_len(v.at) = m
  <2> DEFINE EndsAt(n) == (n = 0 \/ Present(v.at, n)) /\ ~Present(v.at, n + 1)
  <2>1. m \in Texts(v.at)
    <3>1. Index(m).n = m
      BY DEF Index
    <3> QED
      BY <1>1, <3>1 DEF Present, Texts
  <2>2. EndsAt(m)
    <3>1. m + 1 \notin 1 .. m
      BY <1>1
    <3> QED
      BY <1>1, <1>2, <3>1
  <2>3. ASSUME NEW n, EndsAt(n) PROVE n = m
    <3>1. n \in Int /\ n + 1 \notin 1 .. m /\ n >= 0 /\ n <= m
      BY <1>1, <1>2, <1>6, <2>3
    <3> QED
      BY <1>1, <3>1
  <2>4. raw_len(v.at) = CHOOSE n \in {0} \cup Texts(v.at) : EndsAt(n)
    BY DEF raw_len
  <2> HIDE DEF EndsAt
  <2> QED
    BY <2>1, <2>2, <2>3, <2>4
<1> QED
  BY <1>1, <1>6, <1>7 DEF m

\* A plain value without gaps comes back from the inputs, with floats.
LEMMA InputsReturn ==
  \A v \in Values : Plain[v] /\ Whole[v] => Returns(Floats[v], lua_value_to_bind_inputs_def[v])
<1> DEFINE T == {n \in Nat : \A v \in Values :
                   Sizes[v] < n /\ Plain[v] /\ Whole[v]
                     => Returns(Floats[v], lua_value_to_bind_inputs_def[v])}
<1>1. 0 \in T
  BY SizesAreNumbers
<1>2. ASSUME NEW n \in Nat, n \in T PROVE n + 1 \in T
  <2> SUFFICES ASSUME NEW v \in Values, Sizes[v] < n + 1, Plain[v], Whole[v]
               PROVE  Returns(Floats[v], lua_value_to_bind_inputs_def[v])
    OBVIOUS
  <2>1. CASE v.type # "table"
    BY <2>1, ScalarReturns
  <2>2. CASE v.type = "table"
    <3>1. v \in Tables
      BY <2>2 DEF Tables
    <3>2. Named(v.at) \/ IsArray(v.at)
      BY <3>1, PlainTables
    <3>3. \A part \in Parts(v) : Returns(Floats[part], lua_value_to_bind_inputs_def[part])
      <4> SUFFICES ASSUME NEW part \in Parts(v)
                   PROVE  Returns(Floats[part], lua_value_to_bind_inputs_def[part])
        OBVIOUS
      <4>1. part \in Values /\ Sizes[part] < Sizes[v] /\ Plain[part] /\ Whole[part]
        BY <3>1, PlainTables, WholeTables, TableIs
      <4>2. Sizes[part] < n
        BY <4>1, SizesAreNumbers
      <4> QED
        BY <1>2, <4>1, <4>2
    <3>4. /\ lua_value_to_bind_inputs_def[v] = InputsLayer(lua_value_to_bind_inputs_def, v)
          /\ lua_value_to_bind_inputs_def[v] \in Stored
      BY Layers DEF Stored
    <3>5. CASE IsArray(v.at)
      <4>1. /\ raw_len(v.at) = max_index(v.at) /\ max_index(v.at) > 0
            /\ \A i \in 1 .. max_index(v.at) : Present(v.at, i)
            /\ max_index(v.at) \in Int
            /\ \A k \in DOMAIN v.at : k = Index(k.n) /\ k.n \in 1 .. max_index(v.at)
        BY <3>1, <3>5, ArrayKeys, WholeTables, WholeArrays
      <4>2. Present(v.at, 1)
        BY <4>1
      <4>3. InputsLayer(lua_value_to_bind_inputs_def, v)
              = Array([i \in 1 .. max_index(v.at) |->
                  lua_value_to_bind_inputs_def[IF Present(v.at, i) THEN v.at[Index(i)] ELSE Nil]])
        BY <2>2, <4>1, <4>2 DEF InputsLayer
      <4>4. [i \in 1 .. max_index(v.at) |->
               lua_value_to_bind_inputs_def[IF Present(v.at, i) THEN v.at[Index(i)] ELSE Nil]]
              = [i \in 1 .. max_index(v.at) |->
                   IF Present(v.at, i) THEN lua_value_to_bind_inputs_def[v.at[Index(i)]] ELSE Nil]
        BY <4>1
      <4>5. lua_value_to_bind_inputs_def[v]
              = Array([i \in 1 .. max_index(v.at) |->
                   IF Present(v.at, i) THEN lua_value_to_bind_inputs_def[v.at[Index(i)]] ELSE Nil])
        BY <3>4, <4>3, <4>4, Zenon
      <4>6. Returns(Table([k \in DOMAIN v.at |-> Floats[v.at[k]]]),
                    lua_value_to_bind_inputs_def[v])
        BY <3>1, <3>3, <3>4, <4>1, <4>5, ArrayReturns
      <4> QED
        BY <3>1, <4>6, TablesAgain, Zenon
    <3>6. CASE Named(v.at)
      <4>1. \A i : ~Present(v.at, i)
        <5>1. \A i : Index(i).kind = "int"
          BY DEF Index
        <5> QED
          BY <3>6, <5>1 DEF Present, Named
      <4>2. InputsLayer(lua_value_to_bind_inputs_def, v)
              = Object([k \in Texts(v.at) |-> lua_value_to_bind_inputs_def[At(v.at, k)]])
        BY <2>2, <4>1 DEF InputsLayer
      <4>3. Returns(Table([k \in DOMAIN v.at |-> Floats[v.at[k]]]),
                    lua_value_to_bind_inputs_def[v])
        BY <3>1, <3>3, <3>4, <3>6, <4>2, ObjectReturns
      <4> QED
        BY <3>1, <4>3, TablesAgain, Zenon
    <3> QED
      BY <3>2, <3>5, <3>6
  <2> QED
    BY <2>1, <2>2
<1>3. Nat \subseteq T
  <2> HIDE DEF T
  <2> QED
    BY <1>1, <1>2, AllNumbers
<1>4. ASSUME NEW v \in Values, Plain[v], Whole[v]
      PROVE  Returns(Floats[v], lua_value_to_bind_inputs_def[v])
  <2>1. Sizes[v] + 1 \in T /\ Sizes[v] < Sizes[v] + 1
    BY <1>3, SizesAreNumbers
  <2> QED
    BY <1>4, <2>1
<1> QED
  BY <1>4

\* No inputs are lost.
LEMMA NoInputsLost == LostInputs = {}
BY InputsReturn DEF LostInputs, Returns

-----------------------------------------------------------------------------
(* The calls under way                                                     *)

\* The call that runs is a frame, and those that wait for it are, too.
LEMMA TopAndPopped ==
  ASSUME StackInv, stack # Empty
  PROVE  /\ Len(stack) \in Nat \ {0} /\ Top \in Frames
         /\ Popped \in Seq(Frames) /\ Len(Popped) = Len(stack) - 1
<1>1. stack \in Seq(Frames) /\ Len(stack) \in Nat \ {0}
  BY EmptySeq DEF StackInv, Empty
<1>2. Top \in Frames
  BY <1>1, ElementOfSeq DEF Top
<1>3. \A i \in 1 .. Len(stack) - 1 : stack[i] \in Frames
  BY <1>1, ElementOfSeq
<1>4. Popped \in Seq(Frames) /\ Len(Popped) = Len(stack) - 1
  <2> DEFINE n == Len(stack) - 1
  <2>1. n \in Nat
    BY <1>1
  <2>2. \A i \in 1 .. n : stack[i] \in Frames
    BY <1>3
  <2> HIDE DEF n
  <2>3. /\ SubSeq(stack, 1, n) \in Seq(Frames)
        /\ Len(SubSeq(stack, 1, n)) = IF 1 <= n THEN n - 1 + 1 ELSE 0
    BY <2>1, <2>2, SubSeqProperties
  <2>4. Len(SubSeq(stack, 1, n)) = n
    BY <2>1, <2>3
  <2> QED
    BY <2>3, <2>4 DEF Popped, n
<1> QED
  BY <1>1, <1>2, <1>4

\* A call leaves the others as they are.
LEMMA PopStack ==
  ASSUME IInv, stack # Empty, stack' = Popped, handles \subseteq handles', UNCHANGED code
  PROVE  StackInv'
<1>1. /\ Len(stack) \in Nat \ {0}
      /\ Popped \in Seq(Frames) /\ Len(Popped) = Len(stack) - 1
  BY TopAndPopped DEF IInv
<1>2. Frames \subseteq Frames'
  BY DEF Frames
<1>3. Popped \in Seq(Frames')
  BY <1>1, <1>2, SeqMonotonic
<1>4. Running' /\ Len(stack) <= MaxDepth
  BY DEF IInv, StackInv, Running, code
<1> QED
  BY <1>1, <1>3, <1>4, BoundsAssumption DEF StackInv

LEMMA CallStep ==
  ASSUME IInv, Call
  PROVE  StackInv' /\ calls' \in 0 .. MaxCalls
<1>1. stack \in Seq(Frames) /\ Len(stack) \in Nat
  BY LenProperties DEF IInv, StackInv
<1>2. PICK spec \in Specs : stack' = Append(stack, spec)
  BY DEF Call
<1>3. spec \in Frames
  BY DEF Specs, Frames, Kind
<1>4. stack' \in Seq(Frames) /\ Len(stack') = Len(stack) + 1
  BY <1>1, <1>2, <1>3, AppendProperties
<1>5. Running' /\ handles' = handles /\ Len(stack) < MaxDepth
  BY DEF Call, Running, code
<1>6. calls' \in 0 .. MaxCalls
  BY BoundsAssumption DEF Call, IInv
<1> QED
  BY <1>1, <1>4, <1>5, <1>6, BoundsAssumption DEF StackInv, Frames

LEMMA TakeInputsStep ==
  ASSUME IInv, TakeInputs
  PROVE  StackInv'
<1>1. /\ Len(stack) \in Nat \ {0} /\ Top \in Frames
      /\ Popped \in Seq(Frames) /\ Len(Popped) = Len(stack) - 1
  BY TopAndPopped DEF IInv, TakeInputs
<1>2. PICK refs \in SUBSET Referable(Top.kind) :
        stack' = Append(Popped, [Top EXCEPT !.refs = refs, !.stage = "create"])
  BY DEF TakeInputs
<1>3. refs \in SUBSET handles
  BY DEF Referable
<1>4. [Top EXCEPT !.refs = refs, !.stage = "create"] \in Frames
  BY <1>1, <1>3 DEF Frames
<1>5. stack' \in Seq(Frames) /\ Len(stack') = Len(stack)
  BY <1>1, <1>2, <1>4, AppendProperties
<1>6. Running' /\ handles' = handles /\ Len(stack) <= MaxDepth
  BY DEF TakeInputs, Running, code, IInv, StackInv
<1> QED
  BY <1>5, <1>6 DEF StackInv, Frames

-----------------------------------------------------------------------------
(* The manifest                                                            *)

\* The hash of a definition says all of it but its check.
LEMMA HashFields ==
  ASSUME NEW d, NEW e, HashOf(d) = HashOf(e)
  PROVE  /\ d.kind = e.kind /\ d.id = e.id /\ d.refs = e.refs /\ d.uses = e.uses
         /\ d.content = e.content
BY DEF HashOf

\* A step that leaves the manifest and its hashes alone.
LEMMA ManifestSame ==
  ASSUME IInv, UNCHANGED <<manifest, handles, ghosts>>
  PROVE  ManifestInv' /\ LastInv'
BY DEF IInv, ManifestInv, LastInv, LastWins, Hashes, HashOf, Definitions, ghosts

\* A definition is made of what the call was given.
LEMMA MadeType ==
  ASSUME IInv, stack # Empty, NEW def \in Made(Top)
  PROVE  def \in Definitions
<1>1. Top \in Frames
  BY TopAndPopped DEF IInv
<1> QED
  BY <1>1 DEF Made, Frames, Definitions

\* The manifest after a definition has been registered: what was there and is
\* not replaced, and the definition, if its hash was new.
LEMMA RegisterManifest ==
  ASSUME IInv, NEW def \in Definitions, NEW replace \in BOOLEAN,
         Register(def, replace), Noted(def, replace)
  PROVE  ManifestInv'
<1>1. /\ manifest \subseteq Definitions
      /\ Hashes(manifest) \subseteq handles
      /\ handles \subseteq Hashes(manifest) \cup replaced
  BY DEF IInv, ManifestInv
<1>2. handles' = handles \cup {HashOf(def)} /\ manifest' \subseteq manifest \cup {def}
  BY DEF Register
<1>3. manifest' \subseteq Definitions'
  <2>1. Definitions \subseteq Definitions'
    BY <1>2 DEF Definitions
  <2> QED
    BY <1>1, <1>2, <2>1
<1>4. Hashes(manifest)' \subseteq handles'
  BY <1>1, <1>2 DEF Hashes
<1>5. handles' \subseteq (Hashes(manifest) \cup replaced)'
  <2>1. CASE Known(def)
    <3>1. manifest' = manifest /\ HashOf(def) \in Hashes(manifest) /\ replaced' = replaced
      BY <2>1 DEF Register, Known, Noted
    <3> QED
      BY <1>1, <1>2, <3>1 DEF Hashes
  <2>2. CASE ~Known(def)
    <3>1. manifest' = (manifest \ Existing(def)) \cup {def}
      BY <2>2 DEF Register
    <3>2. ASSUME NEW d \in Existing(def)
          PROVE  HashOf(d) \in replaced'
      <4>1. d \in manifest /\ HashOf(d).kind = def.kind /\ HashOf(d).id = def.id /\ def.id # NoId
        BY DEF Existing, HashOf
      <4>2. replace
        BY <2>2, <3>2 DEF Register, Collides
      <4> QED
        BY <2>2, <4>1, <4>2 DEF Noted, Hashes
    <3>3. replaced \subseteq replaced'
      BY DEF Noted
    <3>4. HashOf(def) \in Hashes(manifest)'
      BY <3>1 DEF Hashes
    <3>5. \A d \in manifest : HashOf(d) \in (Hashes(manifest) \cup replaced)'
      BY <3>1, <3>2 DEF Hashes
    <3> QED
      BY <1>1, <1>2, <3>3, <3>4, <3>5 DEF Hashes
  <2> QED
    BY <2>1, <2>2
<1>6. \A d, e \in manifest' : HashOf(d) = HashOf(e) => d = e
  <2>1. \A d, e \in manifest : HashOf(d) = HashOf(e) => d = e
    BY DEF IInv, ManifestInv
  <2>2. CASE Known(def)
    BY <2>1, <2>2 DEF Register
  <2>3. CASE ~Known(def)
    <3>1. \A d \in manifest : HashOf(d) # HashOf(def)
      BY <2>3 DEF Known, Hashes
    <3> QED
      BY <1>2, <2>1, <3>1
  <2> QED
    BY <2>2, <2>3
<1>7. \A d, e \in manifest' : d.kind = e.kind /\ d.id = e.id /\ d.id # NoId => d = e
  <2>1. \A d, e \in manifest : d.kind = e.kind /\ d.id = e.id /\ d.id # NoId => d = e
    BY DEF IInv, ManifestInv
  <2>2. CASE Known(def)
    BY <2>1, <2>2 DEF Register
  <2>3. CASE ~Known(def)
    BY <2>1, <2>3 DEF Register, Existing
  <2> QED
    BY <2>2, <2>3
<1> QED
  BY <1>3, <1>4, <1>5, <1>6, <1>7 DEF ManifestInv, Hashes, HashOf

\* The definitions of a kind and an id have one hash, the last that came of it.
LastOf(k) == {HashOf(d) : d \in {e \in manifest : <<e.kind, e.id>> = k}}

\* A definition that is registered is the only one of its kind and id, and
\* disturbs no other.
LEMMA RegisterLast ==
  ASSUME IInv, NEW def \in Definitions, NEW replace \in BOOLEAN,
         Register(def, replace), Noted(def, replace)
  PROVE  LastInv'
<1>1. /\ \A k \in DOMAIN last : LastOf(k) = {last[k]} /\ k[2] # NoId
      /\ \A d, e \in manifest : d.kind = e.kind /\ d.id = e.id /\ d.id # NoId => d = e
  BY DEF IInv, LastInv, LastWins, LastOf, ManifestInv
<1> DEFINE own == <<def.kind, def.id>>
<1>2. ASSUME NEW k, k # own
      PROVE  LastOf(k)' = LastOf(k)
  <2>1. \A d \in Existing(def) : <<d.kind, d.id>> = own
    BY DEF Existing
  <2>2. <<def.kind, def.id>> # k
    BY <1>2
  <2>3. \A e : <<e.kind, e.id>> = k => (e \in manifest' <=> e \in manifest)
    BY <1>2, <2>1, <2>2 DEF Register
  <2> QED
    BY <2>3 DEF LastOf, HashOf
<1>3. ASSUME def.id # NoId
      PROVE  LastOf(own)' = {HashOf(def)}
  <2>1. CASE Known(def)
    <3>1. manifest' = manifest
      BY <2>1 DEF Register
    <3>2. PICK d \in manifest : HashOf(d) = HashOf(def)
      BY <2>1 DEF Known, Hashes
    <3>3. d.kind = def.kind /\ d.id = def.id
      BY <3>2, HashFields
    <3>4. \A e \in manifest : <<e.kind, e.id>> = own => e = d
      BY <1>1, <1>3, <3>3
    <3>5. <<d.kind, d.id>> = own
      BY <3>3
    <3> QED
      BY <3>1, <3>2, <3>4, <3>5 DEF LastOf, HashOf
  <2>2. CASE ~Known(def)
    <3>1. manifest' = (manifest \ Existing(def)) \cup {def}
      BY <2>2 DEF Register
    <3>2. \A e \in manifest' : <<e.kind, e.id>> = own => e = def
      BY <1>3, <3>1 DEF Existing
    <3>3. def \in manifest' /\ <<def.kind, def.id>> = own
      BY <3>1
    <3> QED
      BY <3>2, <3>3 DEF LastOf, HashOf
  <2> QED
    BY <2>1, <2>2
<1>4. \A k \in DOMAIN last' : LastOf(k)' = {last'[k]} /\ k[2] # NoId
  <2>1. CASE def.id = NoId
    <3>1. last' = last
      BY <2>1 DEF Noted
    <3>2. own[2] = NoId
      BY <2>1
    <3>3. \A k \in DOMAIN last : k # own
      BY <1>1, <3>2
    <3> QED
      BY <1>1, <1>2, <3>1, <3>3
  <2>2. CASE def.id # NoId
    <3>1. last' = [k \in DOMAIN last \cup {own} |-> IF k = own THEN HashOf(def) ELSE last[k]]
      BY <2>2 DEF Noted
    <3>2. own[2] # NoId
      BY <2>2
    <3>3. ASSUME NEW k \in DOMAIN last'
          PROVE  LastOf(k)' = {last'[k]} /\ k[2] # NoId
      <4>1. CASE k = own
        <5>1. last'[own] = HashOf(def)
          BY <3>1
        <5>2. LastOf(own)' = {last'[own]}
          BY <1>3, <2>2, <5>1
        <5> QED
          BY <3>2, <4>1, <5>2
      <4>2. CASE k # own
        <5>1. k \in DOMAIN last /\ last'[k] = last[k]
          BY <3>1, <3>3, <4>2
        <5> QED
          BY <1>1, <1>2, <4>2, <5>1
      <4> QED
        BY <4>1, <4>2
    <3> QED
      BY <3>3
  <2> QED
    BY <2>1, <2>2
<1> QED
  BY <1>4 DEF LastInv, LastWins, LastOf, HashOf

\* A call that returns leaves the stack to those it was made from.
LEMMA ReturnStep ==
  ASSUME IInv, Return
  PROVE  StackInv' /\ ManifestInv' /\ LastInv'
<1>1. PICK def \in Made(Top) : Register(def, Top.replace) /\ Noted(def, Top.replace)
  BY DEF Return
<1>2. stack # Empty /\ stack' = Popped /\ UNCHANGED code
  BY DEF Return
<1>3. def \in Definitions
  BY <1>2, MadeType
<1>4. Top.replace \in BOOLEAN
  BY <1>2, TopAndPopped DEF IInv, Frames
<1>5. handles \subseteq handles'
  BY <1>1 DEF Register
<1> QED
  BY <1>1, <1>2, <1>3, <1>4, <1>5, PopStack, RegisterManifest, RegisterLast

-----------------------------------------------------------------------------
(* The walk over the inputs                                                *)

Names == {NameOrder[i] : i \in DOMAIN NameOrder}

\* A path and those on the way to it.
LEMMA PathType ==
  ASSUME Tree(inputs), NEW q \in DOMAIN inputs
  PROVE  /\ q \in Seq(Names) /\ Len(q) \in Nat \ {0} /\ q # Empty
         /\ \A n \in 1 .. Len(q) :
              SubSeq(q, 1, n) \in DOMAIN inputs /\ Len(SubSeq(q, 1, n)) = n
<1>1. q \in Seq(Names) /\ q # Empty /\ Prefixes(q) \subseteq DOMAIN inputs
  BY DEF Tree, Names
<1>2. Len(q) \in Nat \ {0}
  BY <1>1, EmptySeq DEF Empty
<1>3. ASSUME NEW n \in 1 .. Len(q)
      PROVE  SubSeq(q, 1, n) \in DOMAIN inputs /\ Len(SubSeq(q, 1, n)) = n
  <2>1. SubSeq(q, 1, n) \in DOMAIN inputs
    BY <1>1, <1>2 DEF Prefixes
  <2>2. \A i \in 1 .. n : q[i] \in Names
    BY <1>1, <1>2, ElementOfSeq
  <2>3. Len(SubSeq(q, 1, n)) = IF 1 <= n THEN n - 1 + 1 ELSE 0
    BY <1>2, <2>2, SubSeqProperties
  <2> QED
    BY <1>2, <2>1, <2>3
<1> QED
  BY <1>1, <1>2, <1>3

\* Of the paths that an input is given, those that are not its dependencies are
\* given to one of them.
LEMMA WayTo ==
  ASSUME Tree(inputs), NEW a, a = Empty \/ a \in DOMAIN inputs,
         NEW q \in DOMAIN inputs, a = Empty \/ q \in Given(a)
  PROVE  \E c \in DOMAIN inputs : c # Empty /\ Parent(c) = a /\ (q = c \/ q \in Given(c))
<1> DEFINE n == Len(a)
           c == SubSeq(q, 1, n + 1)
<1>1. q \in Seq(Names) /\ Len(q) \in Nat \ {0}
  BY PathType
<1>2. n \in Nat /\ n < Len(q) /\ a = SubSeq(q, 1, n)
  <2>1. CASE a = Empty
    <3>1. Len(a) = 0
      BY <2>1, EmptySeq DEF Empty
    <3>2. SubSeq(q, 1, 0) = << >>
      BY SubSeqEmpty
    <3> QED
      BY <1>1, <2>1, <3>1, <3>2 DEF Empty
  <2>2. CASE a # Empty
    <3>1. Len(a) \in Nat /\ Len(q) > Len(a) /\ a \in Prefixes(q)
      BY <2>2, PathType DEF Given
    <3>2. PICK i \in 1 .. Len(q) : a = SubSeq(q, 1, i)
      BY <3>1 DEF Prefixes
    <3>3. Len(a) = i
      BY <3>2, PathType
    <3> QED
      BY <3>1, <3>2, <3>3
  <2> QED
    BY <2>1, <2>2
<1>3. n + 1 \in 1 .. Len(q)
  BY <1>1, <1>2
<1>4. c \in DOMAIN inputs /\ Len(c) = n + 1 /\ c # Empty
  BY <1>3, PathType
<1>5. Parent(c) = a
  <2> HIDE DEF n
  <2>1. Parent(c) = SubSeq(SubSeq(q, 1, n + 1), 1, n)
    BY <1>2, <1>4 DEF Parent
  <2>2. CASE n = 0
    <3>1. SubSeq(SubSeq(q, 1, n + 1), 1, n) = << >> /\ SubSeq(q, 1, n) = << >>
      BY <2>2, SubSeqEmpty
    <3> QED
      BY <1>2, <2>1, <3>1
  <2>3. CASE n # 0
    <3>1. /\ 1 \in 1 .. Len(q) /\ 1 \in 1 .. (n + 1) - 1 + 1 /\ n \in 1 .. (n + 1) - 1 + 1
          /\ 1 + 1 - 1 = 1 /\ 1 + n - 1 = n
      BY <1>1, <1>2, <2>3
    <3>2. SubSeq(SubSeq(q, 1, n + 1), 1, n) = SubSeq(q, 1 + 1 - 1, 1 + n - 1)
      BY <1>1, <1>3, <3>1, SubSeqOfSubSeq
    <3> QED
      BY <1>2, <2>1, <3>1, <3>2
  <2> QED
    BY <2>2, <2>3
<1>6. q = c \/ q \in Given(c)
  <2>1. CASE n + 1 = Len(q)
    BY <1>1, <2>1, SubSeqFull
  <2>2. CASE n + 1 # Len(q)
    BY <1>1, <1>3, <1>4, <2>2 DEF Given, Prefixes
  <2> QED
    BY <2>1, <2>2
<1> QED
  BY <1>4, <1>5, <1>6

\* What comes above a path is given it.
LEMMA ParentGiven ==
  ASSUME Tree(inputs), NEW a \in DOMAIN inputs
  PROVE  /\ Parent(a) # a
         /\ Parent(a) = Empty \/ (Parent(a) \in DOMAIN inputs /\ a \in Given(Parent(a)))
<1>1. Len(a) \in Nat \ {0}
  BY PathType
<1>2. CASE Len(a) = 1
  <2>1. Parent(a) = Empty
    BY <1>2, SubSeqEmpty DEF Parent, Empty
  <2> QED
    BY <2>1, PathType
<1>3. CASE Len(a) # 1
  <2>1. Len(a) - 1 \in 1 .. Len(a)
    <3>1. \A n \in Nat \ {0} : n # 1 => n - 1 \in 1 .. n
      OBVIOUS
    <3> QED
      BY <1>1, <1>3, <3>1, Zenon
  <2>2. Parent(a) \in DOMAIN inputs /\ Len(Parent(a)) = Len(a) - 1
    BY <2>1, PathType DEF Parent
  <2>3. Parent(a) \in Prefixes(a)
    BY <2>1 DEF Parent, Prefixes
  <2> QED
    BY <1>1, <2>2, <2>3 DEF Given
<1> QED
  BY <1>2, <1>3

\* Once all dependencies of an input have been visited, all it is given has.
LEMMA AllGivenVisited ==
  ASSUME WalkInv, Ahead(at) = {}
  PROVE  /\ at # Empty => Given(at) \subseteq HaveBeen
         /\ at = Empty => HaveBeen = DOMAIN inputs
<1>1. Tree(inputs) /\ (at = Empty \/ at \in DOMAIN inputs)
  BY DEF WalkInv
<1>2. ASSUME NEW q \in DOMAIN inputs, at = Empty \/ q \in Given(at)
      PROVE  q \in HaveBeen
  <2>1. PICK c \in DOMAIN inputs : c # Empty /\ Parent(c) = at /\ (q = c \/ q \in Given(c))
    BY <1>1, <1>2, WayTo
  <2>2. c \in HaveBeen
    BY <2>1 DEF Ahead
  <2>3. Given(c) \subseteq HaveBeen
    <3>1. PICK i \in DOMAIN visited : c = visited[i]
      BY <2>2 DEF HaveBeen
    <3>2. Given(c) \subseteq {visited[j] : j \in 1 .. i - 1}
      BY <3>1 DEF WalkInv
    <3>3. DOMAIN visited = 1 .. Len(visited) /\ Len(visited) \in Nat
      BY LenProperties DEF WalkInv
    <3> QED
      BY <3>2, <3>3 DEF HaveBeen
  <2> QED
    BY <2>1, <2>2, <2>3
<1>3. Given(at) \subseteq DOMAIN inputs
  BY DEF Given
<1>4. HaveBeen \subseteq DOMAIN inputs
  <2>1. DOMAIN visited = 1 .. Len(visited)
    BY LenProperties DEF WalkInv
  <2> QED
    BY <2>1, ElementOfSeq DEF WalkInv, HaveBeen
<1> QED
  BY <1>2, <1>3, <1>4

\* An input is left for the one above it when all it is given has been visited.
LEMMA LeaveInput ==
  ASSUME WalkInv, at # Empty, Given(at) \subseteq HaveBeen,
         visited' = Append(visited, at), at' = Parent(at), inputs' = inputs
  PROVE  WalkInv'
<1>1. /\ Tree(inputs) /\ visited \in Seq(DOMAIN inputs) /\ Len(visited) \in Nat
      /\ DOMAIN visited = 1 .. Len(visited)
      /\ at \in DOMAIN inputs /\ at \notin HaveBeen
  BY LenProperties DEF WalkInv
<1> DEFINE n == Len(visited)
<1>2. /\ visited' \in Seq(DOMAIN inputs) /\ Len(visited') = n + 1
      /\ \A i \in 1 .. n : visited'[i] = visited[i]
      /\ visited'[n + 1] = at
  BY <1>1, AppendProperties
<1>3. DOMAIN visited' = 1 .. n + 1
  BY <1>2, LenProperties
<1>4. HaveBeen' = HaveBeen \cup {at}
  BY <1>1, <1>2, <1>3 DEF HaveBeen
<1>5. \A a : Given(a)' = Given(a)
  BY DEF Given
<1>6. \A i \in DOMAIN visited' : Given(visited'[i]) \subseteq {visited'[j] : j \in 1 .. i - 1}
  <2>1. ASSUME NEW i \in 1 .. n
        PROVE  Given(visited'[i]) \subseteq {visited'[j] : j \in 1 .. i - 1}
    <3>1. Given(visited[i]) \subseteq {visited[j] : j \in 1 .. i - 1}
      BY <1>1 DEF WalkInv
    <3>2. \A j \in 1 .. i - 1 : visited'[j] = visited[j]
      BY <1>2
    <3> QED
      BY <1>2, <3>1, <3>2
  <2>2. Given(visited'[n + 1]) \subseteq {visited'[j] : j \in 1 .. (n + 1) - 1}
    BY <1>1, <1>2 DEF HaveBeen
  <2> QED
    BY <1>1, <1>3, <2>1, <2>2
<1>7. \A i, j \in DOMAIN visited' : visited'[i] = visited'[j] => i = j
  <2>1. \A i, j \in 1 .. n : visited[i] = visited[j] => i = j
    BY <1>1 DEF WalkInv
  <2>2. \A i \in 1 .. n : visited[i] # at
    BY <1>1 DEF HaveBeen
  <2> QED
    BY <1>1, <1>2, <1>3, <2>1, <2>2
<1>8. at' = Empty \/ at' \in DOMAIN inputs \ HaveBeen'
  <2>1. CASE Parent(at) \in HaveBeen
    <3>1. PICK i \in DOMAIN visited : Parent(at) = visited[i]
      BY <2>1 DEF HaveBeen
    <3>2. Given(Parent(at)) \subseteq HaveBeen
      <4>1. Given(visited[i]) \subseteq {visited[j] : j \in 1 .. i - 1}
        BY <3>1 DEF WalkInv
      <4> QED
        BY <1>1, <3>1, <4>1 DEF HaveBeen
    <3> QED
      BY <1>1, <3>2, ParentGiven
  <2>2. CASE Parent(at) \notin HaveBeen
    BY <1>1, <1>4, <2>2, ParentGiven
  <2> QED
    BY <2>1, <2>2
<1> QED
  BY <1>1, <1>2, <1>5, <1>6, <1>7, <1>8 DEF WalkInv, Tree

-----------------------------------------------------------------------------
(* The theorems                                                            *)

LEMMA InitInv == Init => IInv
<1> SUFFICES ASSUME Init PROVE IInv
  OBVIOUS
<1>1. StackInv /\ calls \in 0 .. MaxCalls
  BY BoundsAssumption, EmptySeq DEF Init, StackInv, Empty
<1>2. ManifestInv /\ LastInv
  BY DEF Init, ManifestInv, LastInv, LastWins, Hashes, Empty
<1>3. visited = << >> /\ DOMAIN visited = {} /\ DOMAIN inputs = {} /\ at = Empty
  BY DEF Init, Empty
<1>4. WalkInv
  BY <1>3, EmptySeq DEF WalkInv, Tree
<1>5. PhaseInv
  BY DEF Init, PhaseInv
<1> QED
  BY <1>1, <1>2, <1>4, <1>5 DEF IInv

\* Going on to an input that has not been visited.
LEMMA WalkMoves ==
  ASSUME WalkInv, UNCHANGED <<inputs, visited>>, at' = Empty \/ at' \in DOMAIN inputs \ HaveBeen
  PROVE  WalkInv'
<1>1. HaveBeen' = HaveBeen
  BY DEF HaveBeen
<1>2. \A a : Given(a)' = Given(a)
  BY DEF Given
<1>3. /\ Tree(inputs) /\ visited \in Seq(DOMAIN inputs)
      /\ \A i \in DOMAIN visited : Given(visited[i]) \subseteq {visited[j] : j \in 1 .. i - 1}
      /\ \A i, j \in DOMAIN visited : visited[i] = visited[j] => i = j
  BY DEF WalkInv
<1>4. visited' = visited /\ inputs' = inputs
  OBVIOUS
<1> QED
  BY <1>1, <1>2, <1>3, <1>4 DEF WalkInv, Tree

\* The setup functions are called along the walk.
LEMMA VisitStep ==
  ASSUME IInv, Visit
  PROVE  WalkInv' /\ PhaseInv'
<1>1. /\ WalkInv /\ pc = "visit" /\ inputs' = inputs
  BY DEF IInv, Visit
<1>2. \A a : Given(a)' = Given(a)
  BY <1>1 DEF Given
<1>3. ASSUME NEW q \in First(Ahead(at)), at' = q, UNCHANGED <<pc, visited>>
      PROVE  WalkInv' /\ PhaseInv'
  <2>1. at' \in DOMAIN inputs \ HaveBeen /\ HaveBeen' = HaveBeen
    BY <1>3 DEF First, Ahead, HaveBeen
  <2>2. WalkInv'
    BY <1>1, <1>3, <2>1, WalkMoves DEF WalkInv
  <2> QED
    BY <1>1, <1>3, <2>2 DEF PhaseInv
<1>4. ASSUME Ahead(at) = {}, at # Empty, pc' = "setup", UNCHANGED <<at, visited>>
      PROVE  WalkInv' /\ PhaseInv'
  <2>1. Given(at) \subseteq HaveBeen /\ HaveBeen' = HaveBeen
    BY <1>1, <1>4, AllGivenVisited DEF HaveBeen
  <2>2. WalkInv'
    BY <1>1, <1>4, <2>1, WalkMoves DEF WalkInv
  <2> QED
    BY <1>2, <1>4, <2>1, <2>2 DEF PhaseInv
<1>5. ASSUME Ahead(at) = {}, at # Empty, visited' = Append(visited, at), at' = Parent(at),
             UNCHANGED pc
      PROVE  WalkInv' /\ PhaseInv'
  <2>1. Given(at) \subseteq HaveBeen
    BY <1>1, <1>5, AllGivenVisited
  <2>2. WalkInv'
    BY <1>1, <1>5, <2>1, LeaveInput
  <2> QED
    BY <1>1, <1>5, <2>2 DEF PhaseInv
<1>6. ASSUME Ahead(at) = {}, at = Empty, pc' = "root", UNCHANGED <<at, visited>>
      PROVE  WalkInv' /\ PhaseInv'
  <2>1. HaveBeen = DOMAIN inputs /\ HaveBeen' = HaveBeen
    BY <1>1, <1>6, AllGivenVisited DEF HaveBeen
  <2>2. WalkInv'
    BY <1>1, <1>6, <2>1, WalkMoves DEF WalkInv
  <2> QED
    BY <1>1, <1>6, <2>1, <2>2 DEF PhaseInv
<1> QED
  BY <1>3, <1>4, <1>5, <1>6 DEF Visit

LEMMA ResolveInputsStep ==
  ASSUME IInv, ResolveInputs
  PROVE  WalkInv' /\ PhaseInv'
<1>1. /\ pc = "config" /\ inputs' \in Resolutions /\ at' = at /\ visited' = visited
      /\ pc' = IF inputs' = Empty THEN "root" ELSE "visit"
  BY DEF ResolveInputs
<1>2. at = Empty /\ visited = Empty
  BY <1>1 DEF IInv, PhaseInv
<1>3. Tree(inputs')
  BY <1>1, ResolutionsAssumption
<1>4. visited' = << >> /\ DOMAIN visited' = {} /\ HaveBeen' = {}
  BY <1>1, <1>2 DEF Empty, HaveBeen
<1>5. WalkInv'
  BY <1>1, <1>2, <1>3, <1>4, EmptySeq DEF WalkInv, Tree
<1>6. pc' = "root" => HaveBeen' = DOMAIN inputs'
  BY <1>1, <1>4 DEF Empty
<1> QED
  BY <1>1, <1>5, <1>6 DEF PhaseInv

LEMMA EndSetupStep ==
  ASSUME IInv, EndSetup
  PROVE  WalkInv' /\ PhaseInv'
<1>1. /\ WalkInv /\ at # Empty /\ Given(at) \subseteq HaveBeen
  BY DEF IInv, EndSetup, PhaseInv
<1>2. WalkInv'
  BY <1>1, LeaveInput DEF EndSetup
<1> QED
  BY <1>2 DEF EndSetup, PhaseInv

\* A step that stays where it is in the walk.
LEMMA WalkSame ==
  ASSUME IInv, UNCHANGED <<inputs, at, visited>>, pc' \in {pc, "done", "failed"}
  PROVE  WalkInv' /\ PhaseInv'
<1>1. HaveBeen' = HaveBeen /\ \A a : Given(a)' = Given(a)
  BY DEF HaveBeen, Given
<1>2. WalkInv'
  BY <1>1, WalkMoves DEF IInv, WalkInv
<1> QED
  BY <1>1, <1>2 DEF IInv, PhaseInv

\* No call is under way when the code that makes them is not running.
LEMMA StackSame ==
  ASSUME IInv, stack = Empty, UNCHANGED <<stack, handles>>
  PROVE  StackInv'
BY BoundsAssumption DEF IInv, StackInv, Frames

LEMMA NextInv == IInv /\ [Next]_vars => IInv'
<1> SUFFICES ASSUME IInv, [Next]_vars PROVE IInv'
  OBVIOUS
<1>1. CASE Call
  <2>1. StackInv' /\ calls' \in 0 .. MaxCalls
    BY <1>1, CallStep
  <2>2. ManifestInv' /\ LastInv'
    BY <1>1, ManifestSame DEF Call
  <2>3. WalkInv' /\ PhaseInv'
    BY <1>1, WalkSame DEF Call, code
  <2> QED
    BY <2>1, <2>2, <2>3 DEF IInv
<1>2. CASE TakeInputs
  <2>1. StackInv' /\ calls' = calls
    BY <1>2, TakeInputsStep DEF TakeInputs
  <2>2. ManifestInv' /\ LastInv'
    BY <1>2, ManifestSame DEF TakeInputs
  <2>3. WalkInv' /\ PhaseInv'
    BY <1>2, WalkSame DEF TakeInputs, code
  <2> QED
    BY <2>1, <2>2, <2>3 DEF IInv
<1>3. CASE Return
  <2>1. StackInv' /\ ManifestInv' /\ LastInv' /\ calls' = calls
    BY <1>3, ReturnStep DEF Return
  <2>2. WalkInv' /\ PhaseInv'
    BY <1>3, WalkSame DEF Return, code
  <2> QED
    BY <2>1, <2>2 DEF IInv
<1>4. CASE Raise
  <2>1. StackInv' /\ calls' = calls
    BY <1>4, PopStack DEF Raise
  <2>2. ManifestInv' /\ LastInv'
    BY <1>4, ManifestSame DEF Raise
  <2>3. WalkInv' /\ PhaseInv'
    BY <1>4, WalkSame DEF Raise, code
  <2> QED
    BY <2>1, <2>2, <2>3 DEF IInv
<1>5. ASSUME ResolveInputs \/ Visit \/ EndSetup \/ EndRoot \/ Fail
      PROVE  IInv'
  <2>1. stack = Empty /\ UNCHANGED <<stack, manifest, handles, calls, ghosts>>
    <3>1. CASE Visit
      BY <3>1 DEF Visit, rest, IInv, StackInv, Running
    <3> QED
      BY <1>5, <3>1 DEF ResolveInputs, EndSetup, EndRoot, Fail, rest
  <2>2. StackInv' /\ ManifestInv' /\ LastInv' /\ calls' = calls
    BY <2>1, StackSame, ManifestSame
  <2>3. WalkInv' /\ PhaseInv'
    <3>1. CASE ResolveInputs
      BY <3>1, ResolveInputsStep
    <3>2. CASE Visit
      BY <3>2, VisitStep
    <3>3. CASE EndSetup
      BY <3>3, EndSetupStep
    <3>4. CASE EndRoot \/ Fail
      BY <3>4, WalkSame DEF EndRoot, Fail
    <3> QED
      BY <1>5, <3>1, <3>2, <3>3, <3>4
  <2> QED
    BY <2>2, <2>3 DEF IInv
<1>6. CASE UNCHANGED vars
  <2>1. UNCHANGED <<pc, inputs, at, visited, stack, manifest, handles, calls, ghosts>>
    BY <1>6 DEF vars, code
  <2>2. ManifestInv' /\ LastInv'
    BY <2>1, ManifestSame
  <2>3. WalkInv' /\ PhaseInv'
    BY <2>1, WalkSame
  <2>4. StackInv'
    BY <2>1 DEF IInv, StackInv, Frames, Running
  <2> QED
    BY <2>1, <2>2, <2>3, <2>4 DEF IInv
<1> QED
  BY <1>1, <1>2, <1>3, <1>4, <1>5, <1>6 DEF Next

\* The invariant holds throughout every evaluation.
THEOREM Invariant == Spec => []IInv
<1>1. Init => IInv
  BY InitInv
<1>2. IInv /\ [Next]_vars => IInv'
  BY NextInv
<1> QED
  BY <1>1, <1>2, PTL DEF Spec

\* The variables have their types, and calls only run where code does; every
\* hash of the manifest was handed out and names one definition.
THEOREM TypeCorrect == Spec => []TypeOK
<1>1. IInv => TypeOK
  <2> SUFFICES ASSUME IInv PROVE TypeOK
    OBVIOUS
  <2>1. HaveBeen \subseteq DOMAIN inputs
    <3>1. DOMAIN visited = 1 .. Len(visited)
      BY LenProperties DEF IInv, WalkInv
    <3> QED
      BY <3>1, ElementOfSeq DEF IInv, WalkInv, HaveBeen
  <2> QED
    BY <2>1 DEF IInv, TypeOK, StackInv, ManifestInv, WalkInv, PhaseInv
<1> QED
  BY <1>1, Invariant, PTL

\* With any number of calls, nested to any depth and abandoned at any point, the
\* manifest has for each kind and id the definition that the last call to return
\* with them made (manifest.rs, build/lua.rs, bind/lua.rs).
THEOREM LastCallWins == Spec => []LastWins
<1>1. IInv => LastWins
  BY DEF IInv, LastInv
<1> QED
  BY <1>1, Invariant, PTL

\* Every reference handed out, and every one in a definition, is to something that
\* is in the manifest or that a call with replace = true has taken out of it.  Of
\* those taken out nothing is said: what mentions them is left dangling
\* (bind/lua.rs:245-264).
THEOREM ReferencesLead == Spec => []NothingDangles
<1>1. IInv => NothingDangles
  BY DEF IInv, ManifestInv, NothingDangles, Definitions
<1> QED
  BY <1>1, Invariant, PTL

\* For every tree of inputs, each setup function is called once for each path of
\* its input, after those of all inputs it is given, and the configuration's
\* after all of them (eval.rs).
THEOREM DependenciesFirst == Spec => []SetupsNested
<1>1. IInv => SetupsNested
  BY DEF IInv, WalkInv, PhaseInv, SetupsNested
<1> QED
  BY <1>1, Invariant, PTL

\* In every year from the first on sys.mktime counts each day as one.
THEOREM CalendarFollows == Spec => []DaysFollow
<1>1. DaysFollow
  BY NothingMistimed DEF DaysFollow
<1> QED
  BY <1>1, PTL

\* For all working directories: resolve and join lead where their arguments do, for
\* all paths; normalize does for those that never climb above where they start; and
\* relative is the way between two normalized paths that are both absolute or both
\* relative (path.rs:9-162).  For the others the code is not right, and nothing is
\* said of them: normalize("../a") is "a".
THEOREM PathsFollow == Spec => []PathsLead
<1>1. PathsLead
  BY ResolveLeads, NormalizeLeads, RelativeLeads, JoinLeads DEF PathsLead
<1> QED
  BY <1>1, PTL

\* For all values, of any depth: functions are given the outputs of a bind as they
\* were made, if no table has keys of both kinds; and its inputs with every integer
\* turned into the float equal to it, if there are no gaps either and no integer
\* that is not a float, too (bind/lua.rs:62-172, outputs/lua.rs:7-96).
THEOREM ValuesReturn == Spec => []ValuesComeBack
<1>1. ValuesComeBack
  BY NoOutputsLost, NoInputsLost DEF ValuesComeBack
<1> QED
  BY <1>1, PTL

=============================================================================
