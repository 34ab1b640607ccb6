------------------------- MODULE RealizationProofs -------------------------
(***************************************************************************)
(* Theorems about Realization, for every set of builds and binds, their    *)
(* recipes and outputs, the configurations applied, and however often a    *)
(* command is killed or a build damaged: what a command holds a node to    *)
(* have given is what it gives from scratch, and without an action failing *)
(* an operation fails only because of what its definition says.            *)
(*                                                                         *)
(* The text of an action over the store and its text from scratch are the  *)
(* same as far as both resolve (SameText); it names no directory but its   *)
(* own and those of nodes that are done (NamedAreDone), which hold what    *)
(* they hold from scratch; so each action leaves what it leaves from       *)
(* scratch (ActionLikeFresh), and the outputs are the same as well.  What  *)
(* can be done depends on less, on which outputs there are: the context of *)
(* an operation has those of what was done before it (ReadyFits), so what  *)
(* runs to its end there runs to its end here (RunsThere).                 *)
(***************************************************************************)
EXTENDS Realization, FiniteSetTheorems, WellFoundedInduction, TLAPS

-----------------------------------------------------------------------------
(* What is defined by recursion                                            *)

\* A set of numbers has a least element.
LEMMA LeastNumber ==
  ASSUME NEW T, T \subseteq Nat, T # {}
  PROVE  \E x \in T : \A y \in T : x <= y
<1>1. PICK x \in T : \A y \in T : ~(<<y, x>> \in OpToRel(<, Nat))
  BY NatLessThanWellFounded, WFMin
<1>2. \A y \in T : y \in Nat /\ x \in Nat /\ ~(y < x)
  BY <1>1 DEF OpToRel
<1> QED
  BY <1>2

\* Runs exist for every list.
LEMMA RunsExist ==
  ASSUME NEW list, NEW ctx, Len(list) \in Nat
  PROVE  \E g : g = [i \in 0 .. Len(list) |->
                       IF i = 0 THEN Start ELSE Onward(list[i], g[i - 1], ctx)]
<1> DEFINE For(k) ==
      \E g : g = [i \in 0 .. k |-> IF i = 0 THEN Start ELSE Onward(list[i], g[i - 1], ctx)]
<1> DEFINE Bad == {k \in Nat : ~For(k)}
<1> SUFFICES ASSUME Bad # {} PROVE FALSE
  OBVIOUS
<1>1. PICK k \in Bad : \A j \in Bad : k <= j
  BY LeastNumber
<1>4. k \in Nat /\ (k # 0 => k - 1 \in Nat /\ k - 1 \notin Bad)
  <2>1. Bad \subseteq Nat
    OBVIOUS
  <2> HIDE DEF Bad
  <2> QED
    BY <1>1, <2>1
<1>2. CASE k = 0
  <2> DEFINE g == [i \in 0 .. 0 |-> Start]
  <2>1. g = [i \in 0 .. 0 |-> IF i = 0 THEN Start ELSE Onward(list[i], g[i - 1], ctx)]
    OBVIOUS
  <2>2. For(0)
    BY <2>1
  <2>3. 0 \notin Bad
    BY <2>2
  <2> HIDE DEF Bad
  <2> QED
    BY <1>1, <1>2, <2>3
<1>3. CASE k # 0
  <2>1. k - 1 \in Nat /\ k - 1 \notin Bad
    BY <1>3, <1>4
  <2>2. For(k - 1)
    BY <2>1
  <2>3. PICK g : g = [i \in 0 .. k - 1 |->
                        IF i = 0 THEN Start ELSE Onward(list[i], g[i - 1], ctx)]
    BY <2>2
  <2> DEFINE h == [i \in 0 .. k |-> IF i = 0 THEN Start ELSE Onward(list[i], g[i - 1], ctx)]
  <2>4. \A i \in 0 .. k - 1 : h[i] = g[i]
    BY <2>1, <2>3
  <2>5. \A i \in 0 .. k : i # 0 => i - 1 \in 0 .. k - 1
    BY <2>1
  <2>6. h = [i \in 0 .. k |-> IF i = 0 THEN Start ELSE Onward(list[i], h[i - 1], ctx)]
    BY <2>4, <2>5, Zenon
  <2>7. For(k)
    BY <2>6
  <2> QED
    BY <1>1, <2>7
<1> QED
  BY <1>2, <1>3

LEMMA RunsAre ==
  ASSUME NEW list, NEW ctx, Len(list) \in Nat
  PROVE  /\ Runs(list, ctx)[0] = Start
         /\ \A i \in 1 .. Len(list) :
              Runs(list, ctx)[i] = Onward(list[i], Runs(list, ctx)[i - 1], ctx)
<1>1. PICK g : g = [i \in 0 .. Len(list) |->
                      IF i = 0 THEN Start ELSE Onward(list[i], g[i - 1], ctx)]
  BY RunsExist
<1>2. Runs(list, ctx) =
        [i \in 0 .. Len(list) |->
           IF i = 0 THEN Start ELSE Onward(list[i], Runs(list, ctx)[i - 1], ctx)]
  BY <1>1, Zenon DEF Runs
<1> QED
  BY <1>2

\* What all nodes give exists, since dependencies end.
LEMMA GivesExist ==
  \E g : g = [n \in Node |-> Meaning(n, [d \in Deps[n] |-> g[d]])]
<1> DEFINE Solved(D) ==
      /\ \A n \in D : Deps[n] \subseteq D
      /\ \E g : g = [n \in D |-> Meaning(n, [d \in Deps[n] |-> g[d]])]
<1> DEFINE Sizes == {k \in Nat : \E D \in SUBSET Node : Solved(D) /\ k = Cardinality(Node \ D)}
<1>1. IsFiniteSet(Node) /\ \A D \in SUBSET Node : IsFiniteSet(Node \ D)
  BY RealizationAssumption, FS_Difference
<1>2. Sizes # {}
  <2> DEFINE g == [n \in {} |-> {}]
  <2>1. g = [n \in {} |-> Meaning(n, [d \in Deps[n] |-> g[d]])]
    OBVIOUS
  <2>2. Solved({})
    BY <2>1
  <2>3. Cardinality(Node \ {}) \in Nat
    BY <1>1, FS_CardinalityType
  <2> QED
    BY <2>2, <2>3
<1>3. PICK k \in Sizes : \A j \in Sizes : k <= j
  BY <1>2, LeastNumber
<1>4. PICK D \in SUBSET Node : Solved(D) /\ k = Cardinality(Node \ D)
  BY <1>3
<1>5. PICK g : g = [n \in D |-> Meaning(n, [d \in Deps[n] |-> g[d]])]
  BY <1>4
<1>6. CASE Node \ D = {}
  BY <1>5, <1>6
<1>7. CASE Node \ D # {}
  <2>1. PICK n \in Node \ D : Deps[n] \cap (Node \ D) = {}
    BY <1>7, RealizationAssumption
  <2>2. Deps[n] \subseteq D
    BY <2>1, RealizationAssumption DEF Node
  <2> DEFINE E == D \cup {n}
  <2> DEFINE h == [m \in E |-> Meaning(m, [d \in Deps[m] |-> g[d]])]
  <2>3. \A m \in D : h[m] = g[m]
    BY <1>5
  <2>4. \A m \in E : Deps[m] \subseteq D
    BY <2>2, <1>4
  <2>5. \A m \in E : [d \in Deps[m] |-> g[d]] = [d \in Deps[m] |-> h[d]]
    BY <2>3, <2>4
  <2>6. h = [m \in E |-> Meaning(m, [d \in Deps[m] |-> h[d]])]
    BY <2>5, Zenon
  <2>7. Solved(E)
    BY <2>4, <2>6
  <2>8. /\ Cardinality(Node \ E) \in Nat
        /\ Cardinality(Node \ E) = Cardinality(Node \ D) - 1
    <3>1. Node \ E = (Node \ D) \ {n}
      OBVIOUS
    <3>2. IsFiniteSet(Node \ D) /\ n \in Node \ D
      BY <1>1, <2>1
    <3>3. IsFiniteSet(Node \ E)
      BY <1>1
    <3> QED
      BY <3>1, <3>2, <3>3, FS_RemoveElement, FS_CardinalityType
  <2>9. Cardinality(Node \ E) \in Sizes
    BY <2>1, <2>7, <2>8
  <2>10. k <= Cardinality(Node \ E) /\ k = Cardinality(Node \ D)
    BY <1>3, <1>4, <2>9
  <2> QED
    BY <2>8, <2>10
<1> QED
  BY <1>6, <1>7

LEMMA GivesAre ==
  \A n \in Node : Fresh[n] = Meaning(n, [d \in Deps[n] |-> Fresh[d]])
<1>1. PICK g : g = [n \in Node |-> Meaning(n, [d \in Deps[n] |-> g[d]])]
  BY GivesExist
<1>2. Gives = [n \in Node |-> Meaning(n, [d \in Deps[n] |-> Gives[d]])]
  BY <1>1, Zenon DEF Gives
<1>3. \A n \in Node : Deps[n] \subseteq Node
  BY RealizationAssumption DEF Node
<1>4. Gives = [n \in Node |-> Gives[n]]
  <2> DEFINE F(n) == Meaning(n, [d \in Deps[n] |-> Gives[d]])
  <2>1. Gives = [n \in Node |-> F(n)]
    BY <1>2
  <2> HIDE DEF F
  <2> QED
    BY <2>1, Zenon
<1>5. Fresh = Gives
  BY <1>4 DEF Fresh
<1>6. \A n \in Node : Gives[n] = Meaning(n, [d \in Deps[n] |-> Gives[d]])
  <2> DEFINE F(n) == Meaning(n, [d \in Deps[n] |-> Gives[d]])
  <2>1. Gives = [n \in Node |-> F(n)]
    BY <1>2
  <2> HIDE DEF F
  <2>2. \A n \in Node : Gives[n] = F(n)
    BY <2>1, Zenon
  <2> QED
    BY <2>2 DEF F
<1> QED
  BY <1>5, <1>6

-----------------------------------------------------------------------------
(* From scratch                                                            *)

Given(n) == [d \in Deps[n] |-> Fresh[d]]
Able(n) == {d \in Deps[n] : Fresh[d].ok}
FreshCtx(n) == Scratch(n, Given(n))
Creation(n) == Recipe[n]["create"]
FreshRuns(n) == Runs(Creation(n), FreshCtx(n))
Last(n) == FreshRuns(n)[Len(Creation(n))]

LEMMA LengthsOfLists ==
  \A n \in Node : Len(Creation(n)) \in Nat
BY RecipeAssumption DEF Creation

\* The context in which a node's actions run from scratch.
LEMMA FreshContext ==
  ASSUME NEW n \in Node
  PROVE  /\ FreshCtx(n).results = Empty /\ FreshCtx(n).out = DirOf(n)
         /\ FreshCtx(n).builds = [b \in Able(n) \cap Build |-> Fresh[b].outputs]
         /\ FreshCtx(n).binds = [b \in Able(n) \cap Bind |-> Fresh[b].outputs]
         /\ DOMAIN FreshCtx(n).dirs = UNION {DOMAIN Fresh[d].dirs : d \in Able(n)}
         /\ \A b \in DOMAIN FreshCtx(n).dirs :
              \E d \in Able(n) :
                /\ b \in DOMAIN Fresh[d].dirs
                /\ FreshCtx(n).dirs[b] = Fresh[d].dirs[b]
<1> DEFINE given == Given(n)
<1> DEFINE before == {d \in DOMAIN given : given[d].ok}
<1> DEFINE from(b) == CHOOSE d \in before : b \in DOMAIN given[d].dirs
<1>1. DOMAIN given = Deps[n] /\ \A d \in Deps[n] : given[d] = Fresh[d]
  BY DEF Given
<1>2. before = Able(n)
  BY <1>1 DEF Able
<1>3. FreshCtx(n) =
        [results |-> Empty, out |-> DirOf(n),
         dirs |-> [b \in UNION {DOMAIN given[d].dirs : d \in before} |-> given[from(b)].dirs[b]],
         builds |-> [b \in before \cap Build |-> given[b].outputs],
         binds |-> [b \in before \cap Bind |-> given[b].outputs]]
  BY DEF FreshCtx, Scratch
<1> HIDE DEF given, before
<1>4. \A d \in before : given[d] = Fresh[d]
  BY <1>1, <1>2 DEF Able
<1>5. UNION {DOMAIN given[d].dirs : d \in before} = UNION {DOMAIN Fresh[d].dirs : d \in Able(n)}
  BY <1>2, <1>4
<1>6. \A b \in UNION {DOMAIN given[d].dirs : d \in before} :
        from(b) \in before /\ b \in DOMAIN given[from(b)].dirs
  OBVIOUS
<1>7. \A b \in before : given[b].outputs = Fresh[b].outputs
  BY <1>4
<1>8. /\ FreshCtx(n).results = Empty /\ FreshCtx(n).out = DirOf(n)
      /\ FreshCtx(n).builds = [b \in Able(n) \cap Build |-> Fresh[b].outputs]
      /\ FreshCtx(n).binds = [b \in Able(n) \cap Bind |-> Fresh[b].outputs]
  BY <1>2, <1>3, <1>7
<1>9. DOMAIN FreshCtx(n).dirs = UNION {DOMAIN given[d].dirs : d \in before}
  BY <1>3
<1>10. \A b \in DOMAIN FreshCtx(n).dirs : FreshCtx(n).dirs[b] = given[from(b)].dirs[b]
  BY <1>3, <1>9
<1>11. \A b \in DOMAIN FreshCtx(n).dirs :
         from(b) \in Able(n) /\ b \in DOMAIN Fresh[from(b)].dirs
           /\ FreshCtx(n).dirs[b] = Fresh[from(b)].dirs[b]
  BY <1>2, <1>4, <1>6, <1>9, <1>10
<1> QED
  BY <1>5, <1>8, <1>9, <1>11

\* What a node gives from scratch, of its last run.
LEMMA RunAllIs ==
  ASSUME NEW n, NEW op, NEW ctx, Len(ListOf(n, op)) \in Nat
  PROVE  LET all == Runs(ListOf(n, op), ctx)[Len(ListOf(n, op))]
         IN  /\ RunAll(n, op, ctx).ok =
                  (all.ok /\ CanResolveOutputs(Patterns(n, op), With(ctx, all.run)))
             /\ RunAll(n, op, ctx).run = all.run
<1> DEFINE L == Len(ListOf(n, op))
<1> DEFINE all == Runs(ListOf(n, op), ctx)[L]
<1>1. \E b, r : all = [ok |-> b, run |-> r]
  <2>1. CASE L = 0
    BY <2>1, RunsAre DEF Start
  <2>2. CASE L # 0
    <3>1. L \in 1 .. L
      BY <2>2
    <3>2. all = Onward(ListOf(n, op)[L], Runs(ListOf(n, op), ctx)[L - 1], ctx)
      BY <3>1, RunsAre
    <3> QED
      BY <3>2, Zenon DEF Onward
  <2> QED
    BY <2>1, <2>2
<1>2. RunAll(n, op, ctx) = [all EXCEPT !.ok = @
        /\ CanResolveOutputs(Patterns(n, op), With(ctx, all.run))]
  BY Zenon DEF RunAll
<1> HIDE DEF all
<1> QED
  BY <1>1, <1>2 DEF all

LEMMA FreshIs ==
  ASSUME NEW n \in Node
  PROVE  /\ Fresh[n].ok = (Last(n).ok
              /\ CanResolveOutputs(OutputsOf(n), With(FreshCtx(n), Last(n).run)))
         /\ Fresh[n].ok => Fresh[n].outputs = OutputsIn(n, With(FreshCtx(n), Last(n).run))
         /\ Fresh[n].dirs = IF n \in Build THEN Put(FreshCtx(n).dirs, n, Hashed(Last(n).run.files))
                                           ELSE FreshCtx(n).dirs
<1>1. Fresh[n] = Meaning(n, Given(n))
  BY GivesAre DEF Given
<1>2. ListOf(n, "create") = Creation(n) /\ Patterns(n, "create") = OutputsOf(n)
  BY DEF ListOf, Creation, Patterns
<1> DEFINE all == RunAll(n, "create", FreshCtx(n))
<1>3. /\ all.ok = (Last(n).ok /\ CanResolveOutputs(OutputsOf(n), With(FreshCtx(n), Last(n).run)))
      /\ all.run = Last(n).run
  BY <1>2, LengthsOfLists, RunAllIs DEF Last, FreshRuns
<1>4. Meaning(n, Given(n)) =
       [ok |-> all.ok,
        outputs |-> IF all.ok THEN OutputsIn(n, With(FreshCtx(n), all.run)) ELSE Empty,
        dirs |-> IF n \in Build THEN Put(FreshCtx(n).dirs, n,
          Hashed(all.run.files)) ELSE FreshCtx(n).dirs]
  BY DEF Meaning, FreshCtx
<1> HIDE DEF all
<1> QED
  BY <1>1, <1>3, <1>4

-----------------------------------------------------------------------------
(* Runs of actions                                                         *)

IsSeq(s) == Len(s) \in Nat /\ s = [i \in 1 .. Len(s) |-> s[i]]
IsRun(r) == r = [results |-> r.results, files |-> r.files]

\* No result of an action is a store directory.
NoDirs(results) == \A i \in DOMAIN results : \A b : <<"dir", b>> \notin results[i]

LEMMA AppendIs ==
  ASSUME NEW s, NEW x, IsSeq(s)
  PROVE  /\ IsSeq(Append(s, x)) /\ Len(Append(s, x)) = Len(s) + 1
         /\ Append(s, x)[Len(s) + 1] = x
         /\ \A i \in 1 .. Len(s) : Append(s, x)[i] = s[i]
<1> DEFINE S == {s[i] : i \in 1 .. Len(s)} \cup {x}
<1>1. s \in [1 .. Len(s) -> S] /\ Len(s) \in Nat
  BY DEF IsSeq
<1>2. s \in Seq(S) /\ x \in S
  BY <1>1
<1> HIDE DEF S
<1>3. /\ Append(s, x) \in Seq(S) /\ Len(Append(s, x)) = Len(s) + 1
      /\ Append(s, x)[Len(s) + 1] = x
      /\ \A i \in 1 .. Len(s) : Append(s, x)[i] = s[i]
  BY <1>2
<1>4. \A t \in Seq(S) : Len(t) \in Nat /\ t = [i \in 1 .. Len(t) |-> t[i]]
  OBVIOUS
<1> QED
  BY <1>3, <1>4 DEF IsSeq

LEMMA DoIs ==
  ASSUME NEW action, NEW run, NEW ctx, IsSeq(run.results), NoDirs(run.results)
  PROVE  LET r == Do(action, run, ctx)
         IN  /\ IsRun(r) /\ IsSeq(r.results) /\ NoDirs(r.results)
             /\ Len(r.results) = Len(run.results) + 1
<1> DEFINE r == Do(action, run, ctx)
<1>1. \E x : r.results = Append(run.results, x) /\ \A b : <<"dir", b>> \notin x
  <2>1. CASE action.kind = "fetch"
    <3> DEFINE x == {<<"file", ctx.out, FileName[action.url]>>}
    <3>1. r.results = Append(run.results, x)
      BY <2>1 DEF Do, Fetched
    <3>2. \A b : <<"dir", b>> \notin x
      OBVIOUS
    <3> QED
      BY <3>1, <3>2
  <2>2. CASE action.kind # "fetch"
    <3> DEFINE text == substitute(action.text, ctx)
    <3> DEFINE x == {<<"said", text, Seen(text, ctx)>>}
    <3>1. r.results = Append(run.results, x)
      BY <2>2 DEF Do, Executed
    <3>2. \A b : <<"dir", b>> \notin x
      OBVIOUS
    <3> QED
      BY <3>1, <3>2
  <2> QED
    BY <2>1, <2>2
<1>2. PICK x : r.results = Append(run.results, x) /\ \A b : <<"dir", b>> \notin x
  BY <1>1
<1>3. IsRun(r)
  BY DEF Do, Fetched, Executed, IsRun
<1> HIDE DEF r
<1>4. /\ IsSeq(r.results) /\ Len(r.results) = Len(run.results) + 1
      /\ r.results[Len(run.results) + 1] = x
      /\ \A i \in 1 .. Len(run.results) : r.results[i] = run.results[i]
  BY <1>2, AppendIs
<1>5. NoDirs(r.results)
  <2>1. DOMAIN r.results = 1 .. Len(run.results) + 1 /\ DOMAIN run.results = 1 .. Len(run.results)
    BY <1>4 DEF IsSeq
  <2>2. Len(run.results) \in Nat
    BY DEF IsSeq
  <2> SUFFICES ASSUME NEW i \in 1 .. Len(run.results) + 1, NEW b
               PROVE  <<"dir", b>> \notin r.results[i]
    BY <2>1 DEF NoDirs
  <2>3. CASE i = Len(run.results) + 1
    BY <1>2, <1>4, <2>3
  <2>4. CASE i # Len(run.results) + 1
    <3>1. i \in 1 .. Len(run.results)
      BY <2>2, <2>4
    <3> QED
      BY <1>4, <2>1, <3>1 DEF NoDirs
  <2> QED
    BY <2>3, <2>4
<1> QED
  BY <1>3, <1>4, <1>5 DEF r

\* A run that went well did all its actions, one after another.
LEMMA RunsStep ==
  ASSUME NEW list, NEW ctx, Len(list) \in Nat, NEW i \in 1 .. Len(list), Runs(list, ctx)[i].ok
  PROVE  /\ Runs(list, ctx)[i - 1].ok
         /\ CanDo(list[i], With(ctx, Runs(list, ctx)[i - 1].run))
         /\ Runs(list, ctx)[i].run =
              Do(list[i], Runs(list, ctx)[i - 1].run, With(ctx, Runs(list, ctx)[i - 1].run))
<1>1. Runs(list, ctx)[i] = Onward(list[i], Runs(list, ctx)[i - 1], ctx)
  BY RunsAre
<1> QED
  BY <1>1 DEF Onward

LEMMA RunsKnow ==
  ASSUME NEW list, NEW ctx, Len(list) \in Nat
  PROVE  \A i \in 0 .. Len(list) :
           LET r == Runs(list, ctx)[i]
           IN  r.ok => /\ IsRun(r.run) /\ IsSeq(r.run.results) /\ NoDirs(r.run.results)
                       /\ Len(r.run.results) = i
<1> DEFINE Knows(i) ==
      LET r == Runs(list, ctx)[i]
      IN  r.ok => /\ IsRun(r.run) /\ IsSeq(r.run.results) /\ NoDirs(r.run.results)
                  /\ Len(r.run.results) = i
<1> DEFINE Bad == {i \in 0 .. Len(list) : ~Knows(i)}
<1> SUFFICES ASSUME Bad # {} PROVE FALSE
  OBVIOUS
<1>0. Bad \subseteq Nat
  OBVIOUS
<1>1. PICK i \in Bad : \A j \in Bad : i <= j
  <2> HIDE DEF Bad
  <2> QED
    BY <1>0, LeastNumber
<1>2. i \in 0 .. Len(list) /\ (i # 0 =>
        i \in 1 .. Len(list) /\ i - 1 \in 0 .. Len(list) /\ i - 1 \notin Bad)
  <2>1. Bad \subseteq 0 .. Len(list)
    OBVIOUS
  <2> HIDE DEF Bad
  <2> QED
    BY <1>1, <2>1
<1>3. ~Knows(i)
  BY <1>1
<1>4. i # 0 => Knows(i - 1)
  BY <1>2
<1>5. Runs(list, ctx)[0].run = NoRun
  BY RunsAre DEF Start
<1>6. IsRun(NoRun) /\ IsSeq(NoRun.results) /\ NoDirs(NoRun.results) /\ Len(NoRun.results) = 0
  BY DEF NoRun, IsRun, IsSeq, NoDirs, Empty
<1>7. CASE i = 0
  BY <1>3, <1>5, <1>6, <1>7
<1>8. CASE i # 0
  <2>1. Runs(list, ctx)[i].ok
    BY <1>3
  <2>2. /\ Runs(list, ctx)[i - 1].ok
        /\ Runs(list, ctx)[i].run =
              Do(list[i], Runs(list, ctx)[i - 1].run, With(ctx, Runs(list, ctx)[i - 1].run))
    BY <1>2, <1>8, <2>1, RunsStep
  <2> DEFINE before == Runs(list, ctx)[i - 1].run
  <2>3. IsSeq(before.results) /\ NoDirs(before.results) /\ Len(before.results) = i - 1
    BY <1>4, <1>8, <2>2
  <2> HIDE DEF before
  <2>4. LET r == Do(list[i], before, With(ctx, before))
        IN  /\ IsRun(r) /\ IsSeq(r.results) /\ NoDirs(r.results)
            /\ Len(r.results) = Len(before.results) + 1
    BY <2>3, DoIs
  <2>5. Runs(list, ctx)[i].run = Do(list[i], before, With(ctx, before))
    BY <2>2 DEF before
  <2>6. LET r == Runs(list, ctx)[i].run
        IN  IsRun(r) /\ IsSeq(r.results) /\ NoDirs(r.results) /\ Len(r.results) = i - 1 + 1
    BY <2>3, <2>4, <2>5
  <2>7. i - 1 + 1 = i
    BY <1>2
  <2> QED
    BY <1>3, <2>6, <2>7
<1> QED
  BY <1>7, <1>8

\* With the whole list, each of its beginnings went well.
LEMMA RunsOfBeginnings ==
  ASSUME NEW list, NEW ctx, Len(list) \in Nat, Runs(list, ctx)[Len(list)].ok
  PROVE  \A i \in 0 .. Len(list) : Runs(list, ctx)[i].ok
<1> DEFINE L == Len(list)
<1> DEFINE Bad == {k \in 0 .. L : ~Runs(list, ctx)[L - k].ok}
<1>1. Bad = {}
  <2> SUFFICES ASSUME Bad # {} PROVE FALSE
    OBVIOUS
  <2>0. Bad \subseteq Nat
    OBVIOUS
  <2>1. PICK k \in Bad : \A j \in Bad : k <= j
    <3> HIDE DEF Bad
    <3> QED
      BY <2>0, LeastNumber
  <2>2. k \in 0 .. L /\ (k # 0 => k - 1 \in 0 .. L /\ k - 1 \notin Bad)
    <3>1. Bad \subseteq 0 .. L
      OBVIOUS
    <3> HIDE DEF Bad
    <3> QED
      BY <2>1, <3>1
  <2>3. ~Runs(list, ctx)[L - k].ok
    BY <2>1
  <2>4. CASE k = 0
    BY <2>3, <2>4
  <2>5. CASE k # 0
    <3>1. Runs(list, ctx)[L - (k - 1)].ok
      BY <2>2, <2>5
    <3>2. L - (k - 1) \in 1 .. L /\ L - (k - 1) - 1 = L - k
      BY <2>2, <2>5
    <3>3. Runs(list, ctx)[L - (k - 1) - 1].ok
      BY <3>1, <3>2, RunsStep
    <3> QED
      BY <2>3, <3>2, <3>3
  <2> QED
    BY <2>4, <2>5
<1>2. \A i \in 0 .. L : L - i \in 0 .. L /\ L - (L - i) = i
  OBVIOUS
<1> QED
  BY <1>1, <1>2
-----------------------------------------------------------------------------
(* Placeholders in one context and in another                              *)

IsCtx(ctx) ==
  ctx = [results |-> ctx.results, out |-> ctx.out, dirs |-> ctx.dirs,
         builds |-> ctx.builds, binds |-> ctx.binds]

LEMMA WithIs ==
  ASSUME NEW ctx, NEW run, IsCtx(ctx)
  PROVE  /\ IsCtx(With(ctx, run))
         /\ With(ctx, run).results = run.results /\ With(ctx, run).out = ctx.out
         /\ With(ctx, run).dirs = ctx.dirs
         /\ With(ctx, run).builds = ctx.builds /\ With(ctx, run).binds = ctx.binds
BY DEF IsCtx, With

\* What one context offers of the nodes D, the other does as well.
Agrees(a, c, D) ==
  /\ a.out = c.out
  /\ \A i \in DOMAIN a.results : i \in DOMAIN c.results /\ c.results[i] = a.results[i]
  /\ \A d \in D \cap DOMAIN a.builds : d \in DOMAIN c.builds /\ c.builds[d] = a.builds[d]
  /\ \A d \in D \cap DOMAIN a.binds : d \in DOMAIN c.binds /\ c.binds[d] = a.binds[d]

LEMMA SameText ==
  ASSUME NEW a, NEW c, NEW D, Agrees(a, c, D),
         NEW pattern, Mentions(pattern) \subseteq D, CanSubstitute(pattern, a)
  PROVE  CanSubstitute(pattern, c) /\ substitute(pattern, c) = substitute(pattern, a)
<1>1. \A part \in pattern : part[1] \in {"build", "bind"} => part[2] \in D
  BY DEF Mentions
<1>2. ASSUME NEW part \in pattern
      PROVE  Resolves(part, c) /\ Value(part, c) = Value(part, a)
  <2>1. Resolves(part, a)
    BY DEF CanSubstitute
  <2>2. CASE part[1] \in {"text", "out", "env"}
    BY <2>1, <2>2 DEF Resolves, Value, Agrees
  <2>3. CASE part[1] = "action"
    BY <2>1, <2>3 DEF Resolves, Value, Agrees
  <2>4. CASE part[1] = "build"
    BY <1>1, <2>1, <2>4 DEF Resolves, Value, Agrees, Offers
  <2>5. CASE part[1] = "bind"
    BY <1>1, <2>1, <2>5 DEF Resolves, Value, Agrees, Offers
  <2> QED
    BY <2>1, <2>2, <2>3, <2>4, <2>5 DEF Resolves
<1>3. {Value(part, c) : part \in pattern} = {Value(part, a) : part \in pattern}
  BY <1>2
<1> QED
  BY <1>2, <1>3 DEF CanSubstitute, substitute

\* A directory named in a text is the running node's, or named in an output.
LEMMA DirsOfText ==
  ASSUME NEW ctx, NoDirs(ctx.results),
         NEW pattern, CanSubstitute(pattern, ctx), NEW b, <<"dir", b>> \in substitute(pattern, ctx)
  PROVE  \/ ctx.out = <<"dir", b>>
         \/ \E d \in Mentions(pattern) :
              \/ d \in DOMAIN ctx.builds
                 /\ \E o \in DOMAIN ctx.builds[d] : <<"dir", b>> \in ctx.builds[d][o]
              \/ d \in DOMAIN ctx.binds
                 /\ \E o \in DOMAIN ctx.binds[d] : <<"dir", b>> \in ctx.binds[d][o]
<1>1. PICK part \in pattern : <<"dir", b>> \in Value(part, ctx)
  BY DEF substitute
<1>2. Resolves(part, ctx)
  BY DEF CanSubstitute
<1>3. CASE part[1] = "text"
  BY <1>1, <1>3 DEF Value
<1>4. CASE part[1] = "out"
  BY <1>1, <1>4 DEF Value
<1>5. CASE part[1] = "action"
  BY <1>1, <1>2, <1>5 DEF Value, Resolves, NoDirs
<1>6. CASE part[1] = "build"
  BY <1>1, <1>2, <1>6 DEF Value, Resolves, Offers, Mentions
<1>7. CASE part[1] = "bind"
  BY <1>1, <1>2, <1>7 DEF Value, Resolves, Offers, Mentions
<1>8. CASE part[1] = "env"
  BY <1>1, <1>8 DEF Value
<1> QED
  BY <1>2, <1>3, <1>4, <1>5, <1>6, <1>7, <1>8 DEF Resolves

\* An action does the same in both contexts, if the directories it sees hold the
\* same.
LEMMA SameDoing ==
  ASSUME NEW a, NEW c, NEW D, Agrees(a, c, D), NEW run,
         NEW action, CanDo(action, a),
         action.kind # "fetch" =>
           /\ Mentions(action.text) \subseteq D
           /\ \A b : <<"dir", b>> \in substitute(action.text, a) \ {a.out} =>
                b \in DOMAIN a.dirs /\ b \in DOMAIN c.dirs /\ Hashed(a.dirs[b]) = Hashed(c.dirs[b])
  PROVE  CanDo(action, c) /\ Do(action, run, c) = Do(action, run, a)
<1>1. CASE action.kind = "fetch"
  BY <1>1 DEF CanDo, Do, Fetched, Agrees
<1>2. CASE action.kind # "fetch"
  <2> DEFINE text == substitute(action.text, a)
  <2>1. CanSubstitute(action.text, a)
    BY <1>2 DEF CanDo
  <2>2. CanSubstitute(action.text, c) /\ substitute(action.text, c) = text
    BY <1>2, <2>1, SameText
  <2>3. a.out = c.out
    BY DEF Agrees
  <2>4. \A b : <<"dir", b>> \in text \ {a.out} =>
           b \in DOMAIN a.dirs /\ b \in DOMAIN c.dirs /\ Hashed(a.dirs[b]) = Hashed(c.dirs[b])
    BY <1>2
  <2> HIDE DEF text
  <2>5. {b \in DOMAIN a.dirs : <<"dir", b>> \in text \ {a.out}} =
          {b \in DOMAIN c.dirs : <<"dir", b>> \in text \ {c.out}}
    BY <2>3, <2>4
  <2>6. Seen(text, c) = Seen(text, a)
    BY <2>3, <2>4, <2>5 DEF Seen
  <2>7. Do(action, run, a) = Executed(action, run, a)
          /\ Do(action, run, c) = Executed(action, run, c)
    BY <1>2 DEF Do
  <2>8. Executed(action, run, c) = Executed(action, run, a)
    BY <2>2, <2>6 DEF Executed, text
  <2> QED
    BY <1>2, <2>2, <2>7, <2>8 DEF CanDo
<1> QED
  BY <1>1, <1>2

LEMMA HashedTwice ==
  ASSUME NEW files
  PROVE  Hashed(Hashed(files)) = Hashed(files)
BY DEF Hashed

-----------------------------------------------------------------------------
(* The directories that a node is made of                                  *)

LEMMA FreshCtxIs == \A n \in Node : IsCtx(FreshCtx(n))
BY Zenon DEF IsCtx, FreshCtx, Scratch

\* What a node is made of holds what it gives itself.
LEMMA DirsAgree ==
  \A n \in Node : \A b \in DOMAIN Fresh[n].dirs :
    /\ b \in Build /\ b \in DOMAIN Fresh[b].dirs
    /\ Fresh[n].dirs[b] = Fresh[b].dirs[b]
<1> DEFINE Good(n, b) ==
      /\ b \in Build /\ b \in DOMAIN Fresh[b].dirs
      /\ Fresh[n].dirs[b] = Fresh[b].dirs[b]
<1> DEFINE Bad == {n \in Node : \E b \in DOMAIN Fresh[n].dirs : ~Good(n, b)}
<1> SUFFICES ASSUME Bad # {} PROVE FALSE
  OBVIOUS
<1>1. PICK n \in Bad : Deps[n] \cap Bad = {}
  BY RealizationAssumption
<1>2. n \in Node /\ Deps[n] \subseteq Node
  BY RealizationAssumption DEF Node
<1>3. PICK b \in DOMAIN Fresh[n].dirs : ~Good(n, b)
  BY <1>1
<1>4. \A d \in Deps[n] : \A e \in DOMAIN Fresh[d].dirs : Good(d, e)
  BY <1>1, <1>2
<1>5. Fresh[n].dirs = IF n \in Build THEN Put(FreshCtx(n).dirs, n, Hashed(Last(n).run.files))
                                     ELSE FreshCtx(n).dirs
  BY <1>2, FreshIs
<1>6. n \in Build => n \in DOMAIN Fresh[n].dirs
  BY <1>5 DEF Put
<1>7. CASE n \in Build /\ b = n
  BY <1>3, <1>6, <1>7
<1>8. CASE ~(n \in Build /\ b = n)
  <2>1. b \in DOMAIN FreshCtx(n).dirs /\ Fresh[n].dirs[b] = FreshCtx(n).dirs[b]
    BY <1>3, <1>5, <1>8 DEF Put
  <2>2. PICK d \in Able(n) : b \in DOMAIN Fresh[d].dirs /\ FreshCtx(n).dirs[b] = Fresh[d].dirs[b]
    BY <1>2, <2>1, FreshContext
  <2>3. Good(d, b)
    BY <1>4, <2>2 DEF Able
  <2> QED
    BY <1>3, <2>1, <2>2, <2>3
<1> QED
  BY <1>7, <1>8

\* A node is made of the directories its outputs name.
LEMMA DirsNamed ==
  \A n \in Node : Fresh[n].ok =>
    \A o \in DOMAIN Fresh[n].outputs : \A b :
      <<"dir", b>> \in Fresh[n].outputs[o] => b \in DOMAIN Fresh[n].dirs
<1> DEFINE Good(n) ==
      Fresh[n].ok =>
        \A o \in DOMAIN Fresh[n].outputs : \A b :
          <<"dir", b>> \in Fresh[n].outputs[o] => b \in DOMAIN Fresh[n].dirs
<1> DEFINE Bad == {n \in Node : ~Good(n)}
<1> SUFFICES ASSUME Bad # {} PROVE FALSE
  OBVIOUS
<1>1. PICK n \in Bad : Deps[n] \cap Bad = {}
  BY RealizationAssumption
<1>2. n \in Node /\ Deps[n] \subseteq Node
  BY RealizationAssumption DEF Node
<1>3. Fresh[n].ok
  BY <1>1
<1>4. PICK o \in DOMAIN Fresh[n].outputs :
        \E b : <<"dir", b>> \in Fresh[n].outputs[o] /\ b \notin DOMAIN Fresh[n].dirs
  BY <1>1
<1>5. PICK b : <<"dir", b>> \in Fresh[n].outputs[o] /\ b \notin DOMAIN Fresh[n].dirs
  BY <1>4
<1>6. \A d \in Deps[n] : Good(d)
  BY <1>1, <1>2
<1> HIDE DEF Bad
<1> DEFINE ctx == With(FreshCtx(n), Last(n).run)
<1>7. /\ ctx.results = Last(n).run.results /\ ctx.out = DirOf(n)
      /\ ctx.builds = [d \in Able(n) \cap Build |-> Fresh[d].outputs]
      /\ ctx.binds = [d \in Able(n) \cap Bind |-> Fresh[d].outputs]
  BY <1>2, WithIs, FreshCtxIs, FreshContext
<1>8. /\ Last(n).ok /\ CanResolveOutputs(OutputsOf(n), ctx)
      /\ Fresh[n].outputs = OutputsIn(n, ctx)
      /\ Fresh[n].dirs = IF n \in Build THEN Put(FreshCtx(n).dirs, n, Hashed(Last(n).run.files))
                                        ELSE FreshCtx(n).dirs
  BY <1>2, <1>3, FreshIs
<1>9. NoDirs(ctx.results)
  BY <1>2, <1>7, <1>8, LengthsOfLists, RunsKnow DEF Last, FreshRuns
<1> HIDE DEF ctx
<1>10. /\ o \in DOMAIN OutputsOf(n) /\ CanSubstitute(OutputsOf(n)[o], ctx)
       /\ Fresh[n].outputs[o] = substitute(OutputsOf(n)[o], ctx)
  BY <1>5, <1>8 DEF OutputsIn, ResolveOutputs, CanResolveOutputs
<1>11. \/ ctx.out = <<"dir", b>>
       \/ \E d \in DOMAIN ctx.builds : \E p \in DOMAIN ctx.builds[d] :
            <<"dir", b>> \in ctx.builds[d][p]
       \/ \E d \in DOMAIN ctx.binds : \E p \in DOMAIN ctx.binds[d] :
            <<"dir", b>> \in ctx.binds[d][p]
  BY <1>5, <1>9, <1>10, DirsOfText
<1>12. CASE ctx.out = <<"dir", b>>
  <2>1. n \in Build /\ b = n
    BY <1>7, <1>12 DEF DirOf
  <2> QED
    BY <1>5, <1>8, <2>1 DEF Put
<1>13. CASE ctx.out # <<"dir", b>>
  <2>1. \E d \in Able(n) : \E p \in DOMAIN Fresh[d].outputs : <<"dir", b>> \in Fresh[d].outputs[p]
    BY <1>7, <1>11, <1>13
  <2>2. PICK d \in Able(n) : \E p \in DOMAIN Fresh[d].outputs : <<"dir", b>> \in Fresh[d].outputs[p]
    BY <2>1
  <2>3. b \in DOMAIN Fresh[d].dirs
    BY <1>6, <2>2 DEF Able
  <2>4. b \in DOMAIN FreshCtx(n).dirs
    BY <1>2, <2>2, <2>3, FreshContext
  <2> QED
    BY <1>5, <1>8, <2>4 DEF Put
<1> QED
  BY <1>12, <1>13
-----------------------------------------------------------------------------
(* The invariant                                                           *)

IsFun(f) == f = [x \in DOMAIN f |-> f[x]]
IsDir(dir) == dir = [files |-> dir.files, marker |-> dir.marker]
IsJob(job) ==
  job = [op |-> job.op, stage |-> job.stage, results |-> job.results, files |-> job.files]

StoreShape ==
  IsFun(store) /\ DOMAIN store \subseteq Build /\ \A b \in DOMAIN store : IsDir(store[b])
JobsShape ==
  IsFun(jobs) /\ DOMAIN jobs \subseteq Node /\ \A n \in DOMAIN jobs : IsJob(jobs[n])
DoneShape == IsFun(done) /\ DOMAIN done \subseteq Node
PhaseShape == phase \in {"idle", "destroy", "update", "execute", "check", "repair"}

Shapes == StoreShape /\ JobsShape /\ DoneShape /\ PhaseShape

\* A marker with a hash, or of an earlier version, tells the truth: that of an
\* earlier version is there as long as its files are, unless they were damaged.
MarkersTell ==
  \A b \in DOMAIN store \cap Untouched :
    /\ store[b].marker = Legacy => Fresh[b].ok /\ Hashed(store[b].files) = Fresh[b].dirs[b]
    /\ \A h : store[b].marker = <<"hash", h>> => Fresh[b].ok /\ h = Fresh[b].dirs[b]

\* The outputs of what is done name only what is done.
DirsDone ==
  \A n \in DOMAIN done \cap Untouched : \A o \in DOMAIN done[n] : \A b :
    <<"dir", b>> \in done[n][o] => b \in DOMAIN done \cap Untouched

\* What a job has run is the beginning of its run from scratch.
Begun(n) == n \in Untouched =>
  LET i == Len(jobs[n].results)
  IN  /\ i \in 0 .. Len(Creation(n))
      /\ FreshRuns(n)[i].ok /\ FreshRuns(n)[i].run = RunOf(n)

Operations == {"destroy", "update", "create", "check", "repair"}

JobOK(n) ==
  /\ n \in Build => jobs[n].op = "build"
  /\ jobs[n].op \in {"build", "create"} => n \notin DOMAIN done
  /\ n \notin Build => jobs[n].op \in Operations /\ jobs[n].stage = "run"
  /\ jobs[n].stage \in {"clear", "run", "mark"}
  /\ jobs[n].stage = "clear" => jobs[n].results = Empty
  /\ n \in DOMAIN store => store[n].marker # Legacy
  /\ jobs[n].stage # "clear" /\ n \in Build => n \in DOMAIN store
  /\ jobs[n].stage # "clear" /\ jobs[n].op \in {"build", "create"} => Begun(n)
  /\ jobs[n].stage = "mark" =>
       /\ n \in Untouched => Len(jobs[n].results) = Len(Creation(n))
       /\ CanResolveOutputs(OutputsOf(n), Now(n))

DoneEnded ==
  /\ \A b \in DOMAIN done \cap Build : <<"build", b>> \in ended
  /\ \A b \in DOMAIN done \cap Bind : <<"create", b>> \in ended

AtRest == phase = "idle" => DOMAIN jobs = {} /\ DOMAIN done = {}

IInv ==
  /\ Shapes /\ MarkersTell /\ LikeFresh /\ DirsDone
  /\ \A n \in DOMAIN jobs : JobOK(n)
  /\ DoneEnded /\ AtRest

-----------------------------------------------------------------------------
(* What is not made of what was spoiled                                    *)

\* It depends on nothing else.
LEMMA UntouchedDeps ==
  \A n \in Untouched : n \in Node /\ n \notin spoiled /\ Deps[n] \subseteq Untouched
<1> SUFFICES ASSUME NEW n \in Untouched
             PROVE  n \in Node /\ n \notin spoiled /\ Deps[n] \subseteq Untouched
  OBVIOUS
<1>1. PICK nodes \in SUBSET (Node \ spoiled) :
        n \in nodes /\ \A m \in nodes : Deps[m] \subseteq nodes
  BY DEF Untouched
<1>2. nodes \subseteq Untouched
  BY <1>1 DEF Untouched
<1> QED
  BY <1>1, <1>2

LEMMA UntouchedStays ==
  ASSUME UNCHANGED spoiled
  PROVE  Untouched' = Untouched
BY DEF Untouched

LEMMA UntouchedShrinks ==
  ASSUME spoiled \subseteq spoiled'
  PROVE  Untouched' \subseteq Untouched
<1> SUFFICES ASSUME NEW n \in Untouched' PROVE n \in Untouched
  OBVIOUS
<1>1. PICK nodes \in SUBSET (Node \ spoiled') :
        n \in nodes /\ \A m \in nodes : Deps[m] \subseteq nodes
  BY DEF Untouched
<1>2. nodes \in SUBSET (Node \ spoiled)
  BY <1>1
<1> QED
  BY <1>1, <1>2 DEF Untouched

-----------------------------------------------------------------------------
(* What runs over the store is what runs from scratch                      *)

DirsThere == [b \in DOMAIN store |-> store[b].files]
BuildsDone == [b \in DOMAIN done \cap Build |-> done[b]]
BindsDone(op) == IF op = "create" THEN [b \in DOMAIN done \cap Bind |-> done[b]] ELSE Empty

LEMMA ContextIs ==
  ASSUME NEW n, NEW op \in {"build", "create"}, NEW x
  PROVE  /\ With(Context(n, op), x).results = x.results
         /\ With(Context(n, op), x).out = DirOf(n)
         /\ With(Context(n, op), x).dirs = DirsThere
         /\ With(Context(n, op), x).builds = BuildsDone
         /\ With(Context(n, op), x).binds = BindsDone(op)
<1> DEFINE ctx == Context(n, op)
<1>1. /\ IsCtx(ctx) /\ ctx.out = DirOf(n)
      /\ ctx.dirs = DirsThere
  BY DEF Context, IsCtx, DirsThere
<1>2. ctx.builds = BuildsDone
  BY DEF Context, BuildsDone
<1>3. ctx.binds = BindsDone(op)
  BY DEF Context, BindsDone
<1> HIDE DEF ctx
<1>4. /\ With(ctx, x).results = x.results /\ With(ctx, x).out = ctx.out
      /\ With(ctx, x).dirs = ctx.dirs
      /\ With(ctx, x).builds = ctx.builds /\ With(ctx, x).binds = ctx.binds
  BY <1>1, WithIs
<1> QED
  BY <1>1, <1>2, <1>3, <1>4 DEF ctx

\* The context of a job, after the results of x, and that of the node from
\* scratch, after those of r.
LEMMA ContextAgrees ==
  ASSUME Shapes, LikeFresh, NEW n \in Untouched, NEW op \in {"build", "create"},
         NEW x, NEW r, \A i \in DOMAIN x.results : i \in DOMAIN r.results
               /\ r.results[i] = x.results[i]
  PROVE  Agrees(With(Context(n, op), x), With(FreshCtx(n), r), Deps[n])
<1> DEFINE a == With(Context(n, op), x)
<1> DEFINE c == With(FreshCtx(n), r)
<1>1. /\ a.results = x.results /\ a.out = DirOf(n)
      /\ a.builds = BuildsDone
      /\ a.binds = BindsDone(op)
  BY ContextIs
<1>0. n \in Node
  BY UntouchedDeps
<1>2. /\ c.results = r.results /\ c.out = DirOf(n)
      /\ c.builds = [b \in Able(n) \cap Build |-> Fresh[b].outputs]
      /\ c.binds = [b \in Able(n) \cap Bind |-> Fresh[b].outputs]
  BY <1>0, FreshContext, FreshCtxIs, WithIs
<1> HIDE DEF a, c
<1>3. \A d \in Deps[n] \cap DOMAIN done : d \in Able(n) /\ done[d] = Fresh[d].outputs
  BY UntouchedDeps DEF LikeFresh, Able
<1>4. \A d \in Deps[n] \cap DOMAIN a.builds : d \in DOMAIN c.builds /\ c.builds[d] = a.builds[d]
  BY <1>1, <1>2, <1>3 DEF BuildsDone
<1>5. \A d \in Deps[n] \cap DOMAIN a.binds : d \in DOMAIN c.binds /\ c.binds[d] = a.binds[d]
  BY <1>1, <1>2, <1>3 DEF BindsDone, Empty
<1> QED
  BY <1>1, <1>2, <1>4, <1>5 DEF Agrees, a, c

\* The directories that a job's text names are its own and those of nodes that
\* are done.
LEMMA NamedAreDone ==
  ASSUME Shapes, LikeFresh, DirsDone, NEW n \in Untouched, NEW op \in {"build", "create"},
         NEW x, NoDirs(x.results),
         NEW pattern, Mentions(pattern) \subseteq Deps[n],
         CanSubstitute(pattern, With(Context(n, op), x)),
         NEW b, <<"dir", b>> \in substitute(pattern, With(Context(n, op), x))
  PROVE  \/ DirOf(n) = <<"dir", b>>
         \/ /\ b \in DOMAIN done \cap Untouched /\ b \in Build
            /\ b \in DOMAIN FreshCtx(n).dirs /\ FreshCtx(n).dirs[b] = Fresh[b].dirs[b]
<1> DEFINE a == With(Context(n, op), x)
<1>1. /\ a.results = x.results /\ a.out = DirOf(n)
      /\ a.builds = BuildsDone
      /\ a.binds = BindsDone(op)
  BY ContextIs
<1>2. \/ a.out = <<"dir", b>>
      \/ \E d \in Mentions(pattern) :
           \/ d \in DOMAIN a.builds
              /\ \E o \in DOMAIN a.builds[d] : <<"dir", b>> \in a.builds[d][o]
           \/ d \in DOMAIN a.binds
              /\ \E o \in DOMAIN a.binds[d] : <<"dir", b>> \in a.binds[d][o]
  BY <1>1, DirsOfText
<1> HIDE DEF a
<1> SUFFICES ASSUME DirOf(n) # <<"dir", b>>
             PROVE  /\ b \in DOMAIN done \cap Untouched /\ b \in Build
                    /\ b \in DOMAIN FreshCtx(n).dirs /\ FreshCtx(n).dirs[b] = Fresh[b].dirs[b]
  OBVIOUS
<1>3. \E d \in Deps[n] \cap DOMAIN done : \E o \in DOMAIN done[d] : <<"dir", b>> \in done[d][o]
  <2>1. \A d \in DOMAIN BuildsDone : d \in DOMAIN done /\ BuildsDone[d] = done[d]
    BY DEF BuildsDone
  <2>2. \A d \in DOMAIN BindsDone(op) : d \in DOMAIN done /\ BindsDone(op)[d] = done[d]
    BY DEF BindsDone, Empty
  <2> QED
    BY <1>1, <1>2, <2>1, <2>2
<1>4. PICK d \in Deps[n] \cap DOMAIN done : \E o \in DOMAIN done[d] : <<"dir", b>> \in done[d][o]
  BY <1>3
<1>0. n \in Node /\ d \in Untouched
  BY <1>4, UntouchedDeps
<1>5. b \in DOMAIN done \cap Untouched
  BY <1>0, <1>4 DEF DirsDone
<1>6. d \in Node /\ Fresh[d].ok /\ done[d] = Fresh[d].outputs /\ d \in Able(n)
  BY <1>0, <1>4 DEF Shapes, DoneShape, LikeFresh, Able
<1>7. b \in DOMAIN Fresh[d].dirs
  BY <1>4, <1>6, DirsNamed
<1>8. b \in DOMAIN FreshCtx(n).dirs
  BY <1>0, <1>6, <1>7, FreshContext
<1>9. PICK e \in Able(n) : b \in DOMAIN Fresh[e].dirs /\ FreshCtx(n).dirs[b] = Fresh[e].dirs[b]
  BY <1>0, <1>8, FreshContext
<1>10. e \in Node
  BY <1>0, <1>9, RealizationAssumption DEF Able, Node
<1> QED
  BY <1>5, <1>8, <1>9, <1>10, DirsAgree

\* An action that can be done over the store can be done from scratch, with the
\* same outcome.
LEMMA ActionLikeFresh ==
  ASSUME MentionsAreDeps, Shapes, LikeFresh, DirsDone,
         NEW n \in Untouched, NEW op \in {"build", "create"},
         NEW i \in 0 .. Len(Creation(n)), i < Len(Creation(n)),
         FreshRuns(n)[i].ok,
         NEW x, x.results = FreshRuns(n)[i].run.results,
         CanDo(Creation(n)[i + 1], With(Context(n, op), x))
  PROVE  /\ FreshRuns(n)[i + 1].ok
         /\ FreshRuns(n)[i + 1].run =
              Do(Creation(n)[i + 1], FreshRuns(n)[i].run, With(Context(n, op), x))
<1> DEFINE r == FreshRuns(n)[i].run
<1> DEFINE a == With(Context(n, op), x)
<1> DEFINE c == With(FreshCtx(n), r)
<1> DEFINE action == Creation(n)[i + 1]
<1>0. n \in Node
  BY UntouchedDeps
<1>1. Len(Creation(n)) \in Nat /\ i + 1 \in 1 .. Len(Creation(n)) /\ i + 1 - 1 = i
  BY <1>0, LengthsOfLists
<1>2. NoDirs(r.results)
  BY <1>1, RunsKnow DEF FreshRuns
<1>3. Agrees(a, c, Deps[n])
  BY ContextAgrees
<1>4. a.out = DirOf(n) /\ a.dirs = DirsThere
  BY ContextIs
<1>5. c.dirs = FreshCtx(n).dirs
  BY <1>0, FreshCtxIs, WithIs
<1>6. ASSUME action.kind # "fetch"
      PROVE  /\ Mentions(action.text) \subseteq Deps[n]
             /\ \A b : <<"dir", b>> \in substitute(action.text, a) \ {a.out} =>
                  b \in DOMAIN a.dirs /\ b \in DOMAIN c.dirs
                    /\ Hashed(a.dirs[b]) = Hashed(c.dirs[b])
  <2>1. Mentions(action.text) \subseteq Deps[n]
    BY <1>0, <1>1, <1>6, RecipeAssumption DEF MentionsAreDeps, Creation
  <2>2. CanSubstitute(action.text, a)
    BY <1>6 DEF CanDo
  <2>3. ASSUME NEW b, <<"dir", b>> \in substitute(action.text, a), <<"dir", b>> # a.out
        PROVE  b \in DOMAIN a.dirs /\ b \in DOMAIN c.dirs /\ Hashed(a.dirs[b]) = Hashed(c.dirs[b])
    <3>1. /\ b \in DOMAIN done \cap Untouched /\ b \in Build
          /\ b \in DOMAIN FreshCtx(n).dirs /\ FreshCtx(n).dirs[b] = Fresh[b].dirs[b]
      BY <1>2, <1>4, <2>1, <2>2, <2>3, NamedAreDone
    <3>2. b \in DOMAIN store /\ Hashed(store[b].files) = Fresh[b].dirs[b]
      BY <3>1 DEF LikeFresh
    <3>3. a.dirs[b] = store[b].files /\ c.dirs[b] = Fresh[b].dirs[b] /\ b \in DOMAIN a.dirs
      BY <1>4, <1>5, <3>1, <3>2 DEF DirsThere
    <3> QED
      BY <1>5, <3>1, <3>2, <3>3, HashedTwice
  <2> QED
    BY <2>1, <2>3
<1>7. CanDo(action, c) /\ Do(action, r, c) = Do(action, r, a)
  <2> HIDE DEF a, c, r, action
  <2>1. CanDo(action, a)
    BY DEF a, action
  <2> QED
    BY <1>3, <1>6, <2>1, SameDoing
<1>8. FreshRuns(n)[i + 1] = Onward(action, FreshRuns(n)[i], FreshCtx(n))
  BY <1>1, RunsAre DEF FreshRuns
<1>9. Onward(action, FreshRuns(n)[i], FreshCtx(n)) = [ok |-> TRUE, run |-> Do(action, r, c)]
  BY <1>7 DEF Onward
<1> QED
  BY <1>7, <1>8, <1>9

\* Outputs that resolve over the store, when all actions have run or without
\* their results, are those from scratch.
LEMMA OutputsLikeFresh ==
  ASSUME MentionsAreDeps, Shapes, LikeFresh, DirsDone,
         NEW n \in Untouched, NEW op \in {"build", "create"}, Last(n).ok,
         NEW x, x.results = Empty \/ x.results = Last(n).run.results,
         CanResolveOutputs(OutputsOf(n), With(Context(n, op), x))
  PROVE  /\ Fresh[n].ok /\ Fresh[n].outputs = OutputsIn(n, With(Context(n, op), x))
         /\ \A o \in DOMAIN Fresh[n].outputs : \A b :
              <<"dir", b>> \in Fresh[n].outputs[o] => b \in (DOMAIN done \cap Untouched) \cup {n}
<1> DEFINE r == Last(n).run
<1> DEFINE a == With(Context(n, op), x)
<1> DEFINE c == With(FreshCtx(n), r)
<1>0. n \in Node
  BY UntouchedDeps
<1>1. NoDirs(r.results)
  BY <1>0, LengthsOfLists, RunsKnow DEF FreshRuns, Last
<1>2. NoDirs(x.results) /\ \A i \in DOMAIN x.results : i \in DOMAIN r.results
        /\ r.results[i] = x.results[i]
  BY <1>1 DEF NoDirs, Empty
<1>3. Agrees(a, c, Deps[n])
  BY <1>2, ContextAgrees
<1>4. \A o \in DOMAIN OutputsOf(n) : Mentions(OutputsOf(n)[o]) \subseteq Deps[n]
  BY <1>0 DEF MentionsAreDeps
<1>5. \A o \in DOMAIN OutputsOf(n) : CanSubstitute(OutputsOf(n)[o], a)
  BY DEF CanResolveOutputs
<1> HIDE DEF a, c, r
<1>6. \A o \in DOMAIN OutputsOf(n) :
        /\ CanSubstitute(OutputsOf(n)[o], c)
        /\ substitute(OutputsOf(n)[o], c) = substitute(OutputsOf(n)[o], a)
  BY <1>3, <1>4, <1>5, SameText
<1>7. CanResolveOutputs(OutputsOf(n), c) /\ OutputsIn(n, c) = OutputsIn(n, a)
  BY <1>6 DEF CanResolveOutputs, OutputsIn, ResolveOutputs
<1>8. Fresh[n].ok /\ Fresh[n].outputs = OutputsIn(n, a)
  BY <1>0, <1>7, FreshIs DEF c, r
<1>9. ASSUME NEW o \in DOMAIN Fresh[n].outputs, NEW b, <<"dir", b>> \in Fresh[n].outputs[o]
      PROVE  b \in (DOMAIN done \cap Untouched) \cup {n}
  <2>1. o \in DOMAIN OutputsOf(n) /\ <<"dir", b>> \in substitute(OutputsOf(n)[o], a)
    BY <1>8, <1>9 DEF OutputsIn, ResolveOutputs
  <2>2. DirOf(n) = <<"dir", b>> \/ b \in DOMAIN done \cap Untouched
    BY <1>2, <1>4, <1>5, <2>1, NamedAreDone DEF a
  <2>3. DirOf(n) = <<"dir", b>> => b = n
    BY DEF DirOf
  <2> QED
    BY <2>2, <2>3
<1> QED
  BY <1>8, <1>9 DEF a
-----------------------------------------------------------------------------
(* What the actions leave as it is                                         *)

LEMMA PutIs ==
  ASSUME NEW f, NEW x, NEW new
  PROVE  /\ IsFun(Put(f, x, new)) /\ DOMAIN Put(f, x, new) = DOMAIN f \cup {x}
         /\ Put(f, x, new)[x] = new
         /\ \A y \in DOMAIN f : y # x => Put(f, x, new)[y] = f[y]
BY DEF Put, IsFun

LEMMA WithoutIs ==
  ASSUME NEW f, NEW x
  PROVE  /\ IsFun(Without(f, x)) /\ DOMAIN Without(f, x) = DOMAIN f \ {x}
         /\ \A y \in DOMAIN f \ {x} : Without(f, x)[y] = f[y]
BY DEF Without, IsFun

LEMMA DoneStays ==
  ASSUME LikeFresh, DirsDone, done' = done, UNCHANGED spoiled,
         \A b \in DOMAIN done \cap Build \cap Untouched :
           b \in DOMAIN store' /\ store'[b].files = store[b].files
  PROVE  LikeFresh' /\ DirsDone'
BY UntouchedStays DEF LikeFresh, DirsDone

LEMMA DoneGrows ==
  ASSUME Shapes, LikeFresh, DirsDone, NEW n \in Node, n \notin DOMAIN done, UNCHANGED spoiled,
         NEW outputs, done' = Put(done, n, outputs),
         n \in Untouched =>
           /\ Fresh[n].ok /\ outputs = Fresh[n].outputs
           /\ \A o \in DOMAIN Fresh[n].outputs : \A b :
                <<"dir", b>> \in Fresh[n].outputs[o] => b \in (DOMAIN done \cap Untouched) \cup {n}
           /\ n \in Build => n \in DOMAIN store' /\ Hashed(store'[n].files) = Fresh[n].dirs[n],
         \A b \in DOMAIN done \cap Build \cap Untouched :
           b \in DOMAIN store' /\ store'[b].files = store[b].files
  PROVE  /\ LikeFresh' /\ DirsDone'
         /\ IsFun(done') /\ DOMAIN done' = DOMAIN done \cup {n} /\ DOMAIN done' \subseteq Node
         /\ \A d \in DOMAIN done : done'[d] = done[d]
<1>0. Untouched' = Untouched
  BY UntouchedStays
<1>1. IsFun(done') /\ DOMAIN done' = DOMAIN done \cup {n} /\ DOMAIN done' \subseteq Node
  BY DEF Shapes, DoneShape, Put, IsFun
<1>2. done'[n] = outputs /\ \A d \in DOMAIN done : done'[d] = done[d]
  BY DEF Put
<1>3. LikeFresh'
  BY <1>0, <1>1, <1>2 DEF LikeFresh
<1>4. DirsDone'
  BY <1>0, <1>1, <1>2 DEF DirsDone
<1> QED
  BY <1>1, <1>2, <1>3, <1>4

\* A job that a step does not concern.
LEMMA JobStays ==
  ASSUME MentionsAreDeps, Shapes, NEW m \in DOMAIN jobs, JobOK(m),
         m \in DOMAIN jobs', jobs'[m] = jobs[m],
         (m \in DOMAIN store') = (m \in DOMAIN store),
         m \in DOMAIN store => store'[m] = store[m],
         m \in DOMAIN done' => m \in DOMAIN done, UNCHANGED spoiled,
         \A d \in DOMAIN done : d \in DOMAIN done' /\ done'[d] = done[d]
  PROVE  JobOK(m)'
<1>1. Begun(m) => (m \in Build /\ m \notin DOMAIN store) \/ Begun(m)'
  BY UntouchedStays DEF Begun, RunOf
<1>2. jobs[m].stage = "mark" => CanResolveOutputs(OutputsOf(m), Now(m))'
  <2> SUFFICES ASSUME jobs[m].stage = "mark"
               PROVE  CanResolveOutputs(OutputsOf(m), Now(m))'
    OBVIOUS
  <2>1. m \in Build /\ jobs[m].op = "build" /\ CanResolveOutputs(OutputsOf(m), Now(m))
    BY DEF JobOK
  <2> DEFINE a == With(Context(m, "build"), jobs[m])
  <2>2. Now(m) = a /\ Now(m)' = a'
    BY <2>1 DEF Now
  <2>3. a.results = jobs[m].results /\ a.out = DirOf(m) /\ a.builds = BuildsDone
          /\ a.binds = BindsDone("build")
    BY ContextIs
  <2>4. /\ a'.results = jobs[m].results /\ a'.out = DirOf(m)
        /\ a'.builds = BuildsDone' /\ a'.binds = BindsDone("build")'
    <3>1. a'.results = jobs'[m].results /\ a'.out = DirOf(m)
      BY DEF With, Context
    <3>2. a'.builds = BuildsDone'
      BY DEF With, Context, BuildsDone
    <3>3. a'.binds = BindsDone("build")'
      BY DEF With, Context, BindsDone
    <3> QED
      BY <3>1, <3>2, <3>3
  <2>5. \A d \in DOMAIN BuildsDone : d \in DOMAIN BuildsDone' /\ BuildsDone'[d] = BuildsDone[d]
    BY DEF BuildsDone
  <2>6. DOMAIN BindsDone("build") = {}
    BY DEF BindsDone, Empty
  <2> HIDE DEF a
  <2>7. Agrees(a, a', Deps[m])
    BY <2>3, <2>4, <2>5, <2>6 DEF Agrees
  <2>8. \A o \in DOMAIN OutputsOf(m) : Mentions(OutputsOf(m)[o]) \subseteq Deps[m]
    BY <2>1 DEF MentionsAreDeps, Node
  <2>9. \A o \in DOMAIN OutputsOf(m) : CanSubstitute(OutputsOf(m)[o], a)
    BY <2>1, <2>2 DEF CanResolveOutputs
  <2>10. \A o \in DOMAIN OutputsOf(m) : CanSubstitute(OutputsOf(m)[o], a')
    BY <2>7, <2>8, <2>9, SameText
  <2> QED
    BY <2>2, <2>10 DEF CanResolveOutputs
<1> QED
  BY <1>1, <1>2, UntouchedStays DEF JobOK

\* A directory of the store changes, or comes.
LEMMA StorePut ==
  ASSUME Shapes, NEW n \in Build, NEW files, NEW marker,
         store' = Put(store, n, [files |-> files, marker |-> marker])
  PROVE  /\ StoreShape' /\ DOMAIN store' = DOMAIN store \cup {n}
         /\ store'[n] = [files |-> files, marker |-> marker]
         /\ \A b \in DOMAIN store : b # n => store'[b] = store[b]
<1>1. IsDir([files |-> files, marker |-> marker])
  BY DEF IsDir
<1>2. /\ IsFun(store') /\ DOMAIN store' = DOMAIN store \cup {n}
      /\ store'[n] = [files |-> files, marker |-> marker]
      /\ \A b \in DOMAIN store : b # n => store'[b] = store[b]
  BY DEF Put, IsFun
<1> QED
  BY <1>1, <1>2 DEF Shapes, StoreShape

LEMMA StoreExcept ==
  ASSUME Shapes, NEW n \in DOMAIN store, NEW x
  PROVE  /\ [store EXCEPT ![n].files = x] = Put(store, n, [files |-> x, marker |-> store[n].marker])
         /\ [store EXCEPT ![n].marker = x] = Put(store, n, [files |-> store[n].files, marker |-> x])
         /\ [store EXCEPT ![n] = x] = Put(store, n, x)
<1>1. store[n] = [files |-> store[n].files, marker |-> store[n].marker]
  BY DEF Shapes, StoreShape, IsDir
<1>2. /\ [store[n] EXCEPT !.files = x] = [files |-> x, marker |-> store[n].marker]
      /\ [store[n] EXCEPT !.marker = x] = [files |-> store[n].files, marker |-> x]
  BY <1>1
<1>3. DOMAIN store \cup {n} = DOMAIN store
  OBVIOUS
<1> QED
  BY <1>2, <1>3 DEF Put

\* A job comes, or goes on.
LEMMA JobsPut ==
  ASSUME Shapes, NEW n \in Node, NEW op, NEW stage, NEW results, NEW files,
         jobs' = Put(jobs, n, [op |-> op, stage |-> stage, results |-> results, files |-> files])
  PROVE  /\ JobsShape' /\ DOMAIN jobs' = DOMAIN jobs \cup {n}
         /\ jobs'[n] = [op |-> op, stage |-> stage, results |-> results, files |-> files]
         /\ \A m \in DOMAIN jobs : m # n => jobs'[m] = jobs[m]
<1>1. IsJob([op |-> op, stage |-> stage, results |-> results, files |-> files])
  BY DEF IsJob
<1>2. /\ IsFun(jobs') /\ DOMAIN jobs' = DOMAIN jobs \cup {n}
      /\ jobs'[n] = [op |-> op, stage |-> stage, results |-> results, files |-> files]
      /\ \A m \in DOMAIN jobs : m # n => jobs'[m] = jobs[m]
  BY DEF Put, IsFun
<1> QED
  BY <1>1, <1>2 DEF Shapes, JobsShape

LEMMA JobsExcept ==
  ASSUME Shapes, NEW n \in DOMAIN jobs, NEW x, NEW y
  PROVE  /\ [jobs EXCEPT ![n].stage = x] =
              Put(jobs, n, [op |-> jobs[n].op, stage |-> x,
                            results |-> jobs[n].results, files |-> jobs[n].files])
         /\ [jobs EXCEPT ![n].results = x] =
              Put(jobs, n, [op |-> jobs[n].op, stage |-> jobs[n].stage,
                            results |-> x, files |-> jobs[n].files])
         /\ [jobs EXCEPT ![n].results = x, ![n].files = y] =
              Put(jobs, n, [op |-> jobs[n].op, stage |-> jobs[n].stage,
                            results |-> x, files |-> y])
<1>1. jobs[n] = [op |-> jobs[n].op, stage |-> jobs[n].stage,
                 results |-> jobs[n].results, files |-> jobs[n].files]
  BY DEF Shapes, JobsShape, IsJob
<1>2. /\ [jobs[n] EXCEPT !.stage = x] =
           [op |-> jobs[n].op, stage |-> x, results |-> jobs[n].results, files |-> jobs[n].files]
      /\ [jobs[n] EXCEPT !.results = x] =
           [op |-> jobs[n].op, stage |-> jobs[n].stage, results |-> x, files |-> jobs[n].files]
  BY <1>1
<1>3. [[jobs[n] EXCEPT !.results = x] EXCEPT !.files = y] =
         [op |-> jobs[n].op, stage |-> jobs[n].stage, results |-> x, files |-> y]
  <2> DEFINE job == [jobs[n] EXCEPT !.results = x]
  <2>1. job = [op |-> jobs[n].op, stage |-> jobs[n].stage, results |-> x, files |-> jobs[n].files]
    BY <1>2
  <2> HIDE DEF job
  <2>2. [job EXCEPT !.files = y] =
          [op |-> jobs[n].op, stage |-> jobs[n].stage, results |-> x, files |-> y]
    BY <2>1
  <2> QED
    BY <2>2 DEF job
<1>4. DOMAIN jobs \cup {n} = DOMAIN jobs
  OBVIOUS
<1>5. [jobs EXCEPT ![n].results = x, ![n].files = y] =
         Put(jobs, n, [op |-> jobs[n].op, stage |-> jobs[n].stage, results |-> x, files |-> y])
  BY <1>3, <1>4 DEF Put
<1> QED
  BY <1>2, <1>4, <1>5 DEF Put

\* A job goes.
LEMMA JobsWithout ==
  ASSUME Shapes, NEW n, jobs' = Without(jobs, n)
  PROVE  /\ JobsShape' /\ DOMAIN jobs' = DOMAIN jobs \ {n}
         /\ \A m \in DOMAIN jobs' : m \in DOMAIN jobs /\ jobs'[m] = jobs[m]
BY DEF Shapes, JobsShape, Without, IsFun

\* The jobs that a step of n does not concern.
LEMMA OthersStay ==
  ASSUME MentionsAreDeps, IInv, NEW n \in Node,
         \A m \in DOMAIN jobs' \ {n} : m \in DOMAIN jobs /\ jobs'[m] = jobs[m],
         DOMAIN store' \cup {n} = DOMAIN store \cup {n},
         \A b \in DOMAIN store : b # n => store'[b] = store[b],
         DOMAIN done' \subseteq DOMAIN done \cup {n}, UNCHANGED spoiled,
         \A d \in DOMAIN done : d \in DOMAIN done' /\ done'[d] = done[d]
  PROVE  \A m \in DOMAIN jobs' \ {n} : JobOK(m)'
<1> SUFFICES ASSUME NEW m \in DOMAIN jobs' \ {n} PROVE JobOK(m)'
  OBVIOUS
<1>1. m \in DOMAIN jobs /\ JobOK(m) /\ jobs'[m] = jobs[m]
  BY DEF IInv
<1>2. (m \in DOMAIN store') = (m \in DOMAIN store)
  OBVIOUS
<1>3. m \in DOMAIN store => store'[m] = store[m]
  OBVIOUS
<1> QED
  BY <1>1, <1>2, <1>3, JobStays DEF IInv

\* Nothing of the store, of the jobs and of what is done changes.
LEMMA NothingDone ==
  ASSUME MentionsAreDeps, IInv, UNCHANGED <<store, jobs, done, spoiled>>, PhaseShape',
         ended \subseteq ended', AtRest'
  PROVE  IInv'
<1>1. Shapes' /\ MarkersTell' /\ LikeFresh' /\ DirsDone' /\ DoneEnded'
  BY UntouchedStays
     DEF IInv, Shapes, StoreShape, JobsShape, DoneShape, MarkersTell, LikeFresh, DirsDone, DoneEnded
<1>2. \A m \in DOMAIN jobs' : JobOK(m)'
  BY JobStays DEF IInv
<1> QED
  BY <1>1, <1>2 DEF IInv

\* Nothing is left of a command.
LEMMA Forgotten ==
  ASSUME IInv, Forget, UNCHANGED <<store, spoiled>>, PhaseShape'
  PROVE  IInv'
<1>1. DOMAIN jobs' = {} /\ DOMAIN done' = {} /\ IsFun(jobs') /\ IsFun(done')
  BY DEF Forget, Empty, IsFun
<1>2. Shapes' /\ MarkersTell'
  BY <1>1, UntouchedStays DEF IInv, Shapes, StoreShape, JobsShape, DoneShape, MarkersTell
<1>3. LikeFresh' /\ DirsDone' /\ DoneEnded' /\ AtRest'
  BY <1>1 DEF LikeFresh, DirsDone, DoneEnded, AtRest
<1> QED
  BY <1>1, <1>2, <1>3 DEF IInv

-----------------------------------------------------------------------------
(* The steps                                                               *)

LEMMA InitIInv == Init => IInv
<1> SUFFICES ASSUME Init PROVE IInv
  OBVIOUS
<1>1. DOMAIN jobs = {} /\ DOMAIN done = {} /\ IsFun(jobs) /\ IsFun(done)
  BY DEF Init, Empty, IsFun
<1>2. PICK there \in SUBSET {b \in Build : Fresh[b].ok} :
        store = [b \in there |-> [files |-> Fresh[b].dirs[b], marker |-> Legacy]]
  BY DEF Init
<1>3. IsFun(store) /\ DOMAIN store = there
  BY <1>2 DEF IsFun
<1>4. \A b \in there : IsDir(store[b]) /\ store[b].files = Fresh[b].dirs[b]
        /\ store[b].marker = Legacy
  BY <1>2 DEF IsDir
<1>5. \A b \in there : Fresh[b].ok /\ Hashed(Fresh[b].dirs[b]) = Fresh[b].dirs[b]
  <2> SUFFICES ASSUME NEW b \in there PROVE Hashed(Fresh[b].dirs[b]) = Fresh[b].dirs[b]
    BY <1>2
  <2>1. Fresh[b].dirs = Put(FreshCtx(b).dirs, b, Hashed(Last(b).run.files))
    BY <1>2, FreshIs DEF Node
  <2> QED
    BY <2>1, HashedTwice DEF Put
<1>6. MarkersTell
  <2>1. \A h : Legacy # <<"hash", h>>
    BY DEF Legacy
  <2> QED
    BY <1>3, <1>4, <1>5, <2>1 DEF MarkersTell
<1>7. Shapes
  BY <1>1, <1>2, <1>3, <1>4 DEF Init, Shapes, StoreShape, JobsShape, DoneShape, PhaseShape
<1> QED
  BY <1>1, <1>6, <1>7 DEF IInv, LikeFresh, DirsDone, DoneEnded, AtRest

LEMMA BeginIInv ==
  ASSUME MentionsAreDeps, IInv, NEW nodes, Begin(nodes)
  PROVE  IInv'
<1>1. PhaseShape' /\ AtRest' /\ UNCHANGED <<store, jobs, done, ended, spoiled>>
  BY DEF Begin, PhaseShape, AtRest, disk
<1> QED
  BY <1>1, NothingDone

\* An operation that is ready is of a command that is running.
LEMMA ReadyIs ==
  ASSUME IInv, NEW op, NEW n, Ready(op, n)
  PROVE  /\ phase # "idle" /\ n \notin DOMAIN jobs
         /\ n \in Build /\ op = "build" => n \notin DOMAIN done
         /\ n \in Bind /\ op = "create" => n \notin DOMAIN done
<1>1. <<op, n>> \in Work /\ <<op, n>> \notin ended /\ n \notin DOMAIN jobs
  BY DEF Ready, Left
<1>2. phase # "idle"
  BY <1>1, Zenon DEF Work
<1> QED
  BY <1>1, <1>2 DEF IInv, DoneEnded

LEMMA StartBindIInv ==
  ASSUME MentionsAreDeps, IInv, NEW op \in Operations, NEW n \in Bind, StartBind(op, n)
  PROVE  IInv'
<1>1. /\ n \in Node /\ n \notin Build /\ phase # "idle" /\ n \notin DOMAIN jobs
      /\ op = "create" => n \notin DOMAIN done
  BY ReadyIs, RealizationAssumption DEF StartBind, Node
<1>2. jobs' = Put(jobs, n, [op |-> op, stage |-> "run", results |-> Empty, files |-> Empty])
  BY DEF StartBind, StartJob
<1>3. UNCHANGED <<store, done, ended, phase, spoiled>>
  BY DEF StartBind, disk, command, history
<1>4. /\ JobsShape' /\ DOMAIN jobs' = DOMAIN jobs \cup {n}
      /\ jobs'[n] = [op |-> op, stage |-> "run", results |-> Empty, files |-> Empty]
      /\ \A m \in DOMAIN jobs : m # n => jobs'[m] = jobs[m]
  BY <1>1, <1>2, JobsPut DEF IInv
<1>5. Shapes' /\ MarkersTell' /\ LikeFresh' /\ DirsDone' /\ DoneEnded' /\ AtRest'
  BY <1>1, <1>3, <1>4, UntouchedStays
     DEF IInv, Shapes, StoreShape, DoneShape, PhaseShape, MarkersTell, LikeFresh, DirsDone,
         DoneEnded, AtRest
<1>6. JobOK(n)'
  <2>1. Begun(n)'
    <3>1. Len(jobs'[n].results) = 0
      BY <1>4 DEF Empty
    <3>2. FreshRuns(n)[0].ok /\ FreshRuns(n)[0].run = NoRun
      BY <1>1, LengthsOfLists, RunsAre DEF FreshRuns, Start
    <3>3. RunOf(n)' = NoRun
      BY <1>1, <1>4 DEF RunOf, NoRun
    <3> QED
      BY <1>1, <3>1, <3>2, <3>3, LengthsOfLists DEF Begun
  <2>2. n \notin DOMAIN store
    BY <1>1 DEF IInv, Shapes, StoreShape
  <2> QED
    BY <1>1, <1>3, <1>4, <2>1, <2>2 DEF JobOK, Operations
<1>7. \A m \in DOMAIN jobs' \ {n} : JobOK(m)'
  BY <1>1, <1>3, <1>4, OthersStay
<1> QED
  BY <1>4, <1>5, <1>6, <1>7 DEF IInv

LEMMA StartBuildIInv ==
  ASSUME MentionsAreDeps, IInv, NEW n \in Build, StartBuild(n)
  PROVE  IInv'
<1>1. n \in Node /\ phase # "idle" /\ n \notin DOMAIN jobs /\ n \notin DOMAIN done
  BY ReadyIs DEF StartBuild, Node
<1>2. jobs' = Put(jobs, n, [op |-> "build", stage |-> "clear", results |-> Empty, files |-> Empty])
  BY DEF StartBuild, StartJob
<1>3. UNCHANGED <<store, done, ended, phase, spoiled>>
  BY DEF StartBuild, disk, command, history
<1>4. /\ JobsShape' /\ DOMAIN jobs' = DOMAIN jobs \cup {n}
      /\ jobs'[n] = [op |-> "build", stage |-> "clear", results |-> Empty, files |-> Empty]
      /\ \A m \in DOMAIN jobs : m # n => jobs'[m] = jobs[m]
  BY <1>1, <1>2, JobsPut DEF IInv
<1>5. Shapes' /\ MarkersTell' /\ LikeFresh' /\ DirsDone' /\ DoneEnded' /\ AtRest'
  BY <1>1, <1>3, <1>4, UntouchedStays
     DEF IInv, Shapes, StoreShape, DoneShape, PhaseShape, MarkersTell, LikeFresh, DirsDone,
         DoneEnded, AtRest
<1>6. JobOK(n)'
  <2>1. n \in DOMAIN store => store[n].marker # Legacy
    BY DEF StartBuild, IsHit, verify_build_hash
  <2> QED
    BY <1>1, <1>3, <1>4, <2>1 DEF JobOK
<1>7. \A m \in DOMAIN jobs' \ {n} : JobOK(m)'
  BY <1>1, <1>3, <1>4, OthersStay
<1> QED
  BY <1>4, <1>5, <1>6, <1>7 DEF IInv

\* A hit gives what the build gives from scratch: its marker says that its files
\* are those.
LEMMA HitIInv ==
  ASSUME MentionsAreDeps, IInv, NEW n \in Build, Hit(n)
  PROVE  IInv'
<1>1. n \in Node /\ phase # "idle" /\ n \notin DOMAIN jobs /\ n \notin DOMAIN done
  BY ReadyIs DEF Hit, Node
<1>2. UNCHANGED <<store, jobs, phase, spoiled>>
  BY DEF Hit, disk
<1>3. CASE ~CanResolveOutputs(OutputsOf(n), Context(n, "build"))
  <2>1. UNCHANGED <<done, ended>>
    BY <1>3 DEF Hit
  <2> QED
    BY <1>2, <2>1, NothingDone DEF IInv, Shapes, PhaseShape, AtRest
<1>4. CASE CanResolveOutputs(OutputsOf(n), Context(n, "build"))
  <2> DEFINE ctx == Context(n, "build")
  <2>1. done' = Put(done, n, OutputsIn(n, ctx)) /\ ended' = ended \cup {<<"build", n>>}
    BY <1>4 DEF Hit
  <2>2. With(ctx, NoRun) = ctx
    <3>1. ctx = [results |-> Empty, out |-> ctx.out, dirs |-> ctx.dirs,
                 builds |-> ctx.builds, binds |-> ctx.binds]
      BY DEF Context
    <3>2. NoRun.results = Empty
      BY DEF NoRun
    <3> HIDE DEF ctx
    <3> QED
      BY <3>1, <3>2 DEF With
  <2>3. n \in DOMAIN store /\ (n \in Untouched =>
          Fresh[n].ok /\ Hashed(store[n].files) = Fresh[n].dirs[n])
    <3>1. n \in DOMAIN store /\ store[n].marker \in {Legacy, HashOf(store[n].files)}
      BY DEF Hit, IsHit, verify_build_hash
    <3> QED
      BY <3>1 DEF IInv, MarkersTell, HashOf
  <2>5. n \in Untouched =>
          /\ Fresh[n].outputs = OutputsIn(n, ctx)
          /\ \A o \in DOMAIN Fresh[n].outputs : \A b :
               <<"dir", b>> \in Fresh[n].outputs[o] => b \in (DOMAIN done \cap Untouched) \cup {n}
    <3> HIDE DEF ctx
    <3> SUFFICES ASSUME n \in Untouched
                 PROVE  /\ Fresh[n].outputs = OutputsIn(n, ctx)
                        /\ \A o \in DOMAIN Fresh[n].outputs : \A b :
                             <<"dir", b>> \in Fresh[n].outputs[o] =>
                               b \in (DOMAIN done \cap Untouched) \cup {n}
      OBVIOUS
    <3>1. NoRun.results = Empty
      BY DEF NoRun
    <3>2. Last(n).ok
      BY <1>1, <2>3, FreshIs
    <3> QED
      BY <1>4, <2>2, <3>1, <3>2, OutputsLikeFresh DEF IInv, ctx
  <2> HIDE DEF ctx
  <2>6. \A b \in DOMAIN done \cap Build \cap Untouched : b \in DOMAIN store'
          /\ store'[b].files = store[b].files
    BY <1>2 DEF IInv, LikeFresh
  <2>7. /\ LikeFresh' /\ DirsDone'
        /\ IsFun(done') /\ DOMAIN done' = DOMAIN done \cup {n} /\ DOMAIN done' \subseteq Node
        /\ \A d \in DOMAIN done : done'[d] = done[d]
    BY <1>1, <1>2, <2>1, <2>3, <2>5, <2>6, DoneGrows DEF IInv
  <2>8. Shapes' /\ MarkersTell' /\ DoneEnded' /\ AtRest'
    BY <1>1, <1>2, <2>1, <2>7, UntouchedStays, RealizationAssumption
       DEF IInv, Shapes, StoreShape, JobsShape, DoneShape, PhaseShape, MarkersTell, DoneEnded,
           AtRest
  <2>9. \A m \in DOMAIN jobs' \ {n} : JobOK(m)'
    BY <1>1, <1>2, <2>7, OthersStay
  <2> QED
    BY <1>1, <1>2, <2>7, <2>8, <2>9 DEF IInv
<1> QED
  BY <1>3, <1>4

\* A step of a build's job, in its directory.
LEMMA BuildStep ==
  ASSUME MentionsAreDeps, IInv, NEW n \in Build, n \in DOMAIN jobs,
         UNCHANGED <<done, ended, phase, spoiled>>,
         JobsShape', DOMAIN jobs' = DOMAIN jobs, \A m \in DOMAIN jobs : m # n => jobs'[m] = jobs[m],
         NEW files, NEW marker, store' = Put(store, n, [files |-> files, marker |-> marker]),
         marker # Legacy,
         n \in Untouched => \A h : marker = <<"hash", h>> => Fresh[n].ok /\ h = Fresh[n].dirs[n],
         JobOK(n)'
  PROVE  IInv'
<1>1. n \in Node /\ n \notin DOMAIN done
  BY DEF Node, IInv, JobOK
<1>2. /\ StoreShape' /\ DOMAIN store' = DOMAIN store \cup {n}
      /\ store'[n] = [files |-> files, marker |-> marker]
      /\ \A b \in DOMAIN store : b # n => store'[b] = store[b]
  BY StorePut DEF IInv
<1>3. Shapes' /\ DoneEnded' /\ AtRest'
  BY <1>2 DEF IInv, Shapes, DoneShape, PhaseShape, DoneEnded, AtRest
<1>4. MarkersTell'
  <2>1. Untouched' = Untouched
    BY UntouchedStays
  <2>2. \A b \in DOMAIN store \cap Untouched :
          /\ store[b].marker = Legacy => Fresh[b].ok /\ Hashed(store[b].files) = Fresh[b].dirs[b]
          /\ \A h : store[b].marker = <<"hash", h>> => Fresh[b].ok /\ h = Fresh[b].dirs[b]
    BY DEF IInv, MarkersTell
  <2> SUFFICES ASSUME NEW b \in DOMAIN store' \cap Untouched
               PROVE  /\ store'[b].marker = Legacy =>
                           Fresh[b].ok /\ Hashed(store'[b].files) = Fresh[b].dirs[b]
                      /\ \A h : store'[b].marker = <<"hash", h>> =>
                           Fresh[b].ok /\ h = Fresh[b].dirs[b]
    BY <2>1 DEF MarkersTell
  <2>3. CASE b = n
    BY <1>2, <2>3
  <2>4. CASE b # n
    BY <1>2, <2>2, <2>4
  <2> QED
    BY <2>3, <2>4
<1>5. LikeFresh' /\ DirsDone'
  <2>1. \A b \in DOMAIN done \cap Build \cap Untouched : b \in DOMAIN store' /\ store'[b].files = store[b].files
    BY <1>1, <1>2 DEF IInv, LikeFresh
  <2> QED
    BY <2>1, DoneStays DEF IInv
<1>6. \A m \in DOMAIN jobs' \ {n} : JobOK(m)'
  BY <1>1, <1>2, OthersStay
<1> QED
  BY <1>3, <1>4, <1>5, <1>6 DEF IInv

LEMMA RemovePartIInv ==
  ASSUME MentionsAreDeps, IInv, NEW n \in Build, RemovePart(n)
  PROVE  IInv'
<1>1. n \in DOMAIN jobs /\ jobs[n].stage = "clear" /\ n \in DOMAIN store
  BY DEF RemovePart
<1>2. UNCHANGED <<done, ended, phase, jobs, spoiled>>
  BY DEF RemovePart, command, history
<1>3. PICK left \in Lessened(store[n]) : store' = [store EXCEPT ![n] = left]
  BY DEF RemovePart
<1>4. PICK kept \in SUBSET DOMAIN store[n].files, marker \in {store[n].marker, NoMarker} :
        left = [files |-> [p \in kept |-> store[n].files[p]], marker |-> marker]
  BY <1>3 DEF Lessened
<1> DEFINE files == [p \in kept |-> store[n].files[p]]
<1>5. store' = Put(store, n, [files |-> files, marker |-> marker])
  BY <1>1, <1>3, <1>4, StoreExcept DEF IInv
<1>6. JobOK(n)
  BY <1>1 DEF IInv
<1>7. marker # Legacy /\ (n \in Untouched =>
        \A h : marker = <<"hash", h>> => Fresh[n].ok /\ h = Fresh[n].dirs[n])
  <2>1. store[n].marker # Legacy
    BY <1>1, <1>6 DEF JobOK
  <2> QED
    BY <1>1, <1>4, <2>1 DEF IInv, MarkersTell, NoMarker, Legacy
<1> HIDE DEF files
<1>8. DOMAIN store' = DOMAIN store \cup {n} /\ store'[n].marker = marker
  BY <1>5 DEF Put
<1>9. JobOK(n)'
  <2>1. jobs'[n] = jobs[n] /\ DOMAIN done' = DOMAIN done /\ store'[n].marker # Legacy
    BY <1>2, <1>7, <1>8
  <2> QED
    BY <1>1, <1>6, <2>1, Zenon DEF JobOK
<1>10. JobsShape'
  BY <1>2 DEF IInv, Shapes, JobsShape
<1> QED
  BY <1>1, <1>2, <1>5, <1>7, <1>9, <1>10, BuildStep

LEMMA ClearIInv ==
  ASSUME MentionsAreDeps, IInv, NEW n \in Build, Clear(n)
  PROVE  IInv'
<1>1. n \in DOMAIN jobs /\ jobs[n].stage = "clear" /\ n \in Node
  BY DEF Clear, Node
<1>2. UNCHANGED <<done, ended, phase, spoiled>>
  BY DEF Clear, command, history
<1>3. JobOK(n)
  BY <1>1 DEF IInv
<1>4. store' = Put(store, n, [files |-> Empty, marker |-> NoMarker])
  BY DEF Clear, EmptyDir
<1>5. jobs' = Put(jobs, n, [op |-> jobs[n].op, stage |-> "run",
                            results |-> jobs[n].results, files |-> jobs[n].files])
  BY <1>1, JobsExcept DEF IInv, Clear
<1>6. /\ JobsShape' /\ DOMAIN jobs' = DOMAIN jobs \cup {n}
      /\ jobs'[n] = [op |-> jobs[n].op, stage |-> "run",
                     results |-> jobs[n].results, files |-> jobs[n].files]
      /\ \A m \in DOMAIN jobs : m # n => jobs'[m] = jobs[m]
  <2> HIDE DEF JobsShape
  <2> QED
    BY <1>1, <1>5, JobsPut, Zenon DEF IInv
<1>7. DOMAIN store' = DOMAIN store \cup {n} /\ store'[n] = [files |-> Empty, marker |-> NoMarker]
  BY <1>4 DEF Put
<1>8. NoMarker # Legacy /\ \A h : NoMarker # <<"hash", h>>
  BY DEF NoMarker, Legacy
<1>9. JobOK(n)'
  <2>1. jobs'[n].results = Empty /\ jobs'[n].op = "build" /\ jobs'[n].stage = "run"
    BY <1>3, <1>1, <1>6 DEF JobOK
  <2>2. Len(jobs'[n].results) = 0
    BY <2>1 DEF Empty
  <2>3. FreshRuns(n)[0].ok /\ FreshRuns(n)[0].run = NoRun
    BY <1>1, LengthsOfLists, RunsAre DEF FreshRuns, Start
  <2>4. RunOf(n)' = NoRun
    BY <1>1, <1>7, <2>1 DEF RunOf, NoRun
  <2>5. Begun(n)'
    BY <1>1, <2>2, <2>3, <2>4, LengthsOfLists DEF Begun
  <2> QED
    BY <1>2, <1>3, <1>7, <1>8, <2>1, <2>5 DEF JobOK
<1> QED
  BY <1>1, <1>2, <1>4, <1>6, <1>8, <1>9, BuildStep

\* An action that is run over the store has the outcome it has from scratch.
LEMMA BegunGoesOn ==
  ASSUME MentionsAreDeps, IInv, NEW n \in Untouched, n \in DOMAIN jobs, Running(n), MoreToDo(n),
         jobs[n].op \in {"build", "create"}, CanDo(NextAction(n), Now(n)),
         NEW results, NEW files, Do(NextAction(n), RunOf(n), Now(n)) =
               [results |-> results, files |-> files]
  PROVE  LET i == Len(results)
         IN  /\ i \in 0 .. Len(Creation(n))
             /\ FreshRuns(n)[i].ok
             /\ FreshRuns(n)[i].run = [results |-> results, files |-> files]
<1> DEFINE i == Len(jobs[n].results)
<1>0. n \in Node
  BY UntouchedDeps
<1>1. Begun(n) /\ ListOf(n, jobs[n].op) = Creation(n)
  BY DEF IInv, JobOK, Running, ListOf, Creation
<1>2. i \in 0 .. Len(Creation(n)) /\ i < Len(Creation(n))
  BY <1>1 DEF Begun, MoreToDo
<1>3. FreshRuns(n)[i].ok /\ FreshRuns(n)[i].run = RunOf(n)
  BY <1>1 DEF Begun
<1>4. NextAction(n) = Creation(n)[i + 1] /\ Now(n) = With(Context(n, jobs[n].op), jobs[n])
  BY <1>1 DEF NextAction, Now
<1>5. jobs[n].results = FreshRuns(n)[i].run.results
  BY <1>3 DEF RunOf
<1> HIDE DEF i
<1>6. /\ FreshRuns(n)[i + 1].ok
      /\ FreshRuns(n)[i + 1].run = [results |-> results, files |-> files]
  BY <1>2, <1>3, <1>4, <1>5, ActionLikeFresh DEF IInv
<1>7. Len(results) = i + 1
  <2>1. i + 1 \in 0 .. Len(Creation(n))
    BY <1>0, <1>2, LengthsOfLists
  <2> QED
    BY <1>0, <1>6, <2>1, LengthsOfLists, RunsKnow DEF FreshRuns
<1> QED
  BY <1>0, <1>2, <1>6, <1>7, LengthsOfLists

LEMMA DoIsRun ==
  ASSUME NEW action, NEW run, NEW ctx
  PROVE  IsRun(Do(action, run, ctx))
<1>1. IsRun(Fetched(action, run, ctx))
  BY DEF IsRun, Fetched
<1>2. IsRun(Executed(action, run, ctx))
  BY DEF IsRun, Executed
<1> QED
  BY <1>1, <1>2 DEF Do

LEMMA RunActionIInv ==
  ASSUME MentionsAreDeps, IInv, NEW n \in Node, RunAction(n)
  PROVE  IInv'
<1> DEFINE run == Do(NextAction(n), RunOf(n), Now(n))
<1>1. /\ n \in DOMAIN jobs /\ jobs[n].stage = "run" /\ Running(n) /\ MoreToDo(n)
      /\ CanDo(NextAction(n), Now(n))
  BY DEF RunAction, Running
<1>2. UNCHANGED <<done, ended, phase, spoiled>>
  BY DEF RunAction, command, history
<1>3. JobOK(n)
  BY <1>1 DEF IInv
<1>4. run = [results |-> run.results, files |-> run.files]
  BY DoIsRun DEF IsRun
<1>5. n \in Untouched /\ jobs[n].op \in {"build", "create"} =>
        LET i == Len(run.results)
        IN  /\ i \in 0 .. Len(Creation(n))
            /\ FreshRuns(n)[i].ok
            /\ FreshRuns(n)[i].run = [results |-> run.results, files |-> run.files]
  <2> HIDE DEF run
  <2> QED
    BY <1>1, <1>4, BegunGoesOn DEF run
<1>6. CASE n \in Build
  <2>1. /\ store' = [store EXCEPT ![n].files = run.files]
        /\ jobs' = [jobs EXCEPT ![n].results = run.results]
    BY <1>6 DEF RunAction
  <2> HIDE DEF run
  <2>2. n \in DOMAIN store /\ store[n].marker # Legacy /\ jobs[n].op = "build"
          /\ n \notin DOMAIN done
    BY <1>1, <1>3, <1>6 DEF JobOK
  <2>3. store' = Put(store, n, [files |-> run.files, marker |-> store[n].marker])
    BY <2>1, <2>2, StoreExcept DEF IInv
  <2>4. jobs' = Put(jobs, n, [op |-> "build", stage |-> "run",
                              results |-> run.results, files |-> jobs[n].files])
    BY <1>1, <2>1, <2>2, JobsExcept DEF IInv
  <2>5. /\ JobsShape' /\ DOMAIN jobs' = DOMAIN jobs \cup {n}
        /\ jobs'[n] = [op |-> "build", stage |-> "run",
                       results |-> run.results, files |-> jobs[n].files]
        /\ \A m \in DOMAIN jobs : m # n => jobs'[m] = jobs[m]
    BY <2>4, JobsPut, Zenon DEF IInv
  <2>6. /\ DOMAIN store' = DOMAIN store \cup {n}
        /\ store'[n] = [files |-> run.files, marker |-> store[n].marker]
    BY <2>3 DEF Put
  <2>7. JobOK(n)'
    <3>1. RunOf(n)' = [results |-> run.results, files |-> run.files]
      BY <1>6, <2>5, <2>6 DEF RunOf
    <3>2. Begun(n)'
      BY <1>2, <1>5, <2>2, <2>5, <3>1, UntouchedStays DEF Begun
    <3> QED
      BY <1>2, <1>6, <2>2, <2>5, <2>6, <3>2 DEF JobOK
  <2>8. n \in Untouched => \A h : store[n].marker = <<"hash", h>> => Fresh[n].ok /\ h = Fresh[n].dirs[n]
    BY <2>2 DEF IInv, MarkersTell
  <2> QED
    BY <1>1, <1>2, <1>6, <2>2, <2>3, <2>5, <2>7, <2>8, BuildStep
<1>7. CASE n \notin Build
  <2>1. store' = store /\ jobs' = [jobs EXCEPT ![n].results = run.results, ![n].files = run.files]
    BY <1>7, Zenon DEF RunAction
  <2> HIDE DEF run
  <2>2. n \notin DOMAIN store /\ jobs[n].op \in Operations
    BY <1>3, <1>7 DEF JobOK, IInv, Shapes, StoreShape
  <2>3. jobs' = Put(jobs, n, [op |-> jobs[n].op, stage |-> "run",
                              results |-> run.results, files |-> run.files])
    <3>1. [jobs EXCEPT ![n].results = run.results, ![n].files = run.files] =
            Put(jobs, n, [op |-> jobs[n].op, stage |-> jobs[n].stage,
                          results |-> run.results, files |-> run.files])
      BY <1>1, JobsExcept, Zenon DEF IInv
    <3> QED
      BY <1>1, <2>1, <3>1, Zenon
  <2>4. /\ JobsShape' /\ DOMAIN jobs' = DOMAIN jobs \cup {n}
        /\ jobs'[n] = [op |-> jobs[n].op, stage |-> "run",
                       results |-> run.results, files |-> run.files]
        /\ \A m \in DOMAIN jobs : m # n => jobs'[m] = jobs[m]
    BY <2>3, JobsPut, Zenon DEF IInv
  <2>5. JobOK(n)'
    <3>1. RunOf(n)' = [results |-> run.results, files |-> run.files]
      BY <1>7, <2>4 DEF RunOf
    <3>2. jobs[n].op \in {"build", "create"} => Begun(n)'
      BY <1>2, <1>5, <2>4, <3>1, UntouchedStays DEF Begun
    <3> QED
      BY <1>2, <1>3, <1>7, <2>1, <2>2, <2>4, <3>2 DEF JobOK, Operations
  <2>6. \A m \in DOMAIN jobs' \ {n} : JobOK(m)'
    BY <1>2, <2>1, <2>4, OthersStay
  <2>7. Shapes' /\ MarkersTell' /\ LikeFresh' /\ DirsDone' /\ DoneEnded'
    BY <1>2, <2>1, <2>4, UntouchedStays
       DEF IInv, Shapes, StoreShape, DoneShape, PhaseShape, MarkersTell, LikeFresh, DirsDone,
           DoneEnded
  <2>8. AtRest'
    BY <1>1, <1>2 DEF IInv, AtRest
  <2> QED
    BY <2>5, <2>6, <2>7, <2>8 DEF IInv
<1> QED
  BY <1>6, <1>7

LEMMA MarkIInv ==
  ASSUME MentionsAreDeps, IInv, NEW n \in Build, Mark(n)
  PROVE  IInv'
<1>1. /\ n \in DOMAIN jobs /\ jobs[n].stage = "run" /\ ~MoreToDo(n) /\ n \in Node
      /\ CanResolveOutputs(OutputsOf(n), Now(n))
  BY DEF Mark, Running, Node
<1>2. UNCHANGED <<done, ended, phase, spoiled>>
  BY DEF Mark, command, history
<1>3. JobOK(n)
  BY <1>1 DEF IInv
<1>4. n \in DOMAIN store /\ jobs[n].op = "build" /\ n \notin DOMAIN done /\ Begun(n)
  BY <1>1, <1>3 DEF JobOK
<1>5. store' = Put(store, n, [files |-> store[n].files, marker |-> Torn])
  BY <1>4, StoreExcept DEF IInv, Mark
<1>6. jobs' = Put(jobs, n, [op |-> "build", stage |-> "mark",
                            results |-> jobs[n].results, files |-> jobs[n].files])
  BY <1>1, <1>4, JobsExcept DEF IInv, Mark
<1>7. /\ JobsShape' /\ DOMAIN jobs' = DOMAIN jobs \cup {n}
      /\ jobs'[n] = [op |-> "build", stage |-> "mark",
                     results |-> jobs[n].results, files |-> jobs[n].files]
      /\ \A m \in DOMAIN jobs : m # n => jobs'[m] = jobs[m]
  BY <1>1, <1>6, JobsPut, Zenon DEF IInv
<1>8. /\ DOMAIN store' = DOMAIN store \cup {n}
      /\ store'[n] = [files |-> store[n].files, marker |-> Torn]
      /\ \A b \in DOMAIN store : b # n => store'[b] = store[b]
  BY <1>5 DEF Put
<1>9. Torn # Legacy /\ \A h : Torn # <<"hash", h>>
  BY DEF Torn, Legacy
<1>10. JobOK(n)'
  <2>1. Begun(n)'
    BY <1>1, <1>2, <1>4, <1>7, <1>8, UntouchedStays DEF Begun, RunOf
  <2>2. n \in Untouched => Len(jobs'[n].results) = Len(Creation(n))
    BY <1>1, <1>4, <1>7, LengthsOfLists DEF MoreToDo, Begun, ListOf, Creation
  <2>3. Now(n)' = Now(n)
    <3>1. DirsThere' = DirsThere
      BY <1>4, <1>8 DEF DirsThere
    <3>2. BuildsDone' = BuildsDone
      BY <1>2 DEF BuildsDone
    <3>3. Context(n, "build") = [results |-> Empty, out |-> DirOf(n), dirs |-> DirsThere,
                                 builds |-> BuildsDone, binds |-> Empty]
      BY DEF Context, DirsThere, BuildsDone
    <3>4. Context(n, "build")' = [results |-> Empty, out |-> DirOf(n), dirs |-> DirsThere',
                                  builds |-> BuildsDone', binds |-> Empty]
      BY DEF Context, DirsThere, BuildsDone
    <3>5. Context(n, "build")' = Context(n, "build")
      BY <3>1, <3>2, <3>3, <3>4
    <3> QED
      BY <1>4, <1>7, <3>5 DEF Now, With
  <2> QED
    BY <1>1, <1>2, <1>4, <1>7, <1>8, <1>9, <2>1, <2>2, <2>3, UntouchedStays DEF JobOK
<1> QED
  BY <1>1, <1>2, <1>5, <1>7, <1>9, <1>10, BuildStep

\* A build whose actions have run gives what it gives from scratch.
LEMMA FinishBuildIInv ==
  ASSUME MentionsAreDeps, IInv, NEW n \in Build, FinishBuild(n)
  PROVE  IInv'
<1>1. n \in DOMAIN jobs /\ jobs[n].stage = "mark" /\ n \in Node
  BY DEF FinishBuild, Node
<1>2. JobOK(n)
  BY <1>1 DEF IInv
<1>3. /\ n \in DOMAIN store /\ jobs[n].op = "build" /\ n \notin DOMAIN done /\ Begun(n)
      /\ n \in Untouched => Len(jobs[n].results) = Len(Creation(n))
      /\ CanResolveOutputs(OutputsOf(n), Now(n))
  BY <1>1, <1>2 DEF JobOK
<1>4. store' = Put(store, n, [files |-> store[n].files, marker |-> HashOf(store[n].files)])
  BY <1>3, StoreExcept DEF IInv, FinishBuild
<1>5. /\ StoreShape' /\ DOMAIN store' = DOMAIN store \cup {n}
      /\ store'[n] = [files |-> store[n].files, marker |-> HashOf(store[n].files)]
      /\ \A b \in DOMAIN store : b # n => store'[b] = store[b]
  BY <1>4, StorePut, Zenon DEF IInv
<1>0. UNCHANGED spoiled
  BY DEF FinishBuild, history
<1> DEFINE Whole ==
      /\ Fresh[n].ok /\ Fresh[n].outputs = OutputsIn(n, Now(n))
      /\ \A o \in DOMAIN Fresh[n].outputs : \A b :
           <<"dir", b>> \in Fresh[n].outputs[o] => b \in (DOMAIN done \cap Untouched) \cup {n}
      /\ Fresh[n].dirs[n] = Hashed(store[n].files)
<1>6. n \in Untouched => Whole
  <2> SUFFICES ASSUME n \in Untouched PROVE Whole
    OBVIOUS
  <2>1. Last(n).ok /\ Last(n).run.results = jobs[n].results /\ Last(n).run.files = store[n].files
    BY <1>3 DEF Begun, Last, RunOf
  <2>2. Now(n) = With(Context(n, "build"), jobs[n])
    BY <1>3 DEF Now
  <2>3. /\ Fresh[n].ok /\ Fresh[n].outputs = OutputsIn(n, Now(n))
        /\ \A o \in DOMAIN Fresh[n].outputs : \A b :
             <<"dir", b>> \in Fresh[n].outputs[o] => b \in (DOMAIN done \cap Untouched) \cup {n}
    BY <1>3, <2>1, <2>2, OutputsLikeFresh DEF IInv
  <2>4. Fresh[n].dirs[n] = Hashed(store[n].files)
    BY <1>1, <2>1, FreshIs DEF Put
  <2> QED
    BY <2>3, <2>4
<1> DEFINE outputs == OutputsIn(n, Now(n))
<1>9. /\ done' = Put(done, n, outputs) /\ ended' = ended \cup {<<"build", n>>}
      /\ jobs' = Without(jobs, n) /\ phase' = phase
  BY DEF FinishBuild
<1>10. /\ LikeFresh' /\ DirsDone'
       /\ IsFun(done') /\ DOMAIN done' = DOMAIN done \cup {n} /\ DOMAIN done' \subseteq Node
       /\ \A d \in DOMAIN done : done'[d] = done[d]
  <2>1. \A b \in DOMAIN done \cap Build \cap Untouched : b \in DOMAIN store'
          /\ store'[b].files = store[b].files
    BY <1>3, <1>5 DEF IInv, LikeFresh
  <2>2. n \in Untouched => n \in DOMAIN store' /\ Hashed(store'[n].files) = Fresh[n].dirs[n]
    BY <1>5, <1>6
  <2>3. n \in Untouched =>
          /\ Fresh[n].ok /\ outputs = Fresh[n].outputs
          /\ \A o \in DOMAIN Fresh[n].outputs : \A b :
               <<"dir", b>> \in Fresh[n].outputs[o] => b \in (DOMAIN done \cap Untouched) \cup {n}
    BY <1>6
  <2> HIDE DEF outputs, Whole
  <2> QED
    BY <1>0, <1>1, <1>3, <1>9, <2>1, <2>2, <2>3, DoneGrows DEF IInv
<1> HIDE DEF outputs
<1>11. /\ JobsShape' /\ DOMAIN jobs' = DOMAIN jobs \ {n}
       /\ \A m \in DOMAIN jobs' : m \in DOMAIN jobs /\ jobs'[m] = jobs[m]
  BY <1>9, JobsWithout, Zenon DEF IInv
<1>12. MarkersTell'
  <2>1. n \in Untouched => Fresh[n].ok /\ HashOf(store[n].files) = <<"hash", Fresh[n].dirs[n]>>
    BY <1>6 DEF HashOf
  <2>2. HashOf(store[n].files) # Legacy
    BY DEF HashOf, Legacy
  <2> QED
    BY <1>0, <1>5, <2>1, <2>2, UntouchedStays DEF IInv, MarkersTell
<1>13. Shapes' /\ DoneEnded' /\ AtRest'
  BY <1>1, <1>5, <1>9, <1>10, <1>11, RealizationAssumption
     DEF IInv, Shapes, DoneShape, PhaseShape, DoneEnded, AtRest
<1>14. \A m \in DOMAIN jobs' \ {n} : JobOK(m)'
  BY <1>0, <1>1, <1>5, <1>10, <1>11, OthersStay
<1> QED
  BY <1>10, <1>11, <1>12, <1>13, <1>14 DEF IInv

\* A bind that is created gives what it gives from scratch.
LEMMA FinishBindIInv ==
  ASSUME MentionsAreDeps, IInv, NEW n \in Bind, FinishBind(n)
  PROVE  IInv'
<1>1. /\ n \in DOMAIN jobs /\ jobs[n].stage = "run" /\ ~MoreToDo(n)
      /\ CanResolveOutputs(Patterns(n, jobs[n].op), Now(n))
  BY DEF FinishBind, Running
<1>2. n \in Node /\ n \notin Build /\ JobOK(n)
  BY <1>1, RealizationAssumption DEF Node, IInv
<1>3. /\ UNCHANGED <<store, phase, spoiled>> /\ jobs' = Without(jobs, n)
      /\ ended \cup {<<jobs[n].op, n>>} \subseteq ended'
  BY DEF FinishBind, history
<1>4. /\ JobsShape' /\ DOMAIN jobs' = DOMAIN jobs \ {n}
      /\ \A m \in DOMAIN jobs' : m \in DOMAIN jobs /\ jobs'[m] = jobs[m]
  BY <1>3, JobsWithout, Zenon DEF IInv
<1>5. /\ LikeFresh' /\ DirsDone'
      /\ DoneShape' /\ DOMAIN done' \subseteq DOMAIN done \cup {n}
      /\ jobs[n].op # "create" => done' = done
      /\ \A d \in DOMAIN done : d \in DOMAIN done' /\ done'[d] = done[d]
  <2>1. CASE jobs[n].op # "create"
    <3>1. done' = done
      BY <2>1 DEF FinishBind
    <3> QED
      BY <1>3, <3>1, UntouchedStays, Zenon DEF IInv, Shapes, DoneShape, LikeFresh, DirsDone
  <2>2. CASE jobs[n].op = "create"
    <3> DEFINE outputs == OutputsIn(n, Now(n))
    <3>1. /\ n \notin DOMAIN done /\ Begun(n)
          /\ ListOf(n, jobs[n].op) = Creation(n) /\ Patterns(n, jobs[n].op) = OutputsOf(n)
      BY <1>1, <1>2, <2>2 DEF JobOK, ListOf, Creation, Patterns
    <3>5. n \in Untouched =>
            /\ Fresh[n].ok /\ outputs = Fresh[n].outputs
            /\ \A o \in DOMAIN Fresh[n].outputs : \A b :
                 <<"dir", b>> \in Fresh[n].outputs[o] => b \in (DOMAIN done \cap Untouched) \cup {n}
      <4> SUFFICES ASSUME n \in Untouched
                   PROVE  /\ Fresh[n].ok /\ outputs = Fresh[n].outputs
                          /\ \A o \in DOMAIN Fresh[n].outputs : \A b :
                               <<"dir", b>> \in Fresh[n].outputs[o] =>
                                 b \in (DOMAIN done \cap Untouched) \cup {n}
        OBVIOUS
      <4>1. Len(jobs[n].results) = Len(Creation(n))
        BY <1>1, <1>2, <3>1, LengthsOfLists DEF MoreToDo, Begun
      <4>2. Last(n).ok /\ Last(n).run.results = jobs[n].results
        BY <3>1, <4>1 DEF Begun, Last, RunOf
      <4>3. Now(n) = With(Context(n, "create"), jobs[n])
        BY <2>2 DEF Now
      <4> QED
        BY <1>1, <3>1, <4>2, <4>3, OutputsLikeFresh DEF IInv
    <3>6. done' = Put(done, n, outputs)
      BY <2>2 DEF FinishBind
    <3>7. \A b \in DOMAIN done \cap Build \cap Untouched : b \in DOMAIN store'
            /\ store'[b].files = store[b].files
      BY <1>3 DEF IInv, LikeFresh
    <3> HIDE DEF outputs
    <3>8. /\ LikeFresh' /\ DirsDone'
          /\ IsFun(done') /\ DOMAIN done' = DOMAIN done \cup {n} /\ DOMAIN done' \subseteq Node
          /\ \A d \in DOMAIN done : done'[d] = done[d]
      BY <1>2, <1>3, <3>1, <3>5, <3>6, <3>7, DoneGrows DEF IInv
    <3> QED
      BY <2>2, <3>8 DEF DoneShape
  <2> QED
    BY <2>1, <2>2
<1>6. Shapes' /\ MarkersTell'
  BY <1>3, <1>4, <1>5, UntouchedStays DEF IInv, Shapes, StoreShape, PhaseShape, MarkersTell
<1>7. DoneEnded' /\ AtRest'
  BY <1>1, <1>2, <1>3, <1>5 DEF IInv, DoneEnded, AtRest
<1>8. \A m \in DOMAIN jobs' \ {n} : JobOK(m)'
  BY <1>2, <1>3, <1>4, <1>5, OthersStay
<1> QED
  BY <1>4, <1>5, <1>6, <1>7, <1>8 DEF IInv

LEMMA BreakIInv ==
  ASSUME MentionsAreDeps, IInv, NEW n \in Node, n \in DOMAIN jobs, Break(n)
  PROVE  IInv'
<1>1. UNCHANGED <<store, done, ended, phase, spoiled>> /\ jobs' = Without(jobs, n)
  BY DEF Break, disk, command
<1>2. /\ JobsShape' /\ DOMAIN jobs' = DOMAIN jobs \ {n}
      /\ \A m \in DOMAIN jobs' : m \in DOMAIN jobs /\ jobs'[m] = jobs[m]
  BY <1>1, JobsWithout, Zenon DEF IInv
<1>3. Shapes' /\ MarkersTell' /\ LikeFresh' /\ DirsDone' /\ DoneEnded'
  BY <1>1, <1>2, UntouchedStays
     DEF IInv, Shapes, StoreShape, DoneShape, PhaseShape, MarkersTell, LikeFresh, DirsDone,
         DoneEnded
<1>4. AtRest'
  BY <1>1 DEF IInv, AtRest
<1>5. \A m \in DOMAIN jobs' \ {n} : JobOK(m)'
  BY <1>1, <1>2, OthersStay
<1> QED
  BY <1>2, <1>3, <1>4, <1>5 DEF IInv

LEMMA AdvanceIInv ==
  ASSUME MentionsAreDeps, IInv, Advance
  PROVE  IInv'
<1>1. phase # "idle" /\ phase' = After[phase] /\ UNCHANGED <<store, spoiled>>
  BY DEF Advance, history
<1>2. phase \in {"destroy", "update", "execute", "check", "repair"}
  BY <1>1 DEF IInv, Shapes, PhaseShape
<1>3. PhaseShape'
  BY <1>1, <1>2 DEF PhaseShape, After
<1>4. CASE phase = "repair"
  BY <1>1, <1>3, <1>4, Forgotten DEF Advance
<1>5. CASE phase # "repair"
  <2>1. UNCHANGED <<ended, jobs, done>>
    BY <1>5 DEF Advance
  <2>2. phase' # "idle"
    BY <1>1, <1>2, <1>5 DEF After
  <2> QED
    BY <1>1, <1>3, <2>1, <2>2, NothingDone DEF AtRest
<1> QED
  BY <1>4, <1>5

LEMMA DamageIInv ==
  ASSUME MentionsAreDeps, IInv, NEW n \in Build, Damage(n)
  PROVE  IInv'
<1>1. /\ DOMAIN jobs = {} /\ DOMAIN done = {} /\ n \in DOMAIN store
      /\ UNCHANGED <<jobs, done, ended, phase>>
  BY DEF Damage, IInv, AtRest, command
<1>2. \E files, marker :
        /\ store' = Put(store, n, [files |-> files, marker |-> marker])
        /\ \/ marker = Torn /\ files = store[n].files /\ spoiled' = spoiled
           \/ marker = store[n].marker /\ spoiled' = spoiled \cup {b \in {n} : store[b].marker = Legacy}
  <2>1. CASE store' = [store EXCEPT ![n].marker = Torn] /\ spoiled' = spoiled
    <3>1. store' = Put(store, n, [files |-> store[n].files, marker |-> Torn])
      BY <1>1, <2>1, StoreExcept DEF IInv
    <3> QED
      BY <2>1, <3>1, Zenon
  <2>2. CASE /\ \E files : store' = [store EXCEPT ![n].files = files]
             /\ spoiled' = spoiled \cup {b \in {n} : store[b].marker = Legacy}
    <3>1. PICK files : store' = [store EXCEPT ![n].files = files]
      BY <2>2
    <3>2. store' = Put(store, n, [files |-> files, marker |-> store[n].marker])
      BY <1>1, <3>1, StoreExcept DEF IInv
    <3> QED
      BY <2>2, <3>2, Zenon
  <2>3. \/ store' = [store EXCEPT ![n].marker = Torn] /\ spoiled' = spoiled
        \/ /\ \E files : store' = [store EXCEPT ![n].files = files]
           /\ spoiled' = spoiled \cup {b \in {n} : store[b].marker = Legacy}
    BY Zenon DEF Damage
  <2> QED
    BY <2>1, <2>2, <2>3
<1>3. PICK files, marker :
        /\ store' = Put(store, n, [files |-> files, marker |-> marker])
        /\ \/ marker = Torn /\ files = store[n].files /\ spoiled' = spoiled
           \/ marker = store[n].marker /\ spoiled' = spoiled \cup {b \in {n} : store[b].marker = Legacy}
  BY <1>2
<1>4. /\ StoreShape' /\ DOMAIN store' = DOMAIN store \cup {n}
      /\ store'[n] = [files |-> files, marker |-> marker]
      /\ \A b \in DOMAIN store : b # n => store'[b] = store[b]
  BY <1>3, StorePut, Zenon DEF IInv
<1>5. Untouched' \subseteq Untouched
  <2>1. spoiled \subseteq spoiled'
    BY <1>3
  <2> QED
    BY <2>1, UntouchedShrinks
<1>6. n \in Untouched' => marker # Legacy
  <2>1. n \in Untouched' => n \notin spoiled'
    BY DEF Untouched
  <2> QED
    BY <1>3, <2>1 DEF Torn, Legacy
<1>7. n \in Untouched' => \A h : marker = <<"hash", h>> => Fresh[n].ok /\ h = Fresh[n].dirs[n]
  BY <1>1, <1>3, <1>5 DEF IInv, MarkersTell, Torn
<1>8. MarkersTell'
  <2>1. \A b \in DOMAIN store \cap Untouched' :
          /\ store[b].marker = Legacy => Fresh[b].ok /\ Hashed(store[b].files) = Fresh[b].dirs[b]
          /\ \A h : store[b].marker = <<"hash", h>> => Fresh[b].ok /\ h = Fresh[b].dirs[b]
    BY <1>5 DEF IInv, MarkersTell
  <2> SUFFICES ASSUME NEW b \in DOMAIN store' \cap Untouched'
               PROVE  /\ store'[b].marker = Legacy =>
                           Fresh[b].ok /\ Hashed(store'[b].files) = Fresh[b].dirs[b]
                      /\ \A h : store'[b].marker = <<"hash", h>> =>
                           Fresh[b].ok /\ h = Fresh[b].dirs[b]
    BY DEF MarkersTell
  <2>2. CASE b = n
    BY <1>4, <1>6, <1>7, <2>2
  <2>3. CASE b # n
    BY <1>4, <2>1, <2>3
  <2> QED
    BY <2>2, <2>3
<1>9. Shapes'
  BY <1>1, <1>4 DEF IInv, Shapes, JobsShape, DoneShape, PhaseShape
<1>10. LikeFresh' /\ DirsDone' /\ DoneEnded' /\ AtRest'
  BY <1>1 DEF LikeFresh, DirsDone, DoneEnded, AtRest
<1> QED
  BY <1>1, <1>8, <1>9, <1>10 DEF IInv

LEMMA NextIInv ==
  ASSUME MentionsAreDeps, IInv, [Next]_vars
  PROVE  IInv'
<1>1. CASE \E nodes \in Configs : Begin(nodes)
  BY <1>1, BeginIInv
<1>2. CASE \E n \in Bind, op \in {"destroy", "update", "create", "check", "repair"} :
             StartBind(op, n)
  BY <1>2, StartBindIInv DEF Operations
<1>3. ASSUME NEW n \in Build,
             Hit(n) \/ StartBuild(n) \/ RemovePart(n) \/ Clear(n) \/ Mark(n) \/ FinishBuild(n)
               \/ Damage(n)
      PROVE  IInv'
  BY <1>3, HitIInv, StartBuildIInv, RemovePartIInv, ClearIInv, MarkIInv, FinishBuildIInv, DamageIInv
<1>4. ASSUME NEW n \in Node, RunAction(n) \/ Fail(n) \/ ActionFails(n)
      PROVE  IInv'
  <2>1. CASE RunAction(n)
    BY <1>4, <2>1, RunActionIInv
  <2>2. CASE Fail(n) \/ ActionFails(n)
    BY <1>4, <2>2, BreakIInv DEF Fail, ActionFails, Running
  <2> QED
    BY <1>4, <2>1, <2>2
<1>5. CASE \E n \in Bind : FinishBind(n)
  BY <1>5, FinishBindIInv
<1>6. CASE End
  BY <1>6, Forgotten DEF End, disk, history, PhaseShape
<1>7. CASE Advance
  BY <1>7, AdvanceIInv
<1>8. CASE Crash
  BY <1>8, Forgotten DEF Crash, disk, PhaseShape
<1>9. CASE UNCHANGED vars
  <2>1. UNCHANGED <<store, jobs, done, phase, ended, spoiled>>
    BY <1>9 DEF vars, disk, command, history
  <2> QED
    BY <2>1, NothingDone DEF IInv, Shapes, PhaseShape, AtRest
<1> QED
  BY <1>1, <1>2, <1>3, <1>4, <1>5, <1>6, <1>7, <1>8, <1>9 DEF Next

-----------------------------------------------------------------------------

\* Whatever commands were run, killed and failed, and whatever was damaged since:
\* what it says of markers, runs and outputs it says of what is not made of a
\* build damaged while its marker had no hash.
THEOREM RealizationInvariant ==
  ASSUME MentionsAreDeps
  PROVE  Spec => []IInv
<1>1. IInv /\ [Next]_vars => IInv'
  BY NextIInv
<1> QED
  BY <1>1, InitIInv, PTL DEF Spec

\* What a command holds a node to have given is what its recipe gives from
\* scratch, and the directory of a build that is done holds just what its
\* actions put there, if every definition refers to what it mentions: of every
\* node that is not made, however indirectly, of a build that was damaged while
\* its marker had no hash, the one damage the code does not look for
\* (build/execute.rs:88).
THEOREM StoreLikeFresh ==
  ASSUME MentionsAreDeps
  PROVE  Spec => []LikeFresh
<1>1. IInv => LikeFresh
  BY DEF IInv
<1> QED
  BY <1>1, RealizationInvariant, PTL

-----------------------------------------------------------------------------
(* Whether actions can be done and outputs resolve                         *)

\* What one context offers, the other does as well, whatever it is.
Reaches(a, c) ==
  /\ \A d \in DOMAIN a.builds : d \in DOMAIN c.builds
       /\ DOMAIN a.builds[d] \subseteq DOMAIN c.builds[d]
  /\ \A d \in DOMAIN a.binds : d \in DOMAIN c.binds /\ DOMAIN a.binds[d] \subseteq DOMAIN c.binds[d]

LEMMA ReachesMore ==
  ASSUME NEW a, NEW c, Reaches(a, c), DOMAIN a.results \subseteq DOMAIN c.results
  PROVE  /\ \A pattern : CanSubstitute(pattern, a) => CanSubstitute(pattern, c)
         /\ \A action : CanDo(action, a) => CanDo(action, c)
         /\ \A patterns : CanResolveOutputs(patterns, a) => CanResolveOutputs(patterns, c)
<1>1. \A part : Resolves(part, a) => Resolves(part, c)
  BY DEF Resolves, Offers, Reaches
<1>2. \A pattern : CanSubstitute(pattern, a) => CanSubstitute(pattern, c)
  BY <1>1 DEF CanSubstitute
<1> QED
  BY <1>2 DEF CanDo, CanResolveOutputs

\* What runs to its end in one context runs to its end in one that offers more.
LEMMA RunsThere ==
  ASSUME NEW n, NEW op, NEW ref, NEW ctx, NEW x, Len(ListOf(n, op)) \in Nat,
         IsCtx(ref), IsCtx(ctx), Reaches(ref, ctx), RunAll(n, op, ref).ok,
         IsSeq(x.results), Len(x.results) <= Len(ListOf(n, op))
  PROVE  IF Len(x.results) < Len(ListOf(n, op))
         THEN CanDo(ListOf(n, op)[Len(x.results) + 1], With(ctx, x))
         ELSE CanResolveOutputs(Patterns(n, op), With(ctx, x))
<1> DEFINE list == ListOf(n, op)
<1> DEFINE L == Len(list)
<1> DEFINE i == Len(x.results)
<1> DEFINE r == Runs(list, ref)[i].run
<1>1. Runs(list, ref)[L].ok /\ CanResolveOutputs(Patterns(n, op), With(ref, Runs(list, ref)[L].run))
  BY RunAllIs
<1>2. i \in 0 .. L /\ L \in Nat
  BY DEF IsSeq
<1> HIDE DEF list
<1>3. Runs(list, ref)[i].ok
  BY <1>1, <1>2, RunsOfBeginnings
<1>4. IsSeq(r.results) /\ Len(r.results) = i
  BY <1>2, <1>3, RunsKnow
<1>5. DOMAIN r.results = 1 .. i /\ DOMAIN x.results = 1 .. i
  BY <1>4 DEF IsSeq
<1> DEFINE a == With(ref, r)
<1> DEFINE c == With(ctx, x)
<1>6. /\ a.results = r.results /\ a.builds = ref.builds /\ a.binds = ref.binds
      /\ c.results = x.results /\ c.builds = ctx.builds /\ c.binds = ctx.binds
  BY WithIs
<1> HIDE DEF a, c, r
<1>7. Reaches(a, c) /\ DOMAIN a.results \subseteq DOMAIN c.results
  BY <1>5, <1>6 DEF Reaches
<1>8. CASE i < L
  <2>1. i + 1 \in 1 .. L /\ i + 1 - 1 = i
    BY <1>2, <1>8
  <2>2. Runs(list, ref)[i + 1].ok
    BY <1>1, <1>2, <2>1, RunsOfBeginnings
  <2>3. CanDo(list[i + 1], a)
    BY <1>2, <2>1, <2>2, RunsStep DEF a, r
  <2>4. CanDo(list[i + 1], c)
    BY <1>7, <2>3, ReachesMore
  <2> QED
    BY <1>8, <2>4 DEF c, list
<1>9. CASE ~(i < L)
  <2>1. i = L
    BY <1>2, <1>9
  <2>2. CanResolveOutputs(Patterns(n, op), a)
    BY <1>1, <2>1 DEF a, r
  <2>3. CanResolveOutputs(Patterns(n, op), c)
    BY <1>7, <2>2, ReachesMore
  <2> QED
    BY <1>9, <2>3 DEF c, list
<1> QED
  BY <1>8, <1>9

PhaseFor(op) == IF op \in {"build", "create"} THEN "execute" ELSE op

SavedShape ==
  \A b \in DOMAIN saved : b \in Bind /\ DOMAIN saved[b] = DOMAIN OutputsOf(b)

WantedClosed == \A n \in Node \cap wanted : Deps[n] \subseteq wanted

\* A job runs in its phase, and what it depends on is done, or was there.
JobFits(n) ==
  /\ PhaseFor(jobs[n].op) = phase
  /\ IsSeq(jobs[n].results) /\ Len(ListOf(n, jobs[n].op)) \in Nat
  /\ Len(jobs[n].results) <= Len(ListOf(n, jobs[n].op))
  /\ jobs[n].op \in {"build", "create"} =>
       \A d \in Deps[n] : d \in DOMAIN done \cup DOMAIN saved
  /\ jobs[n].op = "update" => n \in wanted

\* What ended well is done, and has given the outputs it defines.
EndedDone ==
  /\ \A b \in Build : <<"build", b>> \in ended => b \in DOMAIN done
  /\ \A b \in Bind : <<"create", b>> \in ended => b \in DOMAIN done
  /\ \A n \in DOMAIN done : DOMAIN done[n] = DOMAIN OutputsOf(n)

OneAtATime == phase = "update" => \A m, n \in DOMAIN jobs : m = n

\* After one of these failures the states of binds stay as they are.
FailuresLast ==
  /\ \A f \in failures : f[1] = "create" =>
       phase = "idle" \/ (phase = "execute" /\ broken # {})
  /\ \A f \in failures : f[1] = "update" =>
       phase = "idle" \/ (phase = "update" /\ broken # {} /\ DOMAIN jobs = {})

FInv ==
  /\ IInv /\ SavedShape /\ WantedClosed /\ EndedDone /\ OneAtATime
  /\ \A n \in DOMAIN jobs : JobFits(n)
  /\ FailuresLast /\ FailsByItself

\* What FailsByItself says of a failure.
Excused(op, n) ==
  \/ op \in {"build", "create"} /\ ~Fresh[n].ok
  \/ op \in {"destroy", "check", "repair"} /\ ~RunAll(n, op, Nothing(n)).ok
  \/ op = "update" /\ ~RunAll(n, op, Planned(n)).ok
  \/ op = "update" /\ \E d \in Deps[n] \cap Bind : d \notin DOMAIN saved
  \/ op = "build" /\ MentionsAction(OutputsOf(n))
  \/ op = "create" /\ \E d \in Deps[n] \cap Bind : d \in DOMAIN saved

LEMMA FailsByItselfIs == FailsByItself <=> \A f \in failures : Excused(f[1], f[2])
BY DEF FailsByItself, Excused

\* A step within a phase that saves nothing; it may fail an operation that is
\* excused.
LEMMA StepFits ==
  ASSUME FInv, IInv', UNCHANGED <<phase, wanted, saved>>, broken \subseteq broken',
         DOMAIN done \subseteq DOMAIN done', EndedDone',
         \A m \in DOMAIN jobs' :
           /\ m \in DOMAIN jobs /\ jobs'[m].op = jobs[m].op
           /\ IsSeq(jobs'[m].results)
           /\ Len(jobs'[m].results) <= Len(ListOf(m, jobs[m].op)),
         NEW op, NEW n, failures' \subseteq failures \cup {<<op, n>>},
         \/ failures' = failures
         \/ /\ Excused(op, n) /\ PhaseFor(op) = phase /\ broken' # {}
            /\ op = "update" => DOMAIN jobs' = {}
  PROVE  FInv'
<1>1. SavedShape' /\ WantedClosed'
  BY DEF FInv, SavedShape, WantedClosed
<1>2. OneAtATime'
  BY DEF FInv, OneAtATime
<1>3. \A m \in DOMAIN jobs' : JobFits(m)'
  BY DEF FInv, JobFits
<1>4. FailuresLast'
  <2>1. ASSUME NEW f \in failures', f[1] = "create"
        PROVE  phase = "idle" \/ (phase = "execute" /\ broken' # {})
    <3>1. CASE f \in failures
      BY <2>1, <3>1 DEF FInv, FailuresLast
    <3>2. CASE f \notin failures
      BY <2>1, <3>2 DEF PhaseFor
    <3> QED
      BY <3>1, <3>2
  <2>2. ASSUME NEW f \in failures', f[1] = "update"
        PROVE  phase = "idle" \/ (phase = "update" /\ broken' # {} /\ DOMAIN jobs' = {})
    <3>1. CASE f \in failures
      BY <2>2, <3>1 DEF FInv, FailuresLast
    <3>2. CASE f \notin failures
      BY <2>2, <3>2 DEF PhaseFor
    <3> QED
      BY <3>1, <3>2
  <2> QED
    BY <2>1, <2>2 DEF FailuresLast
<1>5. FailsByItself'
  <2>1. \A f \in failures' : Excused(f[1], f[2])
    BY FailsByItselfIs DEF FInv
  <2> QED
    BY <2>1 DEF FailsByItself, Excused
<1> QED
  BY <1>1, <1>2, <1>3, <1>4, <1>5 DEF FInv

LEMMA ContextOf ==
  ASSUME NEW n, NEW op
  PROVE  /\ IsCtx(Context(n, op))
         /\ op \in {"build", "create"} =>
              Context(n, op).builds = BuildsDone /\ Context(n, op).binds = BindsDone(op)
         /\ op = "update" =>
              /\ Context(n, op).builds = [b \in wanted \cap Build |-> LiteralOutputs(b)]
              /\ Context(n, op).binds = [b \in wanted \cap DOMAIN saved |-> saved[b]]
<1>1. IsCtx(Context(n, op))
  BY DEF Context, IsCtx
<1>2. op \in {"build", "create"} =>
        Context(n, op).builds = BuildsDone /\ Context(n, op).binds = BindsDone(op)
  BY DEF Context, BuildsDone, BindsDone
<1>3. op = "update" =>
        /\ Context(n, op).builds = [b \in wanted \cap Build |-> LiteralOutputs(b)]
        /\ Context(n, op).binds = [b \in wanted \cap DOMAIN saved |-> saved[b]]
  BY DEF Context
<1> QED
  BY <1>1, <1>2, <1>3

\* What a node that is created is made of from scratch is there when all it
\* depends on is done.
LEMMA FreshReaches ==
  ASSUME FInv, NEW n \in Node, NEW op \in {"build", "create"},
         \A d \in Deps[n] : d \in DOMAIN done,
         op = "build" => n \in Build
  PROVE  Reaches(FreshCtx(n), Context(n, op))
<1>1. /\ FreshCtx(n).builds = [d \in Able(n) \cap Build |-> Fresh[d].outputs]
      /\ FreshCtx(n).binds = [d \in Able(n) \cap Bind |-> Fresh[d].outputs]
  BY FreshContext
<1>2. Context(n, op).builds = BuildsDone /\ Context(n, op).binds = BindsDone(op)
  BY ContextOf
<1>3. \A d \in Able(n) : d \in DOMAIN done /\ DOMAIN done[d] = DOMAIN Fresh[d].outputs
  <2> SUFFICES ASSUME NEW d \in Able(n)
               PROVE  d \in DOMAIN done /\ DOMAIN done[d] = DOMAIN Fresh[d].outputs
    OBVIOUS
  <2>1. d \in DOMAIN done /\ d \in Node /\ Fresh[d].ok
    BY RealizationAssumption DEF Able, Node
  <2>2. Fresh[d].outputs = OutputsIn(d, With(FreshCtx(d), Last(d).run))
    BY <2>1, FreshIs
  <2>3. DOMAIN Fresh[d].outputs = DOMAIN OutputsOf(d)
    BY <2>2 DEF OutputsIn, ResolveOutputs
  <2> QED
    BY <2>1, <2>3 DEF FInv, EndedDone
<1>4. op = "build" => Able(n) \cap Bind = {}
  BY RealizationAssumption DEF Able
<1> QED
  BY <1>1, <1>2, <1>3, <1>4 DEF Reaches, BuildsDone, BindsDone

LEMMA PlannedReaches ==
  ASSUME FInv, NEW n \in Node, n \in wanted,
         \A d \in Deps[n] \cap Bind : d \in DOMAIN saved
  PROVE  IsCtx(Planned(n)) /\ Reaches(Planned(n), Context(n, "update"))
<1>1. /\ IsCtx(Planned(n))
      /\ Planned(n).builds = [b \in Deps[n] \cap Build |-> OutputsOf(b)]
      /\ Planned(n).binds = [b \in Deps[n] \cap Bind |-> OutputsOf(b)]
  <2> DEFINE builds == [b \in Deps[n] \cap Build |-> OutputsOf(b)]
  <2> DEFINE binds == [b \in Deps[n] \cap Bind |-> OutputsOf(b)]
  <2> DEFINE half == [Nothing(n) EXCEPT !.builds = builds]
  <2>1. half = [results |-> Empty, out |-> DirOf(n), dirs |-> Empty, builds |-> builds,
          binds |-> Empty]
    BY DEF Nothing
  <2>2. Planned(n) = [half EXCEPT !.binds = binds]
    BY Zenon DEF Planned
  <2> HIDE DEF half, builds, binds
  <2>3. Planned(n) = [results |-> Empty, out |-> DirOf(n), dirs |-> Empty, builds |-> builds,
          binds |-> binds]
    BY <2>1, <2>2
  <2>4. IsCtx(Planned(n)) /\ Planned(n).builds = builds /\ Planned(n).binds = binds
    BY <2>3 DEF IsCtx
  <2> QED
    BY <2>4 DEF builds, binds
<1>2. /\ Context(n, "update").builds = [b \in wanted \cap Build |-> LiteralOutputs(b)]
      /\ Context(n, "update").binds = [b \in wanted \cap DOMAIN saved |-> saved[b]]
  BY ContextOf
<1>3. Deps[n] \subseteq wanted
  BY DEF FInv, WantedClosed
<1>4. \A b : DOMAIN LiteralOutputs(b) = DOMAIN OutputsOf(b)
  BY DEF LiteralOutputs
<1>5. \A b \in DOMAIN saved : DOMAIN saved[b] = DOMAIN OutputsOf(b)
  BY DEF FInv, SavedShape
<1> QED
  BY <1>1, <1>2, <1>3, <1>4, <1>5 DEF Reaches

\* A definition that can run from scratch can run to its end in the context in
\* which it is realized.
LEMMA FreshRunsToItsEnd ==
  ASSUME NEW n \in Node, NEW op \in {"build", "create"}
  PROVE  /\ ListOf(n, op) = Creation(n) /\ Patterns(n, op) = OutputsOf(n)
         /\ IsCtx(FreshCtx(n)) /\ RunAll(n, op, FreshCtx(n)).ok = Fresh[n].ok
<1>1. ListOf(n, op) = Creation(n) /\ Patterns(n, op) = OutputsOf(n)
  BY DEF ListOf, Creation, Patterns
<1>2. Runs(ListOf(n, op), FreshCtx(n))[Len(ListOf(n, op))] = Last(n)
  BY <1>1 DEF Last, FreshRuns
<1>3. RunAll(n, op, FreshCtx(n)).ok =
        (Last(n).ok /\ CanResolveOutputs(OutputsOf(n), With(FreshCtx(n), Last(n).run)))
  BY <1>1, <1>2, LengthsOfLists, RunAllIs
<1> QED
  BY <1>1, <1>3, FreshCtxIs, FreshIs

LEMMA FailIsExcused ==
  ASSUME FInv, NEW n \in Node, Fail(n)
  PROVE  Excused(jobs[n].op, n)
<1> DEFINE op == jobs[n].op
<1> SUFFICES ASSUME ~Excused(op, n) PROVE FALSE
  OBVIOUS
<1>1. n \in DOMAIN jobs /\ JobFits(n) /\ JobOK(n)
  BY DEF Fail, Running, FInv, IInv
<1>2. /\ IsSeq(jobs[n].results) /\ Len(ListOf(n, op)) \in Nat
      /\ Len(jobs[n].results) <= Len(ListOf(n, op))
  BY <1>1 DEF JobFits
<1>3. IF Len(jobs[n].results) < Len(ListOf(n, op))
      THEN ~CanDo(ListOf(n, op)[Len(jobs[n].results) + 1], With(Context(n, op), jobs[n]))
      ELSE ~CanResolveOutputs(Patterns(n, op), With(Context(n, op), jobs[n]))
  BY DEF Fail, MoreToDo, NextAction, Now
<1>4. ASSUME NEW ref, IsCtx(ref), RunAll(n, op, ref).ok, Reaches(ref, Context(n, op))
      PROVE  FALSE
  <2>1. IsCtx(Context(n, op))
    BY ContextOf
  <2> QED
    BY <1>2, <1>3, <1>4, <2>1, RunsThere
<1>5. CASE op \in {"build", "create"}
  <2>1. Fresh[n].ok
    BY <1>5 DEF Excused
  <2>2. op = "build" => n \in Build
    BY <1>1, RealizationAssumption DEF JobOK, Operations, Node
  <2>3. \A d \in Deps[n] : d \in DOMAIN done
    <3>1. \A d \in Deps[n] : d \in DOMAIN done \cup DOMAIN saved
      BY <1>1, <1>5 DEF JobFits
    <3>2. DOMAIN saved \subseteq Bind
      BY DEF FInv, SavedShape
    <3>3. op = "build" => Deps[n] \cap Bind = {}
      BY <2>2, RealizationAssumption
    <3>4. op = "create" => \A d \in Deps[n] \cap Bind : d \notin DOMAIN saved
      BY DEF Excused
    <3> QED
      BY <1>5, <3>1, <3>2, <3>3, <3>4
  <2>4. Reaches(FreshCtx(n), Context(n, op))
    BY <1>5, <2>2, <2>3, FreshReaches
  <2> QED
    BY <1>4, <1>5, <2>1, <2>4, FreshRunsToItsEnd
<1>6. CASE op = "update"
  <2>1. RunAll(n, op, Planned(n)).ok /\ \A d \in Deps[n] \cap Bind : d \in DOMAIN saved
    BY <1>6 DEF Excused
  <2>2. n \in wanted
    BY <1>1, <1>6 DEF JobFits
  <2> QED
    BY <1>4, <1>6, <2>1, <2>2, PlannedReaches
<1>7. CASE op \in {"destroy", "check", "repair"}
  <2>1. RunAll(n, op, Nothing(n)).ok
    BY <1>7 DEF Excused
  <2>2. IsCtx(Nothing(n)) /\ Reaches(Nothing(n), Context(n, op))
    BY DEF Nothing, IsCtx, Reaches, Empty
  <2> QED
    BY <1>4, <2>1, <2>2
<1> QED
  BY <1>1, <1>5, <1>6, <1>7 DEF JobOK, Operations

\* Outputs that do not mention actions resolve without running any.
LEMMA HitIsExcused ==
  ASSUME FInv, NEW n \in Build, \A d \in Deps[n] : d \in DOMAIN done,
         ~CanResolveOutputs(OutputsOf(n), Context(n, "build"))
  PROVE  Excused("build", n)
<1> SUFFICES ASSUME Fresh[n].ok, ~MentionsAction(OutputsOf(n)) PROVE FALSE
  BY DEF Excused
<1>1. n \in Node
  BY DEF Node
<1> DEFINE a == With(FreshCtx(n), Last(n).run)
<1> DEFINE c == Context(n, "build")
<1>2. CanResolveOutputs(OutputsOf(n), a)
  BY <1>1, FreshIs
<1>3. Reaches(a, c)
  <2>1. Reaches(FreshCtx(n), c)
    BY <1>1, FreshReaches
  <2>2. a.builds = FreshCtx(n).builds /\ a.binds = FreshCtx(n).binds
    BY <1>1, FreshCtxIs, WithIs
  <2> QED
    BY <2>1, <2>2 DEF Reaches
<1> HIDE DEF a, c
<1>4. \A part : part[1] # "action" /\ Resolves(part, a) => Resolves(part, c)
  BY <1>3 DEF Resolves, Offers, Reaches
<1>5. \A o \in DOMAIN OutputsOf(n) : \A part \in OutputsOf(n)[o] : part[1] # "action"
  BY DEF MentionsAction
<1>6. CanResolveOutputs(OutputsOf(n), c)
  BY <1>2, <1>4, <1>5 DEF CanResolveOutputs, CanSubstitute
<1> QED
  BY <1>6 DEF c

-----------------------------------------------------------------------------
(* The steps again                                                         *)

LEMMA WorkIs ==
  ASSUME FInv, NEW op, NEW n, <<op, n>> \in Work
  PROVE  \/ phase = "destroy" /\ op = "destroy" /\ n \in Bind
         \/ phase = "update" /\ op = "update" /\ n \in wanted \cap Bind /\ Updated(n)
         \/ phase = "execute" /\ op = "build" /\ n \in wanted \cap Build
         \/ phase = "execute" /\ op = "create" /\ n \in wanted \cap Bind
         \/ phase = "check" /\ op = "check" /\ n \in wanted \cap Bind
              /\ "check" \in DOMAIN Recipe[n]
         \/ phase = "repair" /\ op = "repair" /\ n \in Bind
<1>1. phase \in {"idle", "destroy", "update", "execute", "check", "repair"}
  BY DEF FInv, IInv, Shapes, PhaseShape
<1>2. CASE phase = "idle"
  BY <1>2, Zenon DEF Work
<1>3. CASE phase = "destroy"
  <2>1. Work = {"destroy"} \X {o \in Bind \ wanted :
                 HasState(o) /\ ~ \E b \in wanted \cap Bind : Updated(b) /\ Old[b] = o}
    BY <1>3, Zenon DEF Work
  <2> QED
    BY <1>3, <2>1
<1>4. CASE phase = "update"
  <2>1. Work = {"update"} \X {b \in wanted \cap Bind : Updated(b)}
    BY <1>4, Zenon DEF Work
  <2> QED
    BY <1>4, <2>1
<1>5. CASE phase = "execute"
  <2>1. Work = ({"build"} \X ToRealize) \cup ({"create"} \X {b \in wanted \cap Bind : ~HasState(b)})
    BY <1>5, Zenon DEF Work
  <2> QED
    BY <1>5, <2>1 DEF ToRealize
<1>6. CASE phase = "check"
  <2>1. Work = {"check"} \X {b \in Unchanged : "check" \in DOMAIN Recipe[b]}
    BY <1>6, Zenon DEF Work
  <2> QED
    BY <1>6, <2>1 DEF Unchanged
<1>7. CASE phase = "repair"
  <2>1. Work = {"repair"} \X {b \in Bind : <<"drifted", b>> \in ended}
    BY <1>7, Zenon DEF Work
  <2> QED
    BY <1>7, <2>1
<1> QED
  BY <1>1, <1>2, <1>3, <1>4, <1>5, <1>6, <1>7

\* An operation that is ready fits its phase, and what it depends on is done or
\* was there.
LEMMA ReadyFits ==
  ASSUME FInv, NEW op, NEW n, Ready(op, n)
  PROVE  /\ n \in Node /\ PhaseFor(op) = phase /\ Len(ListOf(n, op)) \in Nat
         /\ op \in {"build", "create"} =>
              \A d \in Deps[n] : d \in DOMAIN done \cup DOMAIN saved
         /\ op = "update" => n \in wanted /\ broken = {}
         /\ phase = "update" => DOMAIN jobs = {}
<1>1. <<op, n>> \in Work
  BY DEF Ready, Left
<1>2. \/ phase = "destroy" /\ op = "destroy" /\ n \in Bind
      \/ phase = "update" /\ op = "update" /\ n \in wanted \cap Bind /\ Updated(n)
      \/ phase = "execute" /\ op = "build" /\ n \in wanted \cap Build
      \/ phase = "execute" /\ op = "create" /\ n \in wanted \cap Bind
      \/ phase = "check" /\ op = "check" /\ n \in wanted \cap Bind /\ "check" \in DOMAIN Recipe[n]
      \/ phase = "repair" /\ op = "repair" /\ n \in Bind
  BY <1>1, WorkIs
<1>3. n \in Node
  BY <1>2 DEF Node
<1>4. PhaseFor(op) = phase
  BY <1>2 DEF PhaseFor
<1>5. Len(ListOf(n, op)) \in Nat
  <2>1. op = "update" => "update" \in DOMAIN Recipe[n]
    BY <1>2, RecipeAssumption DEF Updated
  <2>2. op = "destroy" => "destroy" \in DOMAIN Recipe[n]
    BY <1>2, RecipeAssumption
  <2>3. op = "check" => "check" \in DOMAIN Recipe[n]
    BY <1>2
  <2>4. "create" \in DOMAIN Recipe[n] /\ \A o \in DOMAIN Recipe[n] : Len(Recipe[n][o]) \in Nat
    BY <1>3, RecipeAssumption
  <2> QED
    BY <1>2, <2>1, <2>2, <2>3, <2>4 DEF ListOf
<1>6. ASSUME op \in {"build", "create"}, NEW d \in Deps[n]
      PROVE  d \in DOMAIN done \cup DOMAIN saved
  <2>1. phase = "execute" /\ n \in wanted
    BY <1>2, <1>6
  <2>2. d \in wanted /\ d \in Node
    BY <1>3, <1>6, <2>1, RealizationAssumption DEF FInv, WantedClosed, Node
  <2>3. Work = ({"build"} \X ToRealize) \cup ({"create"} \X {b \in wanted \cap Bind : ~HasState(b)})
    BY <2>1, Zenon DEF Work
  <2>4. \A work \in Work : work[2] \in Deps[n] => work \in ended
    BY <2>1 DEF Ready
  <2>5. CASE d \in Build
    <3>1. <<"build", d>> \in Work
      BY <2>2, <2>3, <2>5 DEF ToRealize
    <3>2. <<"build", d>> \in ended
      BY <1>6, <2>4, <3>1
    <3> QED
      BY <2>5, <3>2 DEF FInv, EndedDone
  <2>6. CASE d \in Bind /\ d \notin DOMAIN saved
    <3>1. <<"create", d>> \in Work
      BY <2>2, <2>3, <2>6 DEF HasState
    <3>2. <<"create", d>> \in ended
      BY <1>6, <2>4, <3>1
    <3> QED
      BY <2>6, <3>2 DEF FInv, EndedDone
  <2> QED
    BY <2>2, <2>5, <2>6 DEF Node
<1>7. op = "update" => n \in wanted /\ broken = {}
  BY <1>2 DEF Ready
<1>8. phase = "update" => DOMAIN jobs = {}
  BY DEF Ready, Empty
<1> QED
  BY <1>3, <1>4, <1>5, <1>6, <1>7, <1>8

\* A job begins.
LEMMA StartFits ==
  ASSUME FInv, IInv', NEW op, NEW n, Ready(op, n), NEW stage, StartJob(op, n, stage),
         UNCHANGED <<phase, wanted, ended, saved, done, broken, failures>>
  PROVE  FInv'
<1>1. /\ n \in Node /\ PhaseFor(op) = phase /\ Len(ListOf(n, op)) \in Nat
      /\ op \in {"build", "create"} =>
           \A d \in Deps[n] : d \in DOMAIN done \cup DOMAIN saved
      /\ op = "update" => n \in wanted /\ broken = {}
      /\ phase = "update" => DOMAIN jobs = {}
  BY ReadyFits
<1>2. jobs' = Put(jobs, n, [op |-> op, stage |-> stage, results |-> Empty, files |-> Empty])
  BY DEF StartJob
<1>3. /\ DOMAIN jobs' = DOMAIN jobs \cup {n}
      /\ jobs'[n] = [op |-> op, stage |-> stage, results |-> Empty, files |-> Empty]
      /\ \A m \in DOMAIN jobs : m # n => jobs'[m] = jobs[m]
  BY <1>2 DEF Put
<1>4. SavedShape' /\ WantedClosed' /\ EndedDone' /\ FailsByItself'
  BY DEF FInv, SavedShape, WantedClosed, EndedDone, FailsByItself
<1>5. OneAtATime'
  BY <1>1, <1>3 DEF OneAtATime
<1>6. JobFits(n)'
  <2>1. IsSeq(Empty) /\ Len(Empty) = 0
    BY DEF IsSeq, Empty
  <2>2. jobs'[n].op = op /\ jobs'[n].results = Empty
    BY <1>3
  <2> QED
    BY <1>1, <2>1, <2>2 DEF JobFits
<1>7. \A m \in DOMAIN jobs' \ {n} : JobFits(m)'
  BY <1>3 DEF FInv, JobFits
<1>8. FailuresLast'
  <2>1. phase = "update" => op = "update"
    BY <1>1 DEF PhaseFor
  <2>2. \A f \in failures : f[1] = "update" => phase # "update"
    BY <1>1, <2>1 DEF FInv, FailuresLast
  <2> QED
    BY <2>2 DEF FInv, FailuresLast
<1> QED
  BY <1>4, <1>5, <1>6, <1>7, <1>8 DEF FInv

\* A step within a phase that saves nothing and fails nothing.
LEMMA QuietStepFits ==
  ASSUME FInv, IInv', UNCHANGED <<phase, wanted, saved, failures>>, broken \subseteq broken',
         DOMAIN done \subseteq DOMAIN done', EndedDone',
         \A m \in DOMAIN jobs' :
           /\ m \in DOMAIN jobs /\ jobs'[m].op = jobs[m].op
           /\ jobs'[m].results = jobs[m].results
              \/ /\ IsSeq(jobs'[m].results)
                 /\ Len(jobs'[m].results) <= Len(ListOf(m, jobs[m].op))
  PROVE  FInv'
<1>1. \A m \in DOMAIN jobs' :
        /\ m \in DOMAIN jobs /\ jobs'[m].op = jobs[m].op
        /\ IsSeq(jobs'[m].results)
        /\ Len(jobs'[m].results) <= Len(ListOf(m, jobs[m].op))
  BY DEF FInv, JobFits
<1>2. failures' \subseteq failures \cup {<<"build", {}>>}
  OBVIOUS
<1> QED
  BY <1>1, <1>2, StepFits

\* A node that gives its outputs.
LEMMA OutputsPut ==
  ASSUME NEW n, NEW ctx, done' = Put(done, n, OutputsIn(n, ctx)),
         \A m \in DOMAIN done : DOMAIN done[m] = DOMAIN OutputsOf(m)
  PROVE  /\ DOMAIN done' = DOMAIN done \cup {n}
         /\ \A m \in DOMAIN done' : DOMAIN done'[m] = DOMAIN OutputsOf(m)
<1>1. DOMAIN OutputsIn(n, ctx) = DOMAIN OutputsOf(n)
  BY DEF OutputsIn, ResolveOutputs
<1>2. /\ DOMAIN done' = DOMAIN done \cup {n} /\ done'[n] = OutputsIn(n, ctx)
      /\ \A m \in DOMAIN done : m # n => done'[m] = done[m]
  BY DEF Put
<1> QED
  BY <1>1, <1>2

LEMMA HitFits ==
  ASSUME MentionsAreDeps, FInv, NEW n \in Build, Hit(n)
  PROVE  FInv'
<1>1. IInv'
  BY HitIInv DEF FInv
<1>2. Ready("build", n) /\ UNCHANGED <<phase, wanted, saved, jobs>>
  BY DEF Hit, disk
<1>3. CASE CanResolveOutputs(OutputsOf(n), Context(n, "build"))
  <2>1. /\ done' = Put(done, n, OutputsIn(n, Context(n, "build")))
        /\ ended' = ended \cup {<<"build", n>>}
        /\ UNCHANGED <<broken, failures>>
    BY <1>3 DEF Hit
  <2>2. DOMAIN done' = DOMAIN done \cup {n} /\ EndedDone'
    BY <2>1, OutputsPut DEF FInv, EndedDone
  <2> QED
    BY <1>1, <1>2, <2>1, <2>2, QuietStepFits
<1>4. CASE ~CanResolveOutputs(OutputsOf(n), Context(n, "build"))
  <2>1. /\ broken' = broken \cup {<<"build", n>>} /\ failures' = failures \cup {<<"build", n>>}
        /\ UNCHANGED <<done, ended>>
    BY <1>4 DEF Hit
  <2>2. n \in Node /\ PhaseFor("build") = phase
        /\ \A d \in Deps[n] : d \in DOMAIN done \cup DOMAIN saved
    BY <1>2, ReadyFits
  <2>3. \A d \in Deps[n] : d \in DOMAIN done
    BY <2>2, RealizationAssumption DEF FInv, SavedShape
  <2>4. Excused("build", n)
    BY <1>4, <2>3, HitIsExcused
  <2>5. EndedDone'
    BY <2>1 DEF FInv, EndedDone
  <2>6. \A m \in DOMAIN jobs' :
          /\ m \in DOMAIN jobs /\ jobs'[m].op = jobs[m].op
          /\ IsSeq(jobs'[m].results)
          /\ Len(jobs'[m].results) <= Len(ListOf(m, jobs[m].op))
    BY <1>2 DEF FInv, JobFits
  <2>7. broken' # {} /\ broken \subseteq broken' /\ DOMAIN done \subseteq DOMAIN done'
    BY <2>1
  <2> QED
    BY <1>1, <1>2, <2>1, <2>2, <2>4, <2>5, <2>6, <2>7, StepFits
<1> QED
  BY <1>3, <1>4

LEMMA DoAppends ==
  ASSUME NEW action, NEW run, NEW ctx, IsSeq(run.results)
  PROVE  IsSeq(Do(action, run, ctx).results)
         /\ Len(Do(action, run, ctx).results) = Len(run.results) + 1
<1>1. \E x : Do(action, run, ctx).results = Append(run.results, x)
  <2>1. CASE action.kind = "fetch"
    BY <2>1 DEF Do, Fetched
  <2>2. CASE action.kind # "fetch"
    BY <2>2 DEF Do, Executed
  <2> QED
    BY <2>1, <2>2
<1> QED
  BY <1>1, AppendIs

LEMMA RunActionFits ==
  ASSUME MentionsAreDeps, FInv, NEW n \in Node, RunAction(n)
  PROVE  FInv'
<1>1. IInv'
  BY RunActionIInv DEF FInv
<1>2. UNCHANGED <<phase, wanted, saved, failures, broken, done, ended>>
  BY DEF RunAction, command, history
<1>3. n \in DOMAIN jobs /\ JobFits(n) /\ Len(jobs[n].results) < Len(ListOf(n, jobs[n].op))
  BY DEF RunAction, Running, MoreToDo, FInv
<1> DEFINE run == Do(NextAction(n), RunOf(n), Now(n))
<1>4. IsSeq(run.results) /\ Len(run.results) <= Len(ListOf(n, jobs[n].op))
  <2>1. IsSeq(RunOf(n).results) /\ RunOf(n).results = jobs[n].results
    BY <1>3 DEF RunOf, JobFits
  <2>2. IsSeq(run.results) /\ Len(run.results) = Len(jobs[n].results) + 1
    BY <2>1, DoAppends
  <2> HIDE DEF run
  <2> QED
    BY <1>3, <2>2 DEF JobFits, IsSeq
<1>5. \/ jobs' = [jobs EXCEPT ![n].results = run.results]
      \/ jobs' = [jobs EXCEPT ![n].results = run.results, ![n].files = run.files]
  BY Zenon DEF RunAction
<1> HIDE DEF run
<1>6. DOMAIN jobs' = DOMAIN jobs /\ \A m \in DOMAIN jobs : m # n => jobs'[m] = jobs[m]
  BY <1>5
<1>7. jobs'[n].op = jobs[n].op /\ jobs'[n].results = run.results
  <2>1. \E files, stage : jobs' = Put(jobs, n, [op |-> jobs[n].op, stage |-> stage,
                                              results |-> run.results, files |-> files])
    <3>1. CASE jobs' = [jobs EXCEPT ![n].results = run.results]
      <4>1. jobs' = Put(jobs, n, [op |-> jobs[n].op, stage |-> jobs[n].stage,
                                  results |-> run.results, files |-> jobs[n].files])
        BY <1>3, <3>1, JobsExcept, Zenon DEF FInv, IInv
      <4> QED
        BY <4>1, Zenon
    <3>2. CASE jobs' = [jobs EXCEPT ![n].results = run.results, ![n].files = run.files]
      <4>1. [jobs EXCEPT ![n].results = run.results, ![n].files = run.files] =
              Put(jobs, n, [op |-> jobs[n].op, stage |-> jobs[n].stage,
                            results |-> run.results, files |-> run.files])
        BY <1>3, JobsExcept, Zenon DEF FInv, IInv
      <4>2. jobs' = Put(jobs, n, [op |-> jobs[n].op, stage |-> jobs[n].stage,
                                  results |-> run.results, files |-> run.files])
        BY <3>2, <4>1, Zenon
      <4> QED
        BY <4>2, Zenon
    <3> QED
      BY <1>5, <3>1, <3>2
  <2> QED
    BY <2>1 DEF Put
<1>8. EndedDone'
  BY <1>2 DEF FInv, EndedDone
<1> QED
  BY <1>1, <1>2, <1>4, <1>6, <1>7, <1>8, QuietStepFits

LEMMA StageFits ==
  ASSUME MentionsAreDeps, FInv, NEW n \in Build, RemovePart(n) \/ Clear(n) \/ Mark(n)
  PROVE  FInv'
<1>1. IInv'
  BY RemovePartIInv, ClearIInv, MarkIInv DEF FInv
<1>2. UNCHANGED <<phase, wanted, saved, failures, broken, done, ended>>
  BY DEF RemovePart, Clear, Mark, command, history
<1>3. n \in DOMAIN jobs /\ (jobs' = jobs \/ \E stage : jobs' = [jobs EXCEPT ![n].stage = stage])
  BY Zenon DEF RemovePart, Clear, Mark, Running
<1>4. \A m \in DOMAIN jobs' :
        m \in DOMAIN jobs /\ jobs'[m].op = jobs[m].op /\ jobs'[m].results = jobs[m].results
  <2>1. CASE jobs' = jobs
    BY <2>1
  <2>2. CASE jobs' # jobs
    <3>1. PICK stage : jobs' = [jobs EXCEPT ![n].stage = stage]
      BY <1>3, <2>2
    <3>2. jobs' = Put(jobs, n, [op |-> jobs[n].op, stage |-> stage,
                                results |-> jobs[n].results, files |-> jobs[n].files])
      BY <1>3, <3>1, JobsExcept, Zenon DEF FInv, IInv
    <3> QED
      BY <1>3, <3>2 DEF Put
  <2> QED
    BY <2>1, <2>2
<1>5. EndedDone'
  BY <1>2 DEF FInv, EndedDone
<1> QED
  BY <1>1, <1>2, <1>4, <1>5, QuietStepFits

LEMMA FinishBuildFits ==
  ASSUME MentionsAreDeps, FInv, NEW n \in Build, FinishBuild(n)
  PROVE  FInv'
<1>1. IInv'
  BY FinishBuildIInv DEF FInv
<1>2. /\ UNCHANGED <<phase, wanted, saved, failures, broken>>
      /\ jobs' = Without(jobs, n) /\ ended' = ended \cup {<<"build", n>>}
      /\ done' = Put(done, n, OutputsIn(n, Now(n)))
  BY DEF FinishBuild, history
<1>3. \A m \in DOMAIN jobs' : m \in DOMAIN jobs /\ jobs'[m] = jobs[m]
  BY <1>2 DEF Without
<1>4. DOMAIN done' = DOMAIN done \cup {n} /\ EndedDone'
  BY <1>2, OutputsPut DEF FInv, EndedDone
<1> QED
  BY <1>1, <1>2, <1>3, <1>4, QuietStepFits

\* A failure of another kind is excused whatever is saved.
LEMMA StillExcused ==
  ASSUME FInv, failures' = failures,
         \/ saved' = saved
         \/ \A f \in failures : f[1] \notin {"create", "update"}
  PROVE  FailsByItself'
<1>1. \A f \in failures : Excused(f[1], f[2])
  BY FailsByItselfIs DEF FInv
<1>2. CASE saved' = saved
  BY <1>2 DEF FInv, FailsByItself
<1>3. CASE \A f \in failures : f[1] \notin {"create", "update"}
  <2>1. \A f \in failures : Excused(f[1], f[2])'
    BY <1>1, <1>3 DEF Excused
  <2> QED
    BY <2>1 DEF FailsByItself, Excused
<1> QED
  BY <1>2, <1>3

LEMMA FinishBindFits ==
  ASSUME MentionsAreDeps, FInv, NEW n \in Bind, FinishBind(n)
  PROVE  FInv'
<1> DEFINE op == jobs[n].op
<1>1. IInv'
  BY FinishBindIInv DEF FInv
<1>2. /\ UNCHANGED <<phase, wanted, failures, broken>> /\ jobs' = Without(jobs, n)
      /\ saved' = Saved(op, n, OutputsIn(n, Now(n)))
      /\ done' = (IF op = "create" THEN Put(done, n, OutputsIn(n, Now(n))) ELSE done)
      /\ ended' \subseteq ended \cup {<<op, n>>, <<"drifted", n>>}
  BY DEF FinishBind, history
<1>3. n \in DOMAIN jobs /\ JobFits(n) /\ op \in Operations
  BY RealizationAssumption DEF FinishBind, Running, FInv, IInv, JobOK
<1>4. \A m \in DOMAIN jobs' : m \in DOMAIN jobs /\ jobs'[m] = jobs[m]
  BY <1>2 DEF Without
<1>5. DOMAIN done \subseteq DOMAIN done' /\ (op = "create" => n \in DOMAIN done')
  BY <1>2 DEF Put
<1>6. EndedDone'
  <2>1. \A m \in DOMAIN done' : DOMAIN done'[m] = DOMAIN OutputsOf(m)
    BY <1>2, OutputsPut DEF FInv, EndedDone
  <2> QED
    BY <1>2, <1>3, <1>5, <2>1 DEF FInv, EndedDone, Operations
<1>7. CASE op \notin {"update", "repair"}
  <2>1. saved' = saved
    BY <1>2, <1>7, Zenon DEF Saved
  <2> QED
    BY <1>1, <1>2, <1>4, <1>5, <1>6, <2>1, QuietStepFits
<1>8. CASE op \in {"update", "repair"}
  <2> DEFINE new == OutputsIn(n, Now(n))
  <2>1. DOMAIN new = DOMAIN OutputsOf(n)
    BY DEF OutputsIn, ResolveOutputs
  <2> HIDE DEF new
  <2>2. saved' = Put(StatesWithout({Old[n]}), n, new) \/ saved' = Put(saved, n, new)
    <3>1. CASE op = "update"
      BY <1>2, <3>1, Zenon DEF Saved, new
    <3>2. CASE op = "repair"
      BY <1>2, <3>2, Zenon DEF Saved, new
    <3> QED
      BY <1>8, <3>1, <3>2
  <2>3. /\ DOMAIN saved' \subseteq DOMAIN saved \cup {n} /\ saved'[n] = new
        /\ \A b \in DOMAIN saved' : b # n => saved'[b] = saved[b]
    BY <2>2 DEF Put, StatesWithout
  <2>4. SavedShape'
    BY <2>1, <2>3 DEF FInv, SavedShape
  <2>5. phase \in {"update", "repair"}
    BY <1>3, <1>8 DEF JobFits, PhaseFor
  <2>6. \A m \in DOMAIN jobs' : JobFits(m)'
    <3>1. \A m \in DOMAIN jobs' : JobFits(m) /\ jobs[m].op \notin {"build", "create"}
      BY <1>4, <2>5 DEF FInv, JobFits, PhaseFor
    <3> QED
      BY <1>2, <1>4, <3>1 DEF JobFits
  <2>7. \A f \in failures : f[1] \notin {"create", "update"}
    BY <1>3, <2>5 DEF FInv, FailuresLast
  <2>8. FailuresLast'
    BY <1>2, <2>7 DEF FailuresLast
  <2>9. FailsByItself'
    BY <1>2, <2>7, StillExcused
  <2>10. WantedClosed' /\ OneAtATime'
    BY <1>2, <1>4 DEF FInv, WantedClosed, OneAtATime
  <2> QED
    BY <1>1, <1>6, <2>4, <2>6, <2>8, <2>9, <2>10 DEF FInv
<1> QED
  BY <1>7, <1>8

LEMMA BreakFits ==
  ASSUME MentionsAreDeps, FInv, NEW n \in Node, Fail(n) \/ ActionFails(n)
  PROVE  FInv'
<1>1. n \in DOMAIN jobs /\ Break(n)
  BY DEF Fail, ActionFails, Running
<1>2. IInv'
  BY <1>1, BreakIInv DEF FInv
<1>3. /\ UNCHANGED <<phase, wanted, saved, done, ended>>
      /\ broken' = broken \cup {<<jobs[n].op, n>>} /\ jobs' = Without(jobs, n)
  BY <1>1 DEF Break, disk, command
<1>4. \A m \in DOMAIN jobs' : m \in DOMAIN jobs \ {n} /\ jobs'[m] = jobs[m]
  BY <1>3 DEF Without
<1>5. EndedDone'
  BY <1>3 DEF FInv, EndedDone
<1>6. CASE ActionFails(n)
  BY <1>2, <1>3, <1>4, <1>5, <1>6, QuietStepFits DEF ActionFails
<1>7. CASE Fail(n)
  <2>1. failures' = failures \cup {<<jobs[n].op, n>>}
    BY <1>7 DEF Fail
  <2>2. Excused(jobs[n].op, n)
    BY <1>7, FailIsExcused
  <2>3. JobFits(n) /\ PhaseFor(jobs[n].op) = phase
    BY <1>1 DEF FInv, JobFits
  <2>4. jobs[n].op = "update" => DOMAIN jobs' = {}
    BY <1>1, <1>4, <2>3 DEF FInv, OneAtATime, PhaseFor
  <2>5. \A m \in DOMAIN jobs' :
          /\ m \in DOMAIN jobs /\ jobs'[m].op = jobs[m].op
          /\ IsSeq(jobs'[m].results)
          /\ Len(jobs'[m].results) <= Len(ListOf(m, jobs[m].op))
    BY <1>4 DEF FInv, JobFits
  <2>6. broken' # {} /\ broken \subseteq broken'
    BY <1>3
  <2> HIDE DEF FInv
  <2> QED
    BY <1>2, <1>3, <1>5, <2>1, <2>2, <2>3, <2>4, <2>5, <2>6, StepFits
<1> QED
  BY <1>6, <1>7

LEMMA BeginFits ==
  ASSUME MentionsAreDeps, FInv, NEW nodes \in Configs, Begin(nodes)
  PROVE  FInv'
<1>1. IInv'
  BY BeginIInv DEF FInv
<1>2. /\ UNCHANGED <<saved, jobs, done, ended>> /\ wanted' = nodes /\ failures' = {}
      /\ DOMAIN jobs = {}
  BY DEF Begin, disk, FInv, IInv, AtRest
<1>3. WantedClosed'
  BY <1>2, RealizationAssumption DEF WantedClosed
<1>4. SavedShape' /\ EndedDone' /\ OneAtATime' /\ FailuresLast' /\ FailsByItself'
  BY <1>2 DEF FInv, SavedShape, EndedDone, OneAtATime, FailuresLast, FailsByItself
<1> QED
  BY <1>1, <1>2, <1>3, <1>4 DEF FInv

LEMMA ForgottenFits ==
  ASSUME FInv, IInv', Forget, UNCHANGED <<saved, failures>>, phase' = "idle"
  PROVE  FInv'
<1>1. DOMAIN jobs' = {} /\ DOMAIN done' = {} /\ ended' = {} /\ wanted' = {}
  BY DEF Forget, Empty
<1>2. SavedShape' /\ WantedClosed' /\ EndedDone' /\ OneAtATime' /\ FailuresLast'
  BY <1>1 DEF FInv, SavedShape, WantedClosed, EndedDone, OneAtATime, FailuresLast
<1>3. FailsByItself'
  BY StillExcused
<1> QED
  BY <1>1, <1>2, <1>3 DEF FInv

LEMMA AdvanceFits ==
  ASSUME MentionsAreDeps, FInv, Advance
  PROVE  FInv'
<1>1. IInv'
  BY AdvanceIInv DEF FInv
<1>2. CASE phase = "repair"
  <2>1. Forget /\ UNCHANGED <<saved, failures>> /\ phase' = "idle"
    BY <1>2 DEF Advance, history, After
  <2> QED
    BY <1>1, <2>1, ForgottenFits
<1>3. CASE phase # "repair"
  <2>1. /\ DOMAIN jobs = {} /\ phase # "idle" /\ (broken = {} \/ phase = "check")
        /\ UNCHANGED <<ended, jobs, done, wanted, failures>>
    BY <1>3 DEF Advance, history, Empty
  <2>2. \A f \in failures : f[1] \notin {"create", "update"}
    BY <2>1 DEF FInv, FailuresLast
  <2>3. FailuresLast' /\ FailsByItself'
    BY <2>1, <2>2, StillExcused DEF FailuresLast
  <2>4. WantedClosed' /\ EndedDone' /\ OneAtATime'
    BY <2>1 DEF FInv, WantedClosed, EndedDone, OneAtATime
  <2>5. SavedShape'
    <3>1. CASE phase # "execute"
      BY <3>1 DEF Advance, FInv, SavedShape
    <3>2. CASE phase = "execute"
      <4>1. PICK kept : /\ kept \subseteq DOMAIN saved
                        /\ saved' = [b \in (DOMAIN done \cap Bind) \cup kept |->
                                       IF b \in DOMAIN done THEN done[b] ELSE saved[b]]
        BY <3>2, Zenon DEF Advance
      <4>2. \A b \in DOMAIN done : DOMAIN done[b] = DOMAIN OutputsOf(b)
        BY DEF FInv, EndedDone
      <4> QED
        BY <4>1, <4>2 DEF FInv, SavedShape
    <3> QED
      BY <3>1, <3>2
  <2> QED
    BY <1>1, <2>1, <2>3, <2>4, <2>5 DEF FInv
<1> QED
  BY <1>2, <1>3

LEMMA NextFInv ==
  ASSUME MentionsAreDeps, FInv, [Next]_vars
  PROVE  FInv'
<1>0. IInv'
  BY NextIInv DEF FInv
<1>1. CASE \E nodes \in Configs : Begin(nodes)
  BY <1>1, BeginFits
<1>2. ASSUME NEW n \in Bind, NEW op, StartBind(op, n)
      PROVE  FInv'
  BY <1>0, <1>2, StartFits DEF StartBind, disk, command, history
<1>3. ASSUME NEW n \in Build, StartBuild(n)
      PROVE  FInv'
  BY <1>0, <1>3, StartFits DEF StartBuild, disk, command, history
<1>4. ASSUME NEW n \in Build, Hit(n) \/ RemovePart(n) \/ Clear(n) \/ Mark(n) \/ FinishBuild(n)
      PROVE  FInv'
  BY <1>4, HitFits, StageFits, FinishBuildFits
<1>5. ASSUME NEW n \in Node, RunAction(n) \/ Fail(n) \/ ActionFails(n)
      PROVE  FInv'
  BY <1>5, RunActionFits, BreakFits
<1>6. CASE \E n \in Bind : FinishBind(n)
  BY <1>6, FinishBindFits
<1>7. CASE End \/ Crash
  <2>1. Forget /\ UNCHANGED <<saved, failures>> /\ phase' = "idle"
    BY <1>7 DEF End, Crash, disk, history
  <2> QED
    BY <1>0, <2>1, ForgottenFits
<1>8. CASE Advance
  BY <1>8, AdvanceFits
<1>9. CASE UNCHANGED vars \/ \E n \in Build : Damage(n)
  <2>1. UNCHANGED <<saved, phase, wanted, ended, jobs, done, broken, failures>>
    BY <1>9 DEF vars, disk, command, history, Damage
  <2>2. EndedDone'
    BY <2>1 DEF FInv, EndedDone
  <2> QED
    BY <1>0, <2>1, <2>2, QuietStepFits
<1> QED
  BY <1>1, <1>2, <1>3, <1>4, <1>5, <1>6, <1>7, <1>8, <1>9 DEF Next

LEMMA InitFInv == Init => FInv
<1> SUFFICES ASSUME Init PROVE FInv
  OBVIOUS
<1>1. /\ DOMAIN saved = {} /\ DOMAIN jobs = {} /\ DOMAIN done = {}
      /\ wanted = {} /\ ended = {} /\ failures = {}
  BY DEF Init, Empty
<1> QED
  BY <1>1, InitIInv
     DEF FInv, SavedShape, WantedClosed, EndedDone, OneAtATime, FailuresLast, FailsByItself

\* Without an action failing, an operation fails only because of what its
\* definition says or of the binds that are new or not, never because of what a
\* command left in the store, if every definition refers to what it mentions.
THEOREM FailuresAreOfDefinitions ==
  ASSUME MentionsAreDeps
  PROVE  Spec => []FailsByItself
<1>1. FInv /\ [Next]_vars => FInv'
  BY NextFInv
<1>2. FInv => FailsByItself
  BY DEF FInv
<1> QED
  BY <1>1, <1>2, InitFInv, PTL DEF Spec
=============================================================================
