--------------------------- MODULE WorkspaceProofs ---------------------------
(***************************************************************************)
(* Theorems about Workspace, for every number of commands that overlap or  *)
(* stop anywhere, for all inputs they resolve and all that users save:     *)
(* what users wrote stays, and the library has the entries of one          *)
(* resolution.                                                             *)
(*                                                                         *)
(* What an update will write it has computed from what it read, and users  *)
(* may have saved since; then the file is raced.  So the invariant says of *)
(* a file that is not raced that whatever is about to be written over it   *)
(* has in it what the user saved.  That what is computed has in it what    *)
(* was read (UpdatedIsSound) follows from laws of Only: of a concatenation *)
(* (OnlyOfBoth), and of itself (OnlyOfOnly).                               *)
(***************************************************************************)
EXTENDS Workspace, WellFoundedInduction, TLAPS

Luarc == ".luarc.json"
Lua == "init.lua"

\* What the library may say of sys's own entries.
OfOneResolution ==
  {<<Types>> \o Only(inputs, Managed) : inputs \in Resolutions}
    \cup {<<Types>>} \cup {Only(layout, Managed) : layout \in Layouts \ {Odd}}

Sound(text) ==
  text = Odd \/ (text \in Seq(Entry) /\ Only(text, Managed) \in OfOneResolution)

RunState ==
  [pc : {"idle", "exists", "read", "truncate", "write"}, init : BOOLEAN, next : 1 .. 3,
   inputs : Resolutions \cup {<< >>}, text : Seq(Entry) \cup {Odd}]

Shapes ==
  /\ DOMAIN file = File /\ run \in [Process -> RunState]
  /\ DOMAIN saved = User /\ saved[Luarc] \in {NoFile} \cup Layouts

\* A process looks for files as init, and reads one as an update.
Steps(p) ==
  /\ run[p].pc = "exists" => run[p].init
  /\ run[p].pc = "read" => ~run[p].init /\ run[p].inputs \in Resolutions
  /\ ~run[p].init /\ run[p].pc # "idle" => run[p].next = 2

\* An update is about to write what it computed.
Updating(p) == ~run[p].init /\ run[p].pc \in {"truncate", "write"}

FilesSound ==
  /\ file[Luarc] \in {NoFile, Torn} \/ Sound(file[Luarc])
  /\ \A p \in Process : Updating(p) => Sound(run[p].text)

\* An init has not found the n-th file, or has still to write it.
InitWrites(p, n) ==
  run[p].init /\ IF run[p].pc = "exists" THEN n < run[p].next ELSE run[p].next <= n

\* The files that are as users last left them, but for what updates add.
LuaIsUsers == Lua \notin raced /\ saved[Lua] = Custom
LuarcIsUsers == Luarc \notin raced /\ saved[Luarc] # NoFile
LibraryIsUsers == Luarc \notin raced /\ IsLibrary(saved[Luarc])

LuaStays ==
  LuaIsUsers => file[Lua] = Custom /\ \A p \in Process : ~InitWrites(p, 1)

LuarcStays ==
  LuarcIsUsers => file[Luarc] # NoFile /\ \A p \in Process : ~InitWrites(p, 2)

Keeps(text) == IsLibrary(text) /\ OwnOf(text) = OwnOf(saved[Luarc])

OwnStays ==
  LibraryIsUsers =>
    /\ file[Luarc] = Torn \/ Keeps(file[Luarc])
    /\ \A p \in Process : Updating(p) => Keeps(run[p].text)

IInv ==
  /\ Shapes /\ \A p \in Process : Steps(p)
  /\ FilesSound /\ LuaStays /\ LuarcStays /\ OwnStays
-----------------------------------------------------------------------------
(* Only                                                                    *)

\* A set of numbers has a least element.
LEMMA LeastNumber ==
  ASSUME NEW T, T \subseteq Nat, T # {}
  PROVE  \E x \in T : \A y \in T : x <= y
<1>1. PICK x \in T : \A y \in T : ~(<<y, x>> \in OpToRel(<, Nat))
  BY NatLessThanWellFounded, WFMin
<1>2. \A y \in T : y \in Nat /\ x \in Nat /\ ~(y < x)
  BY <1>1 DEF OpToRel
<1> QED
  BY <1>2

\* Induction, over a set of numbers.
LEMMA AllNumbers ==
  ASSUME NEW T, 0 \in T, \A i \in Nat : i \in T => i + 1 \in T
  PROVE  Nat \subseteq T
<1> DEFINE Bad == Nat \ T
<1> SUFFICES ASSUME Bad # {} PROVE FALSE
  OBVIOUS
<1>1. PICK k \in Bad : \A j \in Bad : k <= j
  BY LeastNumber
<1>2. k \in Nat /\ k # 0
  OBVIOUS
<1>3. k - 1 \in Nat /\ k - 1 \notin Bad
  BY <1>1, <1>2
<1>4. k - 1 \in T /\ k - 1 + 1 = k
  BY <1>2, <1>3
<1>5. k \in T
  BY <1>3, <1>4
<1> QED
  BY <1>5

\* Part, with an entry if that is to be kept.
More(part, e, S) == IF e \in S THEN Append(part, e) ELSE part

\* The recursive function exists: a least number of entries that it does not
\* exist for would be one too many.
LEMMA OnlyExists ==
  ASSUME NEW text, NEW S, Len(text) \in Nat
  PROVE  \E g : g = [i \in 0 .. Len(text) |->
                       IF i = 0 THEN << >> ELSE More(g[i - 1], text[i], S)]
<1> DEFINE For(k) ==
      \E g : g = [i \in 0 .. k |-> IF i = 0 THEN << >> ELSE More(g[i - 1], text[i], S)]
<1> DEFINE T == {k \in Nat : For(k)}
<1>1. 0 \in T
  <2> DEFINE g == [i \in 0 .. 0 |-> << >>]
  <2>1. g = [i \in 0 .. 0 |-> IF i = 0 THEN << >> ELSE More(g[i - 1], text[i], S)]
    OBVIOUS
  <2> QED
    BY <2>1
<1>2. ASSUME NEW k \in Nat, k \in T PROVE k + 1 \in T
  <2>1. PICK g : g = [i \in 0 .. k |-> IF i = 0 THEN << >> ELSE More(g[i - 1], text[i], S)]
    BY <1>2
  <2> DEFINE h == [i \in 0 .. k + 1 |-> IF i = 0 THEN << >> ELSE More(g[i - 1], text[i], S)]
  <2>2. \A i \in 0 .. k : h[i] = g[i]
    BY <2>1
  <2>3. \A i \in 0 .. k + 1 : i # 0 => i - 1 \in 0 .. k
    OBVIOUS
  <2>4. h = [i \in 0 .. k + 1 |-> IF i = 0 THEN << >> ELSE More(h[i - 1], text[i], S)]
    BY <2>2, <2>3, Zenon
  <2>5. For(k + 1)
    BY <2>4
  <2> QED
    BY <2>5
<1> HIDE DEF T
<1>3. Nat \subseteq T
  BY <1>1, <1>2, AllNumbers
<1> QED
  BY <1>3 DEF T

\* What Only has kept of the first i entries.
Kept(text, S, i) ==
  LET only[j \in 0 .. Len(text)] ==
        IF j = 0 THEN << >>
        ELSE IF text[j] \in S THEN Append(only[j - 1], text[j])
        ELSE only[j - 1]
  IN  only[i]

LEMMA KeptIs ==
  ASSUME NEW text, NEW S, Len(text) \in Nat
  PROVE  /\ Only(text, S) = Kept(text, S, Len(text))
         /\ Kept(text, S, 0) = << >>
         /\ \A i \in 1 .. Len(text) :
              Kept(text, S, i) = More(Kept(text, S, i - 1), text[i], S)
<1> DEFINE only == CHOOSE g : g = [i \in 0 .. Len(text) |->
                                     IF i = 0 THEN << >> ELSE More(g[i - 1], text[i], S)]
<1>1. only = [i \in 0 .. Len(text) |->
                IF i = 0 THEN << >> ELSE More(only[i - 1], text[i], S)]
  BY OnlyExists, Zenon
<1>2. \A i : Kept(text, S, i) = only[i]
  BY Zenon DEF Kept, More
<1>3. Only(text, S) = only[Len(text)]
  BY Zenon DEF Only, More
<1> HIDE DEF only
<1>4. only[0] = << >> /\ \A i \in 1 .. Len(text) : only[i] = More(only[i - 1], text[i], S)
  BY <1>1
<1> QED
  BY <1>2, <1>3, <1>4

LEMMA OnlyIsKept ==
  ASSUME NEW text, NEW S, Len(text) \in Nat
  PROVE  Only(text, S) = Kept(text, S, Len(text))
BY KeptIs

LEMMA KeptOfNone ==
  ASSUME NEW text, NEW S, Len(text) \in Nat
  PROVE  Kept(text, S, 0) = << >>
BY KeptIs

LEMMA KeptNext ==
  ASSUME NEW text, NEW S, Len(text) \in Nat, NEW i \in 0 .. Len(text) - 1
  PROVE  Kept(text, S, i + 1) = More(Kept(text, S, i), text[i + 1], S)
<1> DEFINE j == i + 1
<1>1. j \in 1 .. Len(text) /\ j - 1 = i
  OBVIOUS
<1> HIDE DEF j
<1>2. Kept(text, S, j) = More(Kept(text, S, j - 1), text[j], S)
  BY <1>1, KeptIs, Zenon
<1> QED
  BY <1>1, <1>2, Zenon DEF j

LEMMA SeqEqual ==
  ASSUME NEW E, NEW s \in Seq(E), NEW t \in Seq(E), Len(s) = Len(t),
         \A i \in 1 .. Len(s) : s[i] = t[i]
  PROVE  s = t
OBVIOUS

LEMMA EmptySeq ==
  ASSUME NEW E
  PROVE  << >> \in Seq(E)
OBVIOUS

LEMMA KeptType ==
  ASSUME NEW E, NEW text \in Seq(E), NEW S
  PROVE  /\ \A i \in 0 .. Len(text) : Kept(text, S, i) \in Seq(E)
         /\ Only(text, S) \in Seq(E)
<1> DEFINE T == {i \in Nat : i <= Len(text) => Kept(text, S, i) \in Seq(E)}
<1>1. Len(text) \in Nat
  OBVIOUS
<1>2. 0 \in T
  <2>1. Kept(text, S, 0) = << >>
    BY <1>1, KeptOfNone
  <2>2. Kept(text, S, 0) \in Seq(E)
    BY <2>1, EmptySeq
  <2> QED
    BY <2>2
<1>3. ASSUME NEW i \in Nat, i \in T PROVE i + 1 \in T
  <2> SUFFICES ASSUME i + 1 <= Len(text) PROVE Kept(text, S, i + 1) \in Seq(E)
    OBVIOUS
  <2>1. i <= Len(text) /\ i + 1 \in 1 .. Len(text) /\ i \in 0 .. Len(text) - 1
    BY <1>1
  <2>2. Kept(text, S, i) \in Seq(E) /\ text[i + 1] \in E
    BY <1>3, <2>1
  <2>3. Kept(text, S, i + 1) = More(Kept(text, S, i), text[i + 1], S)
    BY <1>1, <2>1, KeptNext
  <2> DEFINE part == Kept(text, S, i)
  <2> DEFINE e == text[i + 1]
  <2>4. part \in Seq(E) /\ e \in E
    BY <2>2
  <2> HIDE DEF part, e
  <2>5. More(part, e, S) \in Seq(E)
    BY <2>4 DEF More
  <2> QED
    BY <2>3, <2>5 DEF part, e
<1> HIDE DEF T
<1>4. Nat \subseteq T
  BY <1>2, <1>3, AllNumbers
<1>5. \A i \in 0 .. Len(text) : Kept(text, S, i) \in Seq(E)
  BY <1>1, <1>4 DEF T
<1> QED
  BY <1>1, <1>5, OnlyIsKept, KeptOfNone

\* What is kept of the first entries depends on them alone.
LEMMA KeptAgrees ==
  ASSUME NEW E, NEW s \in Seq(E), NEW t \in Seq(E), NEW S, Len(s) <= Len(t),
         \A i \in 1 .. Len(s) : s[i] = t[i]
  PROVE  Kept(t, S, Len(s)) = Only(s, S)
<1> DEFINE T == {i \in Nat : i <= Len(s) => Kept(t, S, i) = Kept(s, S, i)}
<1>1. Len(s) \in Nat /\ Len(t) \in Nat
  OBVIOUS
<1>2. 0 \in T
  BY <1>1, OnlyIsKept, KeptOfNone
<1>3. ASSUME NEW i \in Nat, i \in T PROVE i + 1 \in T
  <2> SUFFICES ASSUME i + 1 <= Len(s) PROVE Kept(t, S, i + 1) = Kept(s, S, i + 1)
    OBVIOUS
  <2>1. /\ i + 1 \in 1 .. Len(s) /\ i <= Len(s)
        /\ i \in 0 .. Len(s) - 1 /\ i \in 0 .. Len(t) - 1
    BY <1>1
  <2>2. /\ Kept(s, S, i + 1) = More(Kept(s, S, i), s[i + 1], S)
        /\ Kept(t, S, i + 1) = More(Kept(t, S, i), t[i + 1], S)
    BY <1>1, <2>1, KeptNext
  <2>3. Kept(t, S, i) = Kept(s, S, i)
    BY <1>3, <2>1
  <2>4. s[i + 1] = t[i + 1]
    BY <2>1
  <2> QED
    BY <2>2, <2>3, <2>4
<1> HIDE DEF T
<1>4. Nat \subseteq T
  BY <1>2, <1>3, AllNumbers
<1>5. Kept(t, S, Len(s)) = Kept(s, S, Len(s))
  BY <1>1, <1>4 DEF T
<1> QED
  BY <1>1, <1>5, OnlyIsKept, KeptOfNone

LEMMA OnlyOfNothing ==
  ASSUME NEW S
  PROVE  Only(<< >>, S) = << >>
<1>1. Len(<< >>) = 0
  OBVIOUS
<1> QED
  BY <1>1, OnlyIsKept, KeptOfNone

LEMMA OnlyOfAppend ==
  ASSUME NEW E, NEW text \in Seq(E), NEW e \in E, NEW S
  PROVE  Only(Append(text, e), S) = More(Only(text, S), e, S)
<1> DEFINE t == Append(text, e)
<1>1. /\ t \in Seq(E) /\ Len(t) = Len(text) + 1 /\ Len(text) \in Nat
      /\ t[Len(text) + 1] = e /\ \A i \in 1 .. Len(text) : t[i] = text[i]
  OBVIOUS
<1> HIDE DEF t
<1>2. Only(t, S) = Kept(t, S, Len(t))
  BY <1>1, OnlyIsKept, KeptOfNone
<1>3. Kept(t, S, Len(t)) = More(Kept(t, S, Len(text)), e, S)
  <2>1. Len(text) \in 0 .. Len(t) - 1 /\ Len(t) \in Nat
    BY <1>1
  <2>2. Kept(t, S, Len(text) + 1) = More(Kept(t, S, Len(text)), t[Len(text) + 1], S)
    BY <2>1, KeptNext
  <2> QED
    BY <1>1, <2>2
<1>4. Kept(t, S, Len(text)) = Only(text, S)
  BY <1>1, KeptAgrees
<1> QED
  BY <1>2, <1>3, <1>4 DEF t

LEMMA OnlyOfOne ==
  ASSUME NEW E, NEW e \in E, NEW S
  PROVE  Only(<<e>>, S) = More(<< >>, e, S)
<1>1. << >> \in Seq(E) /\ Append(<< >>, e) = <<e>>
  OBVIOUS
<1>2. Only(Append(<< >>, e), S) = More(Only(<< >>, S), e, S)
  BY <1>1, OnlyOfAppend
<1> QED
  BY <1>1, <1>2, OnlyOfNothing

\* Of two libraries one after the other, what is kept of one after what is kept
\* of the other.
LEMMA OnlyOfBoth ==
  ASSUME NEW E, NEW s \in Seq(E), NEW t \in Seq(E), NEW S
  PROVE  Only(s \o t, S) = Only(s, S) \o Only(t, S)
<1> DEFINE u == s \o t
<1> DEFINE T == {i \in Nat : i <= Len(t) =>
                   Kept(u, S, Len(s) + i) = Only(s, S) \o Kept(t, S, i)}
<1>1. /\ Len(s) \in Nat /\ Len(t) \in Nat /\ u \in Seq(E) /\ Len(u) = Len(s) + Len(t)
      /\ \A i \in 1 .. Len(s) : u[i] = s[i]
      /\ \A i \in 1 .. Len(t) : u[Len(s) + i] = t[i]
  OBVIOUS
<1>2. Only(s, S) \in Seq(E) /\ \A i \in 0 .. Len(t) : Kept(t, S, i) \in Seq(E)
  BY KeptType
<1> HIDE DEF u
<1>3. 0 \in T
  <2>1. Kept(u, S, Len(s)) = Only(s, S)
    BY <1>1, KeptAgrees
  <2>2. Kept(t, S, 0) = << >> /\ Only(s, S) \o << >> = Only(s, S)
    <3> DEFINE x == Only(s, S)
    <3>1. x \in Seq(E)
      BY <1>2
    <3> HIDE DEF x
    <3>2. x \o << >> = x
      BY <3>1
    <3> QED
      BY <1>1, <3>2, KeptOfNone DEF x
  <2>3. Kept(u, S, Len(s)) = Only(s, S) \o Kept(t, S, 0)
    BY <2>1, <2>2, Zenon
  <2>4. Len(s) + 0 = Len(s)
    BY <1>1
  <2>5. Kept(u, S, Len(s) + 0) = Only(s, S) \o Kept(t, S, 0)
    BY <2>3, <2>4, Zenon
  <2> QED
    BY <2>5
<1>4. ASSUME NEW i \in Nat, i \in T PROVE i + 1 \in T
  <2> SUFFICES ASSUME i + 1 <= Len(t)
               PROVE  Kept(u, S, Len(s) + (i + 1)) = Only(s, S) \o Kept(t, S, i + 1)
    OBVIOUS
  <2> DEFINE k == Len(s) + i
  <2> DEFINE part == Kept(t, S, i)
  <2> DEFINE e == t[i + 1]
  <2>1. /\ i \in 0 .. Len(t) - 1 /\ i <= Len(t) /\ i \in 0 .. Len(t) /\ i + 1 \in 1 .. Len(t)
        /\ k \in 0 .. Len(u) - 1 /\ Len(s) + (i + 1) = k + 1
    BY <1>1
  <2>2. u[k + 1] = e
    BY <1>1, <2>1
  <2>3. Kept(u, S, k) = Only(s, S) \o part
    BY <1>4, <2>1
  <2>4. Only(s, S) \in Seq(E) /\ part \in Seq(E) /\ e \in E
    BY <1>2, <2>1
  <2>5. Kept(t, S, i + 1) = More(part, e, S)
    BY <1>1, <2>1, KeptNext
  <2> HIDE DEF k, part, e
  <2>6. Kept(u, S, k + 1) = More(Only(s, S) \o part, e, S)
    <3>1. Kept(u, S, k + 1) = More(Kept(u, S, k), u[k + 1], S)
      BY <1>1, <2>1, KeptNext
    <3> QED
      BY <2>2, <2>3, <3>1, Zenon
  <2>7. Append(Only(s, S) \o part, e) = Only(s, S) \o Append(part, e)
    <3> DEFINE x == Only(s, S)
    <3>1. x \in Seq(E)
      BY <2>4
    <3> HIDE DEF x
    <3>2. Append(x \o part, e) = x \o Append(part, e)
      <4>1. x \o part \in Seq(E) /\ Append(part, e) \in Seq(E)
        BY <3>1, <2>4
      <4>2. /\ Len(Append(x \o part, e)) = Len(x) + Len(part) + 1
            /\ Len(x \o Append(part, e)) = Len(x) + (Len(part) + 1)
            /\ Len(x) \in Nat /\ Len(part) \in Nat
        BY <3>1, <2>4, <4>1
      <4>3. \A j \in 1 .. Len(x) + Len(part) + 1 :
              Append(x \o part, e)[j] = (x \o Append(part, e))[j]
        BY <3>1, <2>4, <4>1, <4>2
      <4>4. Append(x \o part, e) \in Seq(E) /\ x \o Append(part, e) \in Seq(E)
        BY <3>1, <2>4, <4>1
      <4> DEFINE l == Append(x \o part, e)
      <4> DEFINE m == x \o Append(part, e)
      <4>5. l \in Seq(E) /\ m \in Seq(E) /\ Len(l) = Len(m) /\ \A j \in 1 .. Len(l) : l[j] = m[j]
        BY <4>2, <4>3, <4>4
      <4> HIDE DEF l, m
      <4>6. l = m
        BY <4>5, SeqEqual
      <4> QED
        BY <4>6 DEF l, m
    <3> QED
      BY <3>2 DEF x
  <2>8. More(Only(s, S) \o part, e, S) = Only(s, S) \o More(part, e, S)
    BY <2>7, Zenon DEF More
  <2> QED
    BY <2>1, <2>5, <2>6, <2>8
<1> HIDE DEF T
<1>5. Nat \subseteq T
  BY <1>3, <1>4, AllNumbers
<1>6. Kept(u, S, Len(s) + Len(t)) = Only(s, S) \o Kept(t, S, Len(t))
  BY <1>1, <1>5 DEF T
<1>7. Only(u, S) = Kept(u, S, Len(u)) /\ Only(t, S) = Kept(t, S, Len(t))
  <2>1. Len(u) \in Nat
    BY <1>1
  <2> QED
    BY <1>1, <2>1, OnlyIsKept, Zenon
<1> QED
  BY <1>1, <1>6, <1>7 DEF u

\* To keep of what is kept is to keep what is in both sets.
LEMMA OnlyOfOnly ==
  ASSUME NEW E, NEW text \in Seq(E), NEW R, NEW S
  PROVE  Only(Only(text, R), S) = Only(text, R \cap S)
<1> DEFINE T == {i \in Nat : i <= Len(text) =>
                   Only(Kept(text, R, i), S) = Kept(text, R \cap S, i)}
<1>1. Len(text) \in Nat
  OBVIOUS
<1>2. \A i \in 0 .. Len(text) : Kept(text, R, i) \in Seq(E)
  BY KeptType
<1>3. 0 \in T
  BY <1>1, OnlyIsKept, KeptOfNone, OnlyOfNothing
<1>4. ASSUME NEW i \in Nat, i \in T PROVE i + 1 \in T
  <2> SUFFICES ASSUME i + 1 <= Len(text)
               PROVE  Only(Kept(text, R, i + 1), S) = Kept(text, R \cap S, i + 1)
    OBVIOUS
  <2> DEFINE e == text[i + 1]
  <2> DEFINE part == Kept(text, R, i)
  <2>1. i + 1 \in 1 .. Len(text) /\ i \in 0 .. Len(text) - 1 /\ i \in 0 .. Len(text)
    BY <1>1
  <2>2. part \in Seq(E) /\ e \in E
    BY <1>2, <2>1
  <2>3. Only(part, S) = Kept(text, R \cap S, i)
    BY <1>4, <2>1
  <2>4. Kept(text, R, i + 1) = More(part, e, R)
    BY <1>1, <2>1, KeptNext
  <2>5. Kept(text, R \cap S, i + 1) = More(Only(part, S), e, R \cap S)
    <3>1. Kept(text, R \cap S, i + 1) = More(Kept(text, R \cap S, i), text[i + 1], R \cap S)
      BY <1>1, <2>1, KeptNext
    <3> QED
      BY <2>3, <3>1, Zenon
  <2> HIDE DEF part, e
  <2>6. Only(Append(part, e), S) = More(Only(part, S), e, S)
    BY <2>2, OnlyOfAppend
  <2> QED
    BY <2>4, <2>5, <2>6, Zenon DEF More
<1> HIDE DEF T
<1>5. Nat \subseteq T
  BY <1>3, <1>4, AllNumbers
<1>6. Only(Kept(text, R, Len(text)), S) = Kept(text, R \cap S, Len(text))
  <2>1. Len(text) \in T /\ Len(text) <= Len(text)
    BY <1>1, <1>5
  <2> QED
    BY <2>1 DEF T
<1> QED
  BY <1>1, <1>6, OnlyIsKept, Zenon

\* Nothing is kept of what is not to be kept.
LEMMA OnlyOfOthers ==
  ASSUME NEW E, NEW S, NEW text \in Seq(E), E \cap S = {}
  PROVE  Only(text, S) = << >>
<1> DEFINE T == {i \in Nat : i <= Len(text) => Kept(text, S, i) = << >>}
<1>1. Len(text) \in Nat
  OBVIOUS
<1>2. 0 \in T
  BY <1>1, OnlyIsKept, KeptOfNone
<1>3. ASSUME NEW i \in Nat, i \in T PROVE i + 1 \in T
  <2> SUFFICES ASSUME i + 1 <= Len(text) PROVE Kept(text, S, i + 1) = << >>
    OBVIOUS
  <2>1. i + 1 \in 1 .. Len(text) /\ i \in 0 .. Len(text) - 1 /\ i <= Len(text)
    BY <1>1
  <2>2. Kept(text, S, i + 1) = More(Kept(text, S, i), text[i + 1], S)
    BY <1>1, <2>1, KeptNext
  <2>3. Kept(text, S, i) = << >> /\ text[i + 1] \notin S
    BY <1>3, <2>1
  <2> QED
    BY <2>2, <2>3 DEF More
<1> HIDE DEF T
<1>4. Nat \subseteq T
  BY <1>2, <1>3, AllNumbers
<1>5. Kept(text, S, Len(text)) = << >>
  BY <1>1, <1>4 DEF T
<1> QED
  BY <1>1, <1>5, OnlyIsKept, KeptOfNone

-----------------------------------------------------------------------------
(* What updates and inits write                                            *)

LEMMA UpdatedIsSound ==
  ASSUME NEW text \in Seq(Entry) \cup {Odd}, NEW inputs \in Resolutions
  PROVE  /\ Updated(text, inputs) \in Seq(Entry) \cup {Odd}
         /\ Sound(Updated(text, inputs))
         /\ IsLibrary(text) =>
              IsLibrary(Updated(text, inputs)) /\ OwnOf(Updated(text, inputs)) = OwnOf(text)
<1>1. CASE text = Odd
  BY <1>1, Zenon DEF Updated, Sound, IsLibrary
<1>2. CASE text # Odd
  <2> DEFINE users == user_entries(text)
  <2> DEFINE first == <<Types>> \o inputs
  <2> DEFINE new == first \o users
  <2>1. Updated(text, inputs) = new
    BY <1>2 DEF Updated
  <2>2. /\ text \in Seq(Entry) /\ inputs \in Seq(Entry \ Own) /\ inputs \in Seq(Entry)
        /\ Types \in Entry /\ Types \in Managed
    BY <1>2, WorkspaceAssumption
  <2>3. users \in Seq(Entry)
    BY <2>2, KeptType DEF user_entries
  <2>4. <<Types>> \in Seq(Entry) /\ first \in Seq(Entry)
    BY <2>2
  <2> HIDE DEF users
  <2>5. new \in Seq(Entry)
    BY <2>3, <2>4
  <2>6. \A S : Only(new, S) = (Only(<<Types>>, S) \o Only(inputs, S)) \o Only(users, S)
    <3> TAKE S
    <3>1. Only(first, S) = Only(<<Types>>, S) \o Only(inputs, S)
      <4> DEFINE one == <<Types>>
      <4>1. one \in Seq(Entry) /\ inputs \in Seq(Entry)
        BY <2>2, <2>4
      <4> HIDE DEF one
      <4>2. Only(one \o inputs, S) = Only(one, S) \o Only(inputs, S)
        BY <4>1, OnlyOfBoth
      <4> QED
        BY <4>2 DEF one, first
    <3> HIDE DEF first
    <3>2. Only(new, S) = Only(first, S) \o Only(users, S)
      BY <2>3, <2>4, OnlyOfBoth
    <3> QED
      BY <3>1, <3>2
  <2> HIDE DEF first, new
  <2>7. Only(new, Managed) = <<Types>> \o Only(inputs, Managed)
    <3>1. Only(<<Types>>, Managed) = <<Types>>
      BY <2>2, OnlyOfOne DEF More
    <3>2. (Entry \ Managed) \cap Managed = {}
      OBVIOUS
    <3>3. Only(users, Managed) = Only(text, {})
      BY <2>2, <3>2, OnlyOfOnly DEF users, user_entries
    <3>4. Only(text, {}) = << >>
      BY <2>2, OnlyOfOthers
    <3> DEFINE x == Only(inputs, Managed)
    <3>5. x \in Seq(Entry)
      BY <2>2, KeptType
    <3> HIDE DEF x
    <3>6. (<<Types>> \o x) \o << >> = <<Types>> \o x
      BY <2>4, <3>5
    <3> QED
      BY <2>6, <3>1, <3>3, <3>4, <3>6 DEF x
  <2>8. Only(new, Own) = Only(text, Own)
    <3>1. Only(<<Types>>, Own) = << >>
      BY <2>2, WorkspaceAssumption, OnlyOfOne DEF More
    <3>2. Only(inputs, Own) = << >>
      BY <2>2, OnlyOfOthers
    <3>3. (Entry \ Managed) \cap Own = Own
      BY WorkspaceAssumption
    <3>4. Only(users, Own) = Only(text, Own)
      BY <2>2, <3>3, OnlyOfOnly DEF users, user_entries
    <3> DEFINE x == Only(text, Own)
    <3>5. x \in Seq(Entry)
      BY <2>2, KeptType
    <3> HIDE DEF x
    <3>6. (<< >> \o << >>) \o x = x
      BY <3>5
    <3> QED
      BY <2>6, <3>1, <3>2, <3>4, <3>6 DEF x
  <2>9. Sound(new)
    <3>1. Only(new, Managed) \in OfOneResolution
      BY <2>7 DEF OfOneResolution
    <3> QED
      BY <2>5, <3>1 DEF Sound
  <2>10. IsLibrary(new)
    BY <2>5, WorkspaceAssumption DEF IsLibrary
  <2> QED
    BY <2>1, <2>5, <2>8, <2>9, <2>10 DEF OwnOf
<1> QED
  BY <1>1, <1>2

LEMMA TemplateIsSound ==
  /\ Sound(<<Types>>) /\ <<Types>> \notin {NoFile, Torn}
<1>1. Types \in Entry /\ Types \in Managed
  BY WorkspaceAssumption
<1>2. <<Types>> \in Seq(Entry)
  BY <1>1
<1>3. Only(<<Types>>, Managed) = <<Types>>
  BY <1>1, OnlyOfOne DEF More
<1>4. <<Types>> \in OfOneResolution
  BY DEF OfOneResolution
<1> QED
  BY <1>2, <1>3, <1>4, WorkspaceAssumption DEF Sound

LEMMA LayoutsAreSound ==
  ASSUME NEW layout \in Layouts
  PROVE  Sound(layout) /\ layout # NoFile
<1>1. layout = Odd \/ layout \in Seq(Entry)
  BY WorkspaceAssumption
<1>2. layout # Odd => Only(layout, Managed) \in OfOneResolution
  BY DEF OfOneResolution
<1> QED
  BY <1>1, <1>2, WorkspaceAssumption DEF Sound

\* What is sound can be read.
LEMMA SoundIsText ==
  ASSUME NEW text, Sound(text)
  PROVE  text \in Seq(Entry) \cup {Odd} /\ text # NoFile
BY WorkspaceAssumption DEF Sound

LEMMA Names ==
  /\ Lua # Luarc /\ Lua \in File /\ Luarc \in File /\ User = {Lua, Luarc}
  /\ FileOrder[1] = Lua /\ FileOrder[2] = Luarc
  /\ FileOrder[3] \in File \ {Lua, Luarc} /\ DOMAIN FileOrder = 1 .. 3 /\ Len(FileOrder) = 3
<1>1. /\ FileOrder[1] = Lua /\ FileOrder[2] = Luarc /\ FileOrder[3] = "globals.d.lua"
      /\ DOMAIN FileOrder = 1 .. 3 /\ Len(FileOrder) = 3
  BY DEF FileOrder, Lua, Luarc
<1>2. File = {FileOrder[1], FileOrder[2], FileOrder[3]}
  BY <1>1 DEF File
<1> QED
  BY <1>1, <1>2 DEF Lua, Luarc, User

-----------------------------------------------------------------------------
(* The steps                                                               *)

\* A step of one process.
LEMMA ProcessStep ==
  ASSUME IInv, NEW p \in Process, NEW r \in RunState, run' = [run EXCEPT ![p] = r],
         UNCHANGED <<saved, raced>>, DOMAIN file' = File, Steps(p)',
         file'[Luarc] \in {NoFile, Torn} \/ Sound(file'[Luarc]),
         Updating(p)' => Sound(r.text),
         LuaIsUsers => file'[Lua] = Custom /\ ~InitWrites(p, 1)',
         LuarcIsUsers => file'[Luarc] # NoFile /\ ~InitWrites(p, 2)',
         LibraryIsUsers =>
           /\ file'[Luarc] = Torn \/ Keeps(file'[Luarc])
           /\ Updating(p)' => Keeps(r.text)
  PROVE  IInv'
<1>1. /\ run \in [Process -> RunState] /\ DOMAIN saved = User
      /\ saved[Luarc] \in {NoFile} \cup Layouts
  BY DEF IInv, Shapes
<1>2. run' \in [Process -> RunState] /\ run'[p] = r /\ \A q \in Process \ {p} : run'[q] = run[q]
  BY <1>1
<1>3. Shapes'
  BY <1>1, <1>2 DEF Shapes
<1>4. \A q \in Process \ {p} :
        /\ Steps(q)' <=> Steps(q)
        /\ Updating(q)' <=> Updating(q)
        /\ \A n : InitWrites(q, n)' <=> InitWrites(q, n)
  BY <1>2 DEF Steps, Updating, InitWrites
<1>5. \A q \in Process : Steps(q)'
  BY <1>4 DEF IInv
<1>6. FilesSound'
  BY <1>2, <1>4 DEF IInv, FilesSound, Sound, OfOneResolution
<1>7. /\ LuaIsUsers' <=> LuaIsUsers
      /\ LuarcIsUsers' <=> LuarcIsUsers
      /\ LibraryIsUsers' <=> LibraryIsUsers
  BY DEF LuaIsUsers, LuarcIsUsers, LibraryIsUsers, IsLibrary
<1>8. \A text : Keeps(text)' <=> Keeps(text)
  BY DEF Keeps, IsLibrary, OwnOf
<1>9. LuaStays' /\ LuarcStays'
  <2>1. \A q \in Process \ {p} :
          (InitWrites(q, 1)' <=> InitWrites(q, 1)) /\ (InitWrites(q, 2)' <=> InitWrites(q, 2))
    BY <1>4
  <2>2. /\ LuaIsUsers => \A q \in Process \ {p} : ~InitWrites(q, 1)
        /\ LuarcIsUsers => \A q \in Process \ {p} : ~InitWrites(q, 2)
    BY DEF IInv, LuaStays, LuarcStays
  <2>3. LuaIsUsers => \A q \in Process : ~InitWrites(q, 1)'
    BY <2>1, <2>2
  <2>4. LuarcIsUsers => \A q \in Process : ~InitWrites(q, 2)'
    BY <2>1, <2>2
  <2>5. LuaStays'
    BY <1>7, <2>3 DEF LuaStays
  <2>6. LuarcStays'
    BY <1>7, <2>4 DEF LuarcStays
  <2> QED
    BY <2>5, <2>6
<1>10. OwnStays'
  <2> SUFFICES ASSUME LibraryIsUsers
               PROVE  /\ (file[Luarc] = Torn \/ Keeps(file[Luarc]))'
                      /\ \A q \in Process : (Updating(q) => Keeps(run[q].text))'
    BY <1>7 DEF OwnStays
  <2>1. (file[Luarc] = Torn \/ Keeps(file[Luarc]))'
    BY <1>8
  <2>2. \A q \in Process \ {p} : Updating(q) => Keeps(run[q].text)
    BY DEF IInv, OwnStays
  <2>3. \A q \in Process \ {p} : Updating(q)' => Keeps(run'[q].text)
    BY <1>2, <1>4, <2>2
  <2>4. Updating(p)' => Keeps(run'[p].text)
    BY <1>2
  <2>5. \A q \in Process : (Updating(q) => Keeps(run[q].text))'
    BY <1>8, <2>3, <2>4
  <2> QED
    BY <2>1, <2>5
<1> QED
  BY <1>3, <1>5, <1>6, <1>9, <1>10 DEF IInv

\* One that leaves the files alone.
LEMMA QuietStep ==
  ASSUME IInv, NEW p \in Process, NEW r \in RunState, run' = [run EXCEPT ![p] = r],
         UNCHANGED <<file, saved, raced>>, Steps(p)',
         Updating(p)' => Sound(r.text) /\ (LibraryIsUsers => Keeps(r.text)),
         LuaIsUsers => ~InitWrites(p, 1)',
         LuarcIsUsers => ~InitWrites(p, 2)'
  PROVE  IInv'
<1>1. DOMAIN file' = File
  BY DEF IInv, Shapes
<1>2. file'[Luarc] \in {NoFile, Torn} \/ Sound(file'[Luarc])
  BY DEF IInv, FilesSound
<1>3. /\ LuaIsUsers => file'[Lua] = Custom
      /\ LuarcIsUsers => file'[Luarc] # NoFile
      /\ LibraryIsUsers => file'[Luarc] = Torn \/ Keeps(file'[Luarc])
  BY DEF IInv, LuaStays, LuarcStays, OwnStays
<1> QED
  BY <1>1, <1>2, <1>3, ProcessStep

LEMMA RunIs ==
  ASSUME IInv, NEW p \in Process
  PROVE  /\ run \in [Process -> RunState] /\ run[p] \in RunState
         /\ run[p].pc \in {"idle", "exists", "read", "truncate", "write"}
         /\ run[p].init \in BOOLEAN /\ run[p].next \in 1 .. 3
         /\ run[p].text \in Seq(Entry) \cup {Odd}
         /\ Steps(p)
<1>1. run \in [Process -> RunState]
  BY DEF IInv, Shapes
<1>2. run[p] \in RunState
  BY <1>1
<1> QED
  BY <1>1, <1>2 DEF IInv, RunState

LEMMA IdleIs ==
  Idle \in RunState /\ Idle.pc = "idle" /\ Idle.init = FALSE /\ Idle.next = 1
<1>1. << >> \in Seq(Entry)
  OBVIOUS
<1> QED
  BY <1>1 DEF Idle, RunState

States == {"idle", "exists", "read", "truncate", "write"}
Places == 1 .. 3
AtFile(s, to, n) == [s EXCEPT !.pc = to, !.next = n]
ForInputs(s, to, n, inputs) == [s EXCEPT !.pc = to, !.next = n, !.inputs = inputs]

\* A state of which some fields are set.
LEMMA AsInit ==
  ASSUME NEW s \in RunState, NEW to \in States, NEW init \in BOOLEAN
  PROVE  /\ [s EXCEPT !.pc = to, !.init = init] \in RunState
         /\ [s EXCEPT !.pc = to, !.init = init].pc = to
         /\ [s EXCEPT !.pc = to, !.init = init].init = init
         /\ [s EXCEPT !.pc = to, !.init = init].next = s.next
BY DEF RunState, States, Places

LEMMA AtFileIs ==
  ASSUME NEW s \in RunState, NEW to \in States, NEW n \in Places
  PROVE  /\ AtFile(s, to, n) \in RunState /\ AtFile(s, to, n).pc = to
         /\ AtFile(s, to, n).init = s.init /\ AtFile(s, to, n).next = n
BY DEF RunState, States, Places, AtFile

LEMMA ForInputsIs ==
  ASSUME NEW s \in RunState, NEW to \in States, NEW n \in Places, NEW inputs \in Resolutions
  PROVE  /\ ForInputs(s, to, n, inputs) \in RunState
         /\ ForInputs(s, to, n, inputs).pc = to
         /\ ForInputs(s, to, n, inputs).init = s.init
         /\ ForInputs(s, to, n, inputs).next = n
         /\ ForInputs(s, to, n, inputs).inputs = inputs
BY DEF RunState, States, Places, ForInputs

\* A process becomes idle.
LEMMA EndStep ==
  ASSUME IInv, NEW p \in Process, Ends(p), UNCHANGED <<file, saved, raced>>
  PROVE  IInv'
<1>1. run' = [run EXCEPT ![p] = Idle] /\ run'[p] = Idle
  BY RunIs DEF Ends
<1>2. Steps(p)' /\ ~Updating(p)' /\ \A n : ~InitWrites(p, n)'
  BY <1>1, IdleIs DEF Steps, Updating, InitWrites
<1> QED
  BY <1>1, <1>2, IdleIs, QuietStep

LEMMA StartInitStep ==
  ASSUME IInv, NEW p \in Process, StartInit(p)
  PROVE  IInv'
<1> DEFINE r == [Idle EXCEPT !.pc = "exists", !.init = TRUE]
<1>1. r \in RunState /\ r.pc = "exists" /\ r.init = TRUE /\ r.next = 1
  <2>1. "exists" \in States /\ TRUE \in BOOLEAN
    BY DEF States
  <2> QED
    BY <2>1, IdleIs, AsInit, Zenon
<1>2. run' = [run EXCEPT ![p] = r] /\ UNCHANGED <<file, saved, raced>>
  BY DEF StartInit, Command
<1> HIDE DEF r
<1>3. run'[p] = r
  BY <1>2, RunIs
<1>4. Steps(p)' /\ ~Updating(p)' /\ ~InitWrites(p, 1)' /\ ~InitWrites(p, 2)'
  BY <1>1, <1>3 DEF Steps, Updating, InitWrites
<1> QED
  BY <1>1, <1>2, <1>4, QuietStep

LEMMA ExistsStep ==
  ASSUME IInv, NEW p \in Process, Exists(p)
  PROVE  IInv'
<1>1. run[p].pc = "exists" /\ run[p].init /\ UNCHANGED <<file, saved, raced>>
  BY RunIs DEF Exists, Steps
<1>2. CASE run[p].next \notin Guarded
  <2> DEFINE r == AtFile(run[p], "truncate", 1)
  <2>1. run' = [run EXCEPT ![p] = r]
    BY <1>2, RunIs DEF Exists, AtFile
  <2>2. r \in RunState /\ r.pc = "truncate" /\ r.init = run[p].init /\ r.next = 1
    BY RunIs, AtFileIs DEF States, Places
  <2>3. run[p].next = 3
    BY <1>2, RunIs DEF Guarded
  <2> HIDE DEF r
  <2>4. run'[p] = r
    BY <2>1, RunIs
  <2>5. InitWrites(p, 1) /\ InitWrites(p, 2)
    BY <1>1, <2>3 DEF InitWrites
  <2>6. ~LuaIsUsers /\ ~LuarcIsUsers
    BY <2>5 DEF IInv, LuaStays, LuarcStays
  <2>7. Steps(p)' /\ ~Updating(p)'
    BY <1>1, <2>2, <2>4 DEF Steps, Updating
  <2> QED
    BY <1>1, <2>1, <2>2, <2>6, <2>7, QuietStep
<1>3. CASE run[p].next \in Guarded /\ file[FileOrder[run[p].next]] # NoFile
  BY <1>1, <1>3, EndStep DEF Exists
<1>4. CASE run[p].next \in Guarded /\ file[FileOrder[run[p].next]] = NoFile
  <2> DEFINE r == [run[p] EXCEPT !.next = @ + 1]
  <2>1. run' = [run EXCEPT ![p] = r]
    BY <1>4, RunIs DEF Exists
  <2>2. run[p].next \in {1, 2}
    BY <1>4 DEF Guarded
  <2>3. r \in RunState /\ r.pc = "exists" /\ r.init /\ r.next = run[p].next + 1
    BY <1>1, <2>2, RunIs DEF RunState
  <2> HIDE DEF r
  <2>4. run'[p] = r
    BY <2>1, RunIs
  <2>5. Steps(p)' /\ ~Updating(p)'
    BY <2>3, <2>4 DEF Steps, Updating
  <2>6. LuaIsUsers => ~InitWrites(p, 1)'
    <3>1. CASE run[p].next = 1
      BY <1>4, <3>1, Names, WorkspaceAssumption DEF IInv, LuaStays
    <3>2. CASE run[p].next = 2
      BY <1>1, <3>2 DEF IInv, LuaStays, InitWrites
    <3> QED
      BY <2>2, <3>1, <3>2
  <2>7. LuarcIsUsers => ~InitWrites(p, 2)'
    <3>1. CASE run[p].next = 1
      BY <2>3, <2>4, <3>1 DEF InitWrites
    <3>2. CASE run[p].next = 2
      BY <1>4, <3>2, Names DEF IInv, LuarcStays
    <3> QED
      BY <2>2, <3>1, <3>2
  <2> QED
    BY <1>1, <2>1, <2>3, <2>5, <2>6, <2>7, QuietStep
<1> QED
  BY <1>2, <1>3, <1>4

LEMMA StartUpdateStep ==
  ASSUME IInv, NEW p \in Process, StartUpdate(p)
  PROVE  IInv'
<1>1. PICK inputs \in Resolutions :
        run' = [run EXCEPT ![p] = [Idle EXCEPT !.pc = "read", !.next = 2, !.inputs = inputs]]
  BY DEF StartUpdate
<1> DEFINE r == ForInputs(Idle, "read", 2, inputs)
<1>2. /\ r \in RunState /\ r.pc = "read" /\ ~r.init /\ r.next = 2
      /\ r.inputs = inputs
  <2>1. Idle \in RunState /\ "read" \in States /\ 2 \in Places
    BY IdleIs DEF States, Places
  <2>2. /\ r \in RunState /\ r.pc = "read" /\ r.init = Idle.init /\ r.next = 2
        /\ r.inputs = inputs
    BY <2>1, ForInputsIs
  <2> QED
    BY <2>2, IdleIs
<1>3. run' = [run EXCEPT ![p] = r] /\ UNCHANGED <<file, saved, raced>>
  BY <1>1 DEF StartUpdate, Command, ForInputs
<1> HIDE DEF r
<1>4. run'[p] = r
  BY <1>3, RunIs
<1>5. Steps(p)' /\ ~Updating(p)' /\ ~InitWrites(p, 1)' /\ ~InitWrites(p, 2)'
  BY <1>2, <1>4 DEF Steps, Updating, InitWrites
<1> QED
  BY <1>2, <1>3, <1>5, QuietStep

LEMMA ReadStep ==
  ASSUME IInv, NEW p \in Process, Read(p)
  PROVE  IInv'
<1>1. /\ run[p].pc = "read" /\ ~run[p].init /\ run[p].inputs \in Resolutions
      /\ run[p].next = 2 /\ UNCHANGED <<file, saved, raced>>
  BY RunIs DEF Read, Steps
<1>2. CASE file[Luarc] \in {NoFile, Torn}
  BY <1>1, <1>2, EndStep DEF Read, Luarc
<1>3. CASE file[Luarc] \notin {NoFile, Torn}
  <2> DEFINE text == Updated(file[Luarc], run[p].inputs)
  <2> DEFINE r == [run[p] EXCEPT !.pc = "truncate", !.text = text]
  <2>1. run' = [run EXCEPT ![p] = r]
    BY <1>3, RunIs DEF Read, Luarc
  <2>2. Sound(file[Luarc]) /\ file[Luarc] \in Seq(Entry) \cup {Odd}
    BY <1>3, SoundIsText DEF IInv, FilesSound
  <2>3. /\ text \in Seq(Entry) \cup {Odd} /\ Sound(text)
        /\ IsLibrary(file[Luarc]) => IsLibrary(text) /\ OwnOf(text) = OwnOf(file[Luarc])
    BY <1>1, <2>2, UpdatedIsSound
  <2> HIDE DEF text
  <2>4. /\ r \in RunState /\ r.pc = "truncate" /\ ~r.init /\ r.next = 2 /\ r.text = text
    BY <1>1, <2>3, RunIs DEF RunState
  <2> HIDE DEF r
  <2>5. run'[p] = r
    BY <2>1, RunIs
  <2>6. Steps(p)' /\ ~InitWrites(p, 1)' /\ ~InitWrites(p, 2)'
    BY <2>4, <2>5 DEF Steps, InitWrites
  <2>7. LibraryIsUsers => Keeps(text)
    BY <1>3, <2>3 DEF IInv, OwnStays, Keeps
  <2> QED
    BY <1>1, <2>1, <2>3, <2>4, <2>6, <2>7, QuietStep
<1> QED
  BY <1>2, <1>3

LEMMA TruncateStep ==
  ASSUME IInv, NEW p \in Process, Truncate(p)
  PROVE  IInv'
<1> DEFINE r == [run[p] EXCEPT !.pc = "write"]
<1>1. /\ run[p].pc = "truncate" /\ UNCHANGED <<saved, raced>>
      /\ file' = [file EXCEPT ![Target(p)] = Torn] /\ run' = [run EXCEPT ![p] = r]
  BY RunIs DEF Truncate, Go
<1>2. /\ r \in RunState /\ r.pc = "write" /\ r.init = run[p].init /\ r.next = run[p].next
      /\ r.text = run[p].text
  BY RunIs DEF RunState
<1> HIDE DEF r
<1>3. run'[p] = r
  BY <1>1, RunIs
<1>4. Target(p) = FileOrder[run[p].next] /\ DOMAIN file = File
  BY DEF Target, IInv, Shapes
<1>5. /\ Steps(p)' /\ (Updating(p)' <=> Updating(p))
      /\ \A n : InitWrites(p, n)' <=> InitWrites(p, n)
  BY <1>1, <1>2, <1>3, RunIs DEF Steps, Updating, InitWrites
<1>6. /\ Updating(p) => Sound(run[p].text)
      /\ LibraryIsUsers /\ Updating(p) => Keeps(run[p].text)
  BY DEF IInv, FilesSound, OwnStays
<1>7. file'[Luarc] = Torn \/ file'[Luarc] = file[Luarc]
  BY <1>1, <1>4, Names
<1>8. file'[Luarc] \in {NoFile, Torn} \/ Sound(file'[Luarc])
  BY <1>7 DEF IInv, FilesSound
<1>9. LuaIsUsers => file'[Lua] = Custom /\ ~InitWrites(p, 1)'
  <2> SUFFICES ASSUME LuaIsUsers PROVE file'[Lua] = Custom /\ ~InitWrites(p, 1)'
    OBVIOUS
  <2>1. file[Lua] = Custom /\ ~InitWrites(p, 1)
    BY DEF IInv, LuaStays
  <2>2. run[p].next \in {2, 3}
    BY <1>1, <2>1, RunIs DEF InitWrites, Steps
  <2>3. file'[Lua] = file[Lua]
    BY <1>1, <1>4, <2>2, Names
  <2> QED
    BY <1>5, <2>1, <2>3
<1>10. LuarcIsUsers => file'[Luarc] # NoFile /\ ~InitWrites(p, 2)'
  BY <1>5, <1>7, WorkspaceAssumption DEF IInv, LuarcStays
<1>11. LibraryIsUsers =>
         /\ file'[Luarc] = Torn \/ Keeps(file'[Luarc])
         /\ Updating(p)' => Keeps(r.text)
  BY <1>2, <1>5, <1>6, <1>7 DEF IInv, OwnStays
<1>12. DOMAIN file' = File
  BY <1>1, <1>4
<1>13. Updating(p)' => Sound(r.text)
  BY <1>2, <1>5, <1>6
<1> QED
  BY <1>1, <1>2, <1>5, <1>8, <1>9, <1>10, <1>11, <1>12, <1>13, ProcessStep

LEMMA WriteStep ==
  ASSUME IInv, NEW p \in Process, Write(p)
  PROVE  IInv'
<1>1. /\ run[p].pc = "write" /\ UNCHANGED <<saved, raced>> /\ DOMAIN file = File
      /\ Target(p) = FileOrder[run[p].next]
      /\ \/ file' = [file EXCEPT ![Target(p)] = Text(p)]
         \/ file' = [file EXCEPT ![Target(p)] = Torn]
  BY DEF Write, Target, IInv, Shapes
<1>2. DOMAIN file' = File /\ \A f \in File \ {Target(p)} : file'[f] = file[f]
  BY <1>1
<1>3. ~run[p].init => run[p].next = 2 /\ Updating(p)
  BY <1>1, RunIs DEF Steps, Updating
<1>4. ASSUME Target(p) = Luarc
      PROVE  /\ run[p].init => Text(p) = <<Types>>
             /\ ~run[p].init => Text(p) = run[p].text
  BY <1>4 DEF Text, Template, Luarc
<1>5. Target(p) = Luarc => Sound(Text(p)) /\ Text(p) # NoFile
  <2> SUFFICES ASSUME Target(p) = Luarc PROVE Sound(Text(p)) /\ Text(p) # NoFile
    OBVIOUS
  <2>1. CASE run[p].init
    BY <1>4, <2>1, TemplateIsSound
  <2>2. CASE ~run[p].init
    BY <1>3, <1>4, <2>2, SoundIsText DEF IInv, FilesSound
  <2> QED
    BY <2>1, <2>2
<1>6. file'[Luarc] \in {Torn, file[Luarc]} \/ (Target(p) = Luarc /\ file'[Luarc] = Text(p))
  BY <1>1, <1>2, Names
<1>7. file'[Luarc] \in {NoFile, Torn} \/ Sound(file'[Luarc])
  BY <1>5, <1>6 DEF IInv, FilesSound
<1>8. LuaIsUsers => file'[Lua] = Custom /\ ~InitWrites(p, 1)
  <2> SUFFICES ASSUME LuaIsUsers PROVE file'[Lua] = Custom /\ ~InitWrites(p, 1)
    OBVIOUS
  <2>1. file[Lua] = Custom /\ ~InitWrites(p, 1)
    BY DEF IInv, LuaStays
  <2>2. run[p].next \in {2, 3}
    BY <1>1, <1>3, <2>1, RunIs DEF InitWrites
  <2>3. Target(p) # Lua
    BY <1>1, <2>2, Names
  <2> QED
    BY <1>2, <2>1, <2>3, Names
<1>9. LuarcIsUsers => file'[Luarc] # NoFile /\ ~InitWrites(p, 2)
  BY <1>5, <1>6, WorkspaceAssumption DEF IInv, LuarcStays
<1>10. LibraryIsUsers => file'[Luarc] = Torn \/ Keeps(file'[Luarc])
  <2> SUFFICES ASSUME LibraryIsUsers, Target(p) = Luarc, file'[Luarc] = Text(p)
               PROVE  Keeps(Text(p))
    BY <1>6 DEF IInv, OwnStays
  <2>1. LuarcIsUsers
    BY DEF LibraryIsUsers, LuarcIsUsers, IsLibrary
  <2>2. run[p].next = 2 /\ ~InitWrites(p, 2)
    <3>1. run[p].next = 2
      BY <1>1, RunIs, Names
    <3> QED
      BY <1>9, <2>1, <3>1
  <2>3. ~run[p].init
    BY <1>1, <2>2 DEF InitWrites
  <2> QED
    BY <1>3, <1>4, <2>3 DEF IInv, OwnStays
<1>11. CASE run[p].init /\ run[p].next < Len(FileOrder)
  <2>1. run[p].next \in {1, 2}
    BY <1>11, RunIs, Names
  <2> DEFINE r == AtFile(run[p], "truncate", run[p].next + 1)
  <2>2. run' = [run EXCEPT ![p] = r]
    BY <1>11, RunIs DEF Write, AtFile
  <2>3. /\ r \in RunState /\ r.pc = "truncate" /\ r.init = run[p].init
        /\ r.next = run[p].next + 1
    <3>1. "truncate" \in States /\ run[p].next + 1 \in Places
      BY <2>1 DEF States, Places
    <3> QED
      BY <3>1, RunIs, AtFileIs
  <2> HIDE DEF r
  <2>4. run'[p] = r
    BY <2>2, RunIs
  <2>5. Steps(p)' /\ ~Updating(p)'
    BY <1>11, <2>3, <2>4 DEF Steps, Updating
  <2>6. (InitWrites(p, 1)' => InitWrites(p, 1)) /\ (InitWrites(p, 2)' => InitWrites(p, 2))
    BY <1>1, <1>11, <2>1, <2>3, <2>4 DEF InitWrites
  <2> QED
    BY <1>1, <1>2, <1>7, <1>8, <1>9, <1>10, <2>2, <2>3, <2>5, <2>6, ProcessStep
<1>12. CASE ~(run[p].init /\ run[p].next < Len(FileOrder))
  <2>1. run' = [run EXCEPT ![p] = Idle]
    BY <1>12 DEF Write, Ends
  <2>2. run'[p] = Idle
    BY <2>1, RunIs
  <2>3. Steps(p)' /\ ~Updating(p)' /\ ~InitWrites(p, 1)' /\ ~InitWrites(p, 2)'
    BY <2>2, IdleIs DEF Steps, Updating, InitWrites
  <2> QED
    BY <1>1, <1>2, <1>7, <1>8, <1>9, <1>10, <2>1, <2>3, IdleIs, ProcessStep
<1> QED
  BY <1>11, <1>12

LEMMA StopStep ==
  ASSUME IInv, NEW p \in Process, Stop(p)
  PROVE  IInv'
BY EndStep DEF Stop

\* Who is about to write a file is one of its writers.
LEMMA WritersThere ==
  ASSUME IInv, NEW p \in Process
  PROVE  /\ Updating(p) => p \in Writers(Luarc)
         /\ InitWrites(p, 1) => p \in Writers(Lua)
         /\ InitWrites(p, 2) => p \in Writers(Luarc)
<1>1. Updating(p) => p \in Writers(Luarc)
  BY DEF Updating, Writers, Luarc
<1>2. ASSUME NEW n \in {1, 2}, InitWrites(p, n)
      PROVE  p \in Writers(FileOrder[n])
  <2>1. run[p].init /\ n \in DOMAIN FileOrder /\ n \in Guarded
    BY <1>2, Names DEF InitWrites, Guarded
  <2>2. CASE run[p].pc = "exists"
    BY <1>2, <2>1, <2>2 DEF InitWrites, Writers
  <2>3. CASE run[p].pc # "exists"
    <3>1. n >= run[p].next
      BY <1>2, <2>3, RunIs DEF InitWrites
    <3> QED
      BY <2>1, <2>3, <3>1 DEF Writers
  <2> QED
    BY <2>2, <2>3
<1> QED
  BY <1>1, <1>2, Names

LEMMA SaveStep ==
  ASSUME IInv, NEW f \in User, NEW text, Save(f, text),
         f = Lua => text = Custom, f = Luarc => text \in Layouts
  PROVE  IInv'
<1>1. /\ file' = [file EXCEPT ![f] = text] /\ saved' = [saved EXCEPT ![f] = text]
      /\ raced' = (IF Writers(f) = {} THEN raced \ {f} ELSE raced \cup {f})
      /\ UNCHANGED run
  BY DEF Save
<1>2. /\ DOMAIN file = File /\ DOMAIN saved = User /\ run \in [Process -> RunState]
      /\ saved[Luarc] \in {NoFile} \cup Layouts
  BY DEF IInv, Shapes
<1>3. /\ DOMAIN file' = File /\ file'[f] = text /\ \A g \in File \ {f} : file'[g] = file[g]
      /\ DOMAIN saved' = User /\ saved'[f] = text /\ \A g \in User \ {f} : saved'[g] = saved[g]
      /\ f \notin raced' => Writers(f) = {}
      /\ \A g \in User \ {f} : g \in raced' <=> g \in raced
  BY <1>1, <1>2, Names
<1>4. \A p \in Process :
        /\ (Steps(p)' <=> Steps(p)) /\ (Updating(p)' <=> Updating(p))
        /\ (InitWrites(p, 1)' <=> InitWrites(p, 1)) /\ (InitWrites(p, 2)' <=> InitWrites(p, 2))
  BY <1>1 DEF Steps, Updating, InitWrites
<1>5. Shapes' /\ \A p \in Process : Steps(p)'
  BY <1>1, <1>2, <1>3, <1>4, Names DEF IInv, Shapes
<1>6. FilesSound'
  <2>1. \A t : Sound(t)' <=> Sound(t)
    BY DEF Sound, OfOneResolution
  <2>2. f = Luarc => Sound(text)
    BY LayoutsAreSound
  <2>3. f # Luarc => file'[Luarc] = file[Luarc]
    BY <1>3, Names
  <2> QED
    BY <1>1, <1>3, <1>4, <2>1, <2>2, <2>3 DEF IInv, FilesSound
<1>7. CASE f = Lua
  <2>1. LuaStays'
    <3>1. LuaIsUsers' => \A p \in Process : ~InitWrites(p, 1)
      BY <1>3, <1>7, WritersThere DEF LuaIsUsers
    <3> QED
      BY <1>3, <1>4, <1>7, <3>1 DEF LuaStays
  <2>2. /\ file'[Luarc] = file[Luarc] /\ saved'[Luarc] = saved[Luarc]
        /\ Luarc \in raced' <=> Luarc \in raced
    BY <1>3, <1>7, Names
  <2>3. (LuarcIsUsers' <=> LuarcIsUsers) /\ (LibraryIsUsers' <=> LibraryIsUsers)
    BY <2>2 DEF LuarcIsUsers, LibraryIsUsers, IsLibrary
  <2>4. LuarcStays'
    BY <1>4, <2>2, <2>3 DEF IInv, LuarcStays
  <2>5. \A t : Keeps(t)' <=> Keeps(t)
    BY <2>2 DEF Keeps, IsLibrary, OwnOf
  <2>6. OwnStays'
    BY <1>1, <1>4, <2>2, <2>3, <2>5 DEF IInv, OwnStays
  <2> QED
    BY <1>5, <1>6, <2>1, <2>4, <2>6 DEF IInv
<1>8. CASE f = Luarc
  <2>1. /\ file'[Lua] = file[Lua] /\ saved'[Lua] = saved[Lua]
        /\ Lua \in raced' <=> Lua \in raced
    BY <1>3, <1>8, Names
  <2>2. LuaIsUsers' <=> LuaIsUsers
    BY <2>1 DEF LuaIsUsers
  <2>3. LuaStays'
    BY <1>4, <2>1, <2>2 DEF IInv, LuaStays
  <2>4. LuarcIsUsers' \/ LibraryIsUsers' => Writers(Luarc) = {}
    BY <1>3, <1>8 DEF LuarcIsUsers, LibraryIsUsers
  <2>5. file'[Luarc] = text /\ saved'[Luarc] = text /\ text # NoFile
    BY <1>3, <1>8, LayoutsAreSound
  <2>6. LuarcStays'
    BY <1>4, <2>4, <2>5, WritersThere DEF LuarcStays
  <2>7. OwnStays'
    <3> SUFFICES ASSUME LibraryIsUsers' PROVE OwnStays'
      BY DEF OwnStays
    <3>1. \A p \in Process : ~Updating(p)'
      BY <1>4, <2>4, WritersThere
    <3>2. Keeps(file[Luarc])'
      BY <2>5 DEF LibraryIsUsers, Keeps, OwnOf, IsLibrary
    <3> QED
      BY <3>1, <3>2 DEF OwnStays
  <2> QED
    BY <1>5, <1>6, <2>3, <2>6, <2>7 DEF IInv
<1> QED
  BY <1>7, <1>8, Names

-----------------------------------------------------------------------------
(* The theorems                                                            *)

LEMMA InitHolds == Init => IInv
<1> SUFFICES ASSUME Init PROVE IInv
  OBVIOUS
<1>1. PICK lua \in {NoFile, Custom}, luarc \in {NoFile} \cup Layouts :
        file = [f \in File |-> CASE f = "init.lua" -> lua
                                [] f = ".luarc.json" -> luarc
                                [] OTHER -> NoFile]
  BY DEF Init
<1>2. DOMAIN file = File /\ file[Lua] = lua /\ file[Luarc] = luarc
  BY <1>1, Names DEF Lua, Luarc
<1>3. /\ run = [p \in Process |-> Idle] /\ saved = [f \in User |-> file[f]]
      /\ raced = {}
  BY DEF Init
<1>4. saved[Lua] = lua /\ saved[Luarc] = luarc /\ DOMAIN saved = User
  BY <1>2, <1>3, Names
<1>5. Shapes
  BY <1>2, <1>3, <1>4, IdleIs DEF Shapes
<1>6. \A p \in Process : Steps(p) /\ ~Updating(p) /\ \A n : ~InitWrites(p, n)
  BY <1>3, IdleIs DEF Steps, Updating, InitWrites
<1>7. FilesSound
  BY <1>2, <1>6, LayoutsAreSound DEF FilesSound
<1>8. LuaStays /\ LuarcStays
  BY <1>2, <1>4, <1>6 DEF LuaStays, LuarcStays, LuaIsUsers, LuarcIsUsers
<1>9. OwnStays
  BY <1>2, <1>4, <1>6 DEF OwnStays, LibraryIsUsers, Keeps
<1> QED
  BY <1>5, <1>6, <1>7, <1>8, <1>9 DEF IInv

LEMMA NextHolds == IInv /\ [Next]_vars => IInv'
<1> SUFFICES ASSUME IInv, [Next]_vars PROVE IInv'
  OBVIOUS
<1>1. ASSUME NEW p \in Process,
             \/ StartInit(p) \/ Exists(p) \/ StartUpdate(p) \/ Read(p)
             \/ Truncate(p) \/ Write(p) \/ Stop(p)
      PROVE  IInv'
  BY <1>1, StartInitStep, ExistsStep, StartUpdateStep, ReadStep, TruncateStep,
     WriteStep, StopStep
<1>2. CASE Edit
  <2>1. CASE Save("init.lua", Custom)
    BY <2>1, SaveStep, Names DEF Lua, Luarc
  <2>2. ASSUME NEW layout \in Layouts, Save(".luarc.json", layout) PROVE IInv'
    BY <2>2, SaveStep, Names DEF Lua, Luarc
  <2> QED
    BY <1>2, <2>1, <2>2 DEF Edit
<1>3. CASE UNCHANGED vars
  BY <1>3 DEF vars, IInv, Shapes, Steps, FilesSound, Sound, OfOneResolution, Updating,
    LuaStays, LuarcStays, OwnStays, LuaIsUsers, LuarcIsUsers, LibraryIsUsers, InitWrites,
    Keeps, IsLibrary, OwnOf
<1> QED
  BY <1>1, <1>2, <1>3 DEF Next

LEMMA Invariant == Spec => []IInv
BY InitHolds, NextHolds, PTL DEF Spec

\* However inits and updates overlap or stop half way, what users wrote stays
\* (init/mod.rs:99, :219).
THEOREM WorkStays == Spec => []UsersWorkStays
<1>1. IInv => UsersWorkStays
  <2> SUFFICES ASSUME IInv PROVE UsersWorkStays
    OBVIOUS
  <2>1. Lua \notin raced /\ saved[Lua] = Custom => file[Lua] = Custom
    BY DEF IInv, LuaStays, LuaIsUsers
  <2>2. Luarc \notin raced /\ saved[Luarc] # NoFile => file[Luarc] # NoFile
    BY DEF IInv, LuarcStays, LuarcIsUsers
  <2>3. Luarc \notin raced /\ IsLibrary(saved[Luarc]) /\ IsLibrary(file[Luarc])
          => OwnOf(file[Luarc]) = OwnOf(saved[Luarc])
    BY DEF IInv, OwnStays, LibraryIsUsers, Keeps, IsLibrary
  <2> QED
    BY <2>1, <2>2, <2>3 DEF UsersWorkStays, Lua, Luarc
<1> QED
  BY <1>1, Invariant, PTL

\* The library never mixes the entries of two resolutions (init/mod.rs:213).
THEOREM LibraryIsOfOneResolution == Spec => []OneResolution
<1>1. IInv => OneResolution
  BY DEF IInv, FilesSound, Sound, IsLibrary, OneResolution, OfOneResolution, Luarc
<1> QED
  BY <1>1, Invariant, PTL
=============================================================================
