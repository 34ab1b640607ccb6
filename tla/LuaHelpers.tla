----------------------------- MODULE LuaHelpers -----------------------------
(***************************************************************************)
(* The pure functions of the `sys` table that configurations compute with: *)
(* sys.path and sys.mktime (lua/helpers/path.rs, lua/globals.rs).          *)
(*                                                                         *)
(* A path is the sequence of its components, as std::path::Path gives them *)
(* on Unix: Root only first, Dot only first and of a relative path, Up     *)
(* anywhere, and names.  canonicalize asks the file system and is left     *)
(* out, as is extname, which splits a name.                                *)
(***************************************************************************)
EXTENDS Integers, Sequences, FiniteSets

CONSTANTS
  Root, Dot, Up,   \* the components that are no names
  Paths,           \* bound: the paths that are looked at
  WorkingDir,      \* bound: the working directories, each the names from the root
  Years            \* bound: the years, none before the first

\* Path gives the root and "." only as the first component.
IsPath(path) ==
  /\ path \in Seq({path[i] : i \in DOMAIN path})
  /\ \A i \in 2 .. Len(path) : path[i] \notin {Root, Dot}

ASSUME PathsAssumption ==
  /\ Cardinality({Root, Dot, Up}) = 3
  /\ \A path \in Paths \cup WorkingDir : IsPath(path)
  /\ \A dir \in WorkingDir : \A i \in DOMAIN dir : dir[i] \notin {Root, Dot, Up}

ASSUME YearsAssumption == Years \subseteq Nat \ {0}

Nowhere == << >>
Front(path) == SubSeq(path, 1, Len(path) - 1)

-----------------------------------------------------------------------------
(* sys.path                                                                *)

is_absolute(path) == path # Nowhere /\ path[1] = Root

\* PathBuf::push: an absolute path takes the place of all there is, and a "."
\* that does not come first is no component.
Push(path, more) ==
  IF is_absolute(more) THEN more
  ELSE IF path = Nowhere THEN more
  ELSE path \o (IF more # Nowhere /\ more[1] = Dot THEN Tail(more) ELSE more)

\* Segments pushed one after the other, as join and resolve do.
Pushed(path, segments) ==
  LET upTo[i \in 0 .. Len(segments)] ==
        IF i = 0 THEN path ELSE Push(upTo[i - 1], segments[i])
  IN upTo[Len(segments)]

join(segments) == Pushed(Nowhere, segments)

\* Path::parent, and nothing where there is none.
dirname(path) == IF path \in {Nowhere, <<Root>>} THEN Nowhere ELSE Front(path)

\* PathBuf::pop leaves what has no parent.
Pop(path) == IF path \in {Nowhere, <<Root>>} THEN path ELSE Front(path)

\* Path::file_name: neither ".." nor the root has one.
basename(path) ==
  IF path = Nowhere \/ path[Len(path)] \in {Root, Up, Dot} THEN Nowhere
  ELSE <<path[Len(path)]>>

\* Mutant: ".." is kept where there is nothing to go back to.
StepKeepingUp(path, component) ==
  IF component = Up THEN (IF path \in {Nowhere, <<Root>>} THEN Append(path, Up) ELSE Pop(path))
  ELSE IF component = Dot THEN path ELSE Push(path, <<component>>)

Step(path, component) ==
  IF component = Up THEN Pop(path)
  ELSE IF component = Dot THEN path ELSE Push(path, <<component>>)

normalize(path) ==
  LET upTo[i \in 0 .. Len(path)] ==
        IF i = 0 THEN Nowhere ELSE Step(upTo[i - 1], path[i])
  IN upTo[Len(path)]

resolve(cwd, segments) == normalize(Pushed(<<Root>> \o cwd, segments))

\* How many components two paths have in common from the start on.
Common(from, to) ==
  Cardinality({i \in DOMAIN from \cap DOMAIN to : \A j \in 1 .. i : from[j] = to[j]})

\* One ".." for each further component of `from`, then those of `to`.
relative(from, to) ==
  LET n == Common(from, to)
      way == Push([i \in 1 .. Len(from) - n |-> Up], SubSeq(to, n + 1, Len(to)))
  IN IF way = Nowhere THEN <<Dot>> ELSE way

-----------------------------------------------------------------------------
(* sys.mktime                                                              *)

\* Rust's division of integers, which rounds towards zero.
Quotient(a, b) == IF a < 0 THEN -((-a) \div b) ELSE a \div b

\* Mutant: only the years divisible by four are leap years.
EveryFourth(year) == year % 4 = 0

MonthDays == <<0, 31, 59, 90, 120, 151, 181, 212, 243, 273, 304, 334>>
IsLeap(year) == year % 4 = 0 /\ (year % 100 # 0 \/ year % 400 = 0)
UnixEpochDays == 719528

\* The result is days * 86400 + seconds; TLC has no integers that large.
mktime(date, hour, min, sec) ==
  LET y == date.year - 1
      days == y * 365 + Quotient(y, 4) - Quotient(y, 100) + Quotient(y, 400)
              + MonthDays[date.month] + date.day - 1
              + IF date.month > 2 /\ IsLeap(date.year) THEN 1 ELSE 0
  IN [days |-> days - UnixEpochDays, seconds |-> hour * 3600 + min * 60 + sec]

-----------------------------------------------------------------------------
(* What they are for                                                       *)

\* Where a path leads from a directory, one component after the other, when
\* nothing on the way is a symbolic link.
Walk(cwd, path) ==
  LET there[i \in 0 .. Len(path)] ==
        IF i = 0 THEN cwd
        ELSE CASE path[i] = Root -> Nowhere
               [] path[i] = Dot -> there[i - 1]
               [] path[i] = Up -> IF there[i - 1] = Nowhere THEN Nowhere ELSE Front(there[i - 1])
               [] OTHER -> Append(there[i - 1], path[i])
  IN there[Len(path)]

\* A relative path that at some point is above where it starts.
Climbs(path) ==
  \E i \in 1 .. Len(path) :
    2 * Cardinality({j \in 1 .. i : path[j] = Up})
      > Cardinality({j \in 1 .. i : path[j] # Dot})

Length(year, month) ==
  IF month \in {4, 6, 9, 11} THEN 30
  ELSE IF month # 2 THEN 31
  ELSE IF year % 400 = 0 \/ (year % 4 = 0 /\ year % 100 # 0) THEN 29 ELSE 28

Dates ==
  {d \in [year : Years, month : 1 .. 12, day : 1 .. 31] : d.day <= Length(d.year, d.month)}

Tomorrow(d) ==
  IF d.day < Length(d.year, d.month)
  THEN [year |-> d.year, month |-> d.month, day |-> d.day + 1]
  ELSE IF d.month < 12 THEN [year |-> d.year, month |-> d.month + 1, day |-> 1]
  ELSE [year |-> d.year + 1, month |-> 1, day |-> 1]

\* Segments that resolve takes elsewhere than they lead one after the other, or
\* to a path that is not absolute and normalized; and paths that normalize
\* makes lead elsewhere, of those that do not climb.
Misresolved ==
  {t \in WorkingDir \X Paths \X Paths :
     resolve(t[1], <<t[2], t[3]>>) # <<Root>> \o Walk(Walk(t[1], t[2]), t[3])}
Misnormalized ==
  {t \in WorkingDir \X Paths :
     (is_absolute(t[2]) \/ ~Climbs(t[2])) /\ Walk(t[1], normalize(t[2])) # Walk(t[1], t[2])}

\* Pairs of paths, both absolute or both relative, such that relative is not the
\* way from the one to the other once they are normalized; and paths that are
\* not found again from their directory and their name.
Misled ==
  {t \in WorkingDir \X Paths \X Paths :
     /\ is_absolute(t[2]) = is_absolute(t[3])
     /\ LET from == normalize(t[2])
            to == normalize(t[3])
        IN Walk(Walk(t[1], from), relative(from, to)) # Walk(t[1], to)}
Misjoined ==
  {t \in WorkingDir \X Paths :
     LET parts == <<dirname(t[2]), basename(t[2])>>
     IN parts[2] # Nowhere /\ Walk(t[1], join(parts)) # Walk(t[1], t[2])}

\* Days whose last second is not followed by the first of the next.
Mistimed ==
  {d \in Dates :
     LET midnight == mktime(Tomorrow(d), 0, 0, 0)
         before == mktime(d, 23, 59, 59)
     IN (midnight.days - before.days) * 86400 + midnight.seconds # before.seconds + 1}

=============================================================================
