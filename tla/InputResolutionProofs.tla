------------------------ MODULE InputResolutionProofs ------------------------
(***************************************************************************)
(* Theorems about InputResolution, for any inputs, repositories, lock      *)
(* files and number of processes: pins hold, the lock file that a command  *)
(* is about to keep records what it resolved, cycles of dependencies are   *)
(* cut, what code requires has one source, what was kept is reproduced,    *)
(* and an update that is repeated announces nothing.                       *)
(*                                                                         *)
(* What a process knows is a record of its own, so the invariant says what *)
(* holds of each such record, whatever the other processes do.  That the   *)
(* same trees give the same graph takes its history: what comes next in it *)
(* is determined by what is in the trees, so that two resolutions go the   *)
(* same way and end at the same graph.                                     *)
(***************************************************************************)
EXTENDS InputResolution, WellFoundedInduction, SequenceTheorems, TLAPS

\* r has the fields of the local state of a process.
IsRun(r) ==
  r = [pc |-> r.pc, force |-> r.force, dry |-> r.dry, decls |-> r.decls,
       old |-> r.old, loaded |-> r.loaded, lock |-> r.lock, changed |-> r.changed,
       nodes |-> r.nodes, todo |-> r.todo, processed |-> r.processed, seen |-> r.seen,
       found |-> r.found, resolved |-> r.resolved, follows |-> r.follows,
       error |-> r.error, at |-> r.at]

\* An update is given names, all of them if it is given none.
CommandOK(r) ==
  /\ r.pc \in Pc
  /\ r.force # Unforced => r.force \subseteq NameSet
  /\ r.force = {} => DOMAIN r.decls = {}
  /\ DOMAIN r.decls \subseteq NameSet
  /\ \A n \in DOMAIN r.decls : Declares(r.decls[n])

\* What is asked for at a path of the graph is a declaration; the path begins
\* with a root input, and all that leads to it has been processed.
NodesOK(r) ==
  /\ r.pc = "load" => DOMAIN r.nodes = {}
  /\ \A q \in DOMAIN r.nodes :
       /\ q \in Seq(NameSet) /\ Len(q) > 0
       /\ q[1] \in DOMAIN r.decls
       /\ Declares(r.nodes[q])
       /\ Prefixes(q) \ {q} \subseteq r.processed

\* Nodes wait to be resolved, and are then processed and resolved, at once.
WavesOK(r) ==
  /\ r.processed \subseteq DOMAIN r.nodes
  /\ r.todo \subseteq Unprocessed(r)
  /\ DOMAIN r.resolved = r.processed
  /\ \A q \in r.processed : r.nodes[q].url \in r.seen /\ r.resolved[q].url = r.nodes[q].url

\* A URL returns only right below itself.
Cut(nodes) ==
  \A q \in DOMAIN nodes : \A s \in Prefixes(q) \ {q} :
    nodes[s].url = nodes[q].url /\ nodes[q].url # NoUrl => Len(q) = Len(s) + 1

\* An entry holds a revision, and for a path always the same.
Tells(url, rev) == rev \notin {NoRef, Branch} /\ (url.type = "path" => rev = LocalRev)

Entries(lock) == \A q \in DOMAIN lock.root : Tells(lock.root[q].url, lock.root[q].rev)

\* The entry for a path in the lock that is kept in memory.
Recorded(r, q) ==
  /\ q \in Locked(r.lock)
  /\ r.resolved[q].url.type = "git" => r.lock.root[q].rev = r.resolved[q].rev
  /\ r.lock.root[q].url = r.resolved[q].url
     \/ (r.force # Unforced /\ r.resolved[q].url.type = "path")

\* What is resolved has the revision that the lock file had for it.
PinHeld(r, q) ==
  q \in Locked(r.loaded) /\ Floats(r.resolved[q].url)
    /\ (r.force = Unforced \/ Name(q) \notin r.force)
  => r.resolved[q].rev = r.loaded.root[q].rev

\* Entries of inputs that are not resolved are as they were loaded.
Untouched(r) ==
  \A q \in Locked(r.loaded) \ DOMAIN r.resolved :
    q \in Locked(r.lock) /\ r.lock.root[q] = r.loaded.root[q]

LocksOK(r) ==
  /\ Entries(r.lock) /\ Entries(r.loaded)
  /\ \A q \in DOMAIN r.resolved : Recorded(r, q) /\ PinHeld(r, q)
  /\ r.pc = "resolve" => Untouched(r)

\* What follows is settled when all is resolved, and ends at what does not.
FollowsOK(r) ==
  /\ DOMAIN r.follows # {} => WavesOver(r)
  /\ \A s \in DOMAIN r.follows : Follows(r.nodes, s) /\ ~Follows(r.nodes, r.follows[s])

RunInv(r) ==
  /\ IsRun(r) /\ CommandOK(r)
  /\ NodesOK(r) /\ WavesOK(r) /\ Cut(r.nodes)
  /\ LocksOK(r) /\ FollowsOK(r)

Clone == [repo : Repo, head : Nat, fetched : Nat]

\* A clone is made at a commit, and fetched at one that is not older.
CloneOK(clone, heads) ==
  /\ clone \in Clone
  /\ 1 <= clone.head /\ clone.head <= clone.fetched /\ clone.fetched <= heads[clone.repo]

ClonesOK(cs, heads) ==
  /\ cs = [n \in NameSet |-> cs[n]]
  /\ \A n \in NameSet : cs[n] = NoClone \/ CloneOK(cs[n], heads)

FileOK(file) == file \in {NoFile, Torn} \/ Entries(file)

RunsOK(runs) ==
  /\ runs = [p \in Process |-> runs[p]]
  /\ \A p \in Process : RunInv(runs[p])

SharedInv ==
  /\ config \in Configs
  /\ remote \in [Repo -> Nat] /\ \A r \in Repo : remote[r] \in 1 .. MaxCommit[r]
  /\ ClonesOK(clones, remote)
  /\ FileOK(lockFile)
  /\ updated \subseteq NameSet

CountsOK == commands \in 0 .. MaxCommands /\ events \in 0 .. MaxEvents

IInv == SharedInv /\ CountsOK /\ RunsOK(run)

-----------------------------------------------------------------------------
(* Paths, and what is declared                                             *)

\* The prefixes of a path are its beginnings; the longest is the path itself.
LEMMA PrefixIs ==
  ASSUME NEW S, NEW q \in Seq(S)
  PROVE  /\ Len(q) > 0 => q \in Prefixes(q)
         /\ \A s \in Prefixes(q) : s \in Seq(S) /\ Len(s) \in 1 .. Len(q)
         /\ \A s \in Prefixes(q) : s # q => Len(s) < Len(q)
<1>1. \A i \in 1 .. Len(q) :
        /\ SubSeq(q, 1, i) \in Seq(S) /\ Len(SubSeq(q, 1, i)) = i
        /\ \A j \in 1 .. i : SubSeq(q, 1, i)[j] = q[j]
  <2> SUFFICES ASSUME NEW i \in 1 .. Len(q)
               PROVE  /\ SubSeq(q, 1, i) \in Seq(S) /\ Len(SubSeq(q, 1, i)) = i
                      /\ \A j \in 1 .. i : SubSeq(q, 1, i)[j] = q[j]
    OBVIOUS
  <2>1. 1 \in Int /\ i \in Int /\ \A j \in 1 .. i : q[j] \in S
    OBVIOUS
  <2> QED
    BY <2>1, SubSeqProperties
<1>2. SubSeq(q, 1, Len(q)) = q
  OBVIOUS
<1>3. Len(q) \in Nat
  OBVIOUS
<1>4. \A i \in 1 .. Len(q) : i = Len(q) \/ (i < Len(q) /\ i \in Int)
  BY <1>3
<1>5. ASSUME NEW s \in Prefixes(q)
      PROVE  s \in Seq(S) /\ Len(s) \in 1 .. Len(q) /\ (s # q => Len(s) < Len(q))
  <2>1. PICK i \in 1 .. Len(q) : s = SubSeq(q, 1, i)
    BY DEF Prefixes
  <2>2. s \in Seq(S) /\ Len(s) = i
    BY <1>1, <2>1
  <2>3. s # q => i # Len(q)
    BY <1>2, <2>1
  <2> QED
    BY <1>3, <1>4, <2>2, <2>3
<1>6. Len(q) > 0 => q \in Prefixes(q)
  <2>1. Len(q) > 0 => Len(q) \in 1 .. Len(q)
    BY <1>3
  <2> QED
    BY <1>2, <2>1 DEF Prefixes
<1> QED
  BY <1>5, <1>6

\* What leads to a child is what leads to its parent, and the parent.
LEMMA ChildIs ==
  ASSUME NEW S, NEW path \in Seq(S), Len(path) > 0, NEW n \in S
  PROVE  LET q == Child(path, n)
         IN /\ q \in Seq(S) /\ Len(q) = Len(path) + 1 /\ q[1] = path[1]
            /\ Name(q) = n /\ Parent(q) = path
            /\ Prefixes(q) \ {q} = Prefixes(path)
<1> DEFINE q == Child(path, n)
<1>1. /\ q \in Seq(S) /\ Len(q) = Len(path) + 1 /\ q[1] = path[1] /\ q[Len(q)] = n
      /\ \A i \in 1 .. Len(path) : q[i] = path[i]
  BY DEF Child
<1>2. Len(path) \in Nat
  OBVIOUS
<1> HIDE DEF q
<1>3. \A i \in 1 .. Len(path) : SubSeq(q, 1, i) = SubSeq(path, 1, i) /\ i \in 1 .. Len(q)
  <2> SUFFICES ASSUME NEW i \in 1 .. Len(path)
               PROVE  SubSeq(q, 1, i) = SubSeq(path, 1, i) /\ i \in 1 .. Len(q)
    OBVIOUS
  <2>1. i \in 1 .. Len(q) /\ i \in 1 .. Len(path)
    BY <1>1, <1>2
  <2>2. \A j \in 1 .. i : q[j] = path[j]
    BY <1>1, <1>2
  <2> QED
    BY <1>1, <2>1, <2>2
<1>4. SubSeq(path, 1, Len(path)) = path
  OBVIOUS
<1>5. Parent(q) = path
  BY <1>1, <1>2, <1>3, <1>4 DEF Parent
<1>6. SubSeq(q, 1, Len(q)) = q
  BY <1>1
<1>7. \A i \in 1 .. Len(q) : i \in 1 .. Len(path) \/ i = Len(q)
  BY <1>1, <1>2
<1>8. \A s \in Prefixes(path) : s # q
  BY <1>1, <1>2, PrefixIs
<1>9. Prefixes(q) \ {q} = Prefixes(path)
  BY <1>1, <1>2, <1>3, <1>6, <1>7, <1>8 DEF Prefixes
<1> QED
  BY <1>1, <1>5, <1>9 DEF q, Name

\* A root input has a path of its own, that nothing leads to.
LEMMA RootIs ==
  ASSUME NEW n \in NameSet
  PROVE  <<n>> \in Seq(NameSet) /\ Len(<<n>>) = 1 /\ <<n>>[1] = n /\ Prefixes(<<n>>) = {<<n>>}
<1>1. <<n>> \in Seq(NameSet) /\ Len(<<n>>) = 1 /\ <<n>>[1] = n
  OBVIOUS
<1>2. SubSeq(<<n>>, 1, 1) = <<n>>
  <2> DEFINE s == SubSeq(<<n>>, 1, 1)
  <2>1. \A i \in 1 .. 1 : <<n>>[i] \in NameSet
    BY <1>1
  <2>2. s \in Seq(NameSet) /\ Len(s) = 1 /\ \A i \in 1 .. 1 : s[i] = <<n>>[i]
    BY <2>1, SubSeqProperties
  <2> QED
    BY <1>1, <2>2, SeqEqual
<1>3. \A i \in 1 .. Len(<<n>>) : i = 1
  BY <1>1
<1> QED
  BY <1>1, <1>2, <1>3 DEF Prefixes

\* Nothing is in what is empty.
LEMMA NothingInEmpty == DOMAIN Empty = {}
BY DEF Empty

\* The lock file of a tree leads to repositories, at commits.
Leads(lock) ==
  \A q \in DOMAIN lock.root :
    /\ lock.root[q].url # NoUrl /\ Reaches(lock.root[q].url)
    /\ lock.root[q].url.type = "git" => lock.root[q].rev \in Commit

\* What a tree declares are declarations.
LEMMA ContentsDeclare ==
  ASSUME NEW place, place = NoClone \/ place \in DOMAIN Trees
  PROVE  LET inputs == extract_input_decls_from_file(Contents(place))
         IN /\ DOMAIN inputs \subseteq NameSet
            /\ \A n \in DOMAIN inputs : Declares(inputs[n])
            /\ Leads(Contents(place).lock)
<1> DEFINE inputs == extract_input_decls_from_file(Contents(place))
<1>1. CASE place = NoClone
  <2>1. Contents(place).inputs = Empty /\ Contents(place).lock.root = Empty
    BY <1>1 DEF Contents, NoTree, EmptyLock
  <2>2. inputs = Empty
    BY <2>1 DEF extract_input_decls_from_file, extract_raw_inputs
  <2> QED
    BY <2>1, <2>2, NothingInEmpty DEF Leads
<1>2. CASE place \in DOMAIN Trees /\ place # NoClone
  <2>1. Contents(place) = Trees[place]
    BY <1>2 DEF Contents
  <2>2. Trees[place].inputs = NotATable \/
          /\ DOMAIN Trees[place].inputs \subseteq NameSet
          /\ \A n \in DOMAIN Trees[place].inputs : Declares(Trees[place].inputs[n])
    BY <1>2, InputsAssumption
  <2>3. DOMAIN inputs \subseteq NameSet /\ \A n \in DOMAIN inputs : Declares(inputs[n])
    BY <2>1, <2>2, NothingInEmpty DEF extract_input_decls_from_file, extract_raw_inputs
  <2>4. Leads(Trees[place].lock)
    BY <1>2, LocksAssumption DEF Leads
  <2> QED
    BY <2>1, <2>3, <2>4
<1> QED
  BY <1>1, <1>2

\* A declaration is one still, whatever overrides or pins it.
LEMMA OverriddenDeclares ==
  ASSUME NEW parent, Declares(parent), NEW decl, Declares(decl), NEW lock, Leads(lock),
         NEW name
  PROVE  Declares(Overridden(parent, name, decl, lock))
<1>1. CASE name \in DOMAIN parent.inputs /\ IsFollows(parent.inputs[name])
  <2> DEFINE f == [n \in {"__follows__"} |-> parent.inputs[name]]
             d == [url |-> decl.url, inputs |-> f]
  <2>1. Overridden(parent, name, decl, lock) = d
    BY <1>1 DEF Overridden, apply_override
  <2>2. /\ d.url = decl.url /\ d.inputs = f /\ \A n \in DOMAIN f : IsFollows(f[n])
        /\ DOMAIN f \subseteq NameSet
    BY <1>1, InputsAssumption
  <2> HIDE DEF f, d
  <2> QED
    BY <2>1, <2>2 DEF Declares
<1>2. CASE name \in DOMAIN parent.inputs /\ ~IsFollows(parent.inputs[name])
  <2> DEFINE d == [url |-> parent.inputs[name].url, inputs |-> Empty]
  <2>1. Overridden(parent, name, decl, lock) = d
    BY <1>2 DEF Overridden, apply_override
  <2>2. d.url = parent.inputs[name].url /\ d.inputs = Empty
    OBVIOUS
  <2> HIDE DEF d
  <2> QED
    BY <1>2, <2>1, <2>2, NothingInEmpty DEF Declares
<1>3. CASE name \notin DOMAIN parent.inputs /\ <<name>> \in Locked(lock) /\ decl.url # NoUrl
  <2> DEFINE url == lock.root[<<name>>].url
             rev == lock.root[<<name>>].rev
             d == [url |-> inject_revision(url, rev), inputs |-> decl.inputs]
  <2>1. Overridden(parent, name, decl, lock) = d
    BY <1>3 DEF Overridden, apply_input_lock
  <2>2. d.url = inject_revision(url, rev) /\ d.inputs = decl.inputs
    OBVIOUS
  <2>3. Reaches(url) /\ url # NoUrl /\ (url.type = "git" => rev \in Commit)
    BY <1>3 DEF Leads, Locked
  <2> HIDE DEF d, url, rev
  <2>4. Reaches(inject_revision(url, rev))
    <3>1. CASE url.type = "git" /\ url \in GitUrl
      <4>1. inject_revision(url, rev) = [type |-> url.type, repo |-> url.repo, ref |-> rev]
        BY <3>1 DEF inject_revision, GitUrl
      <4>2. [type |-> url.type, repo |-> url.repo, ref |-> rev] \in GitUrl
        BY <2>3, <3>1 DEF GitUrl
      <4> QED
        BY <4>1, <4>2 DEF Reaches
    <3>2. CASE url.type # "git"
      BY <2>3, <3>2 DEF inject_revision
    <3> QED
      BY <2>3, <3>1, <3>2 DEF Reaches
  <2> QED
    BY <2>1, <2>2, <2>4 DEF Declares
<1>4. CASE name \notin DOMAIN parent.inputs /\ ~(<<name>> \in Locked(lock) /\ decl.url # NoUrl)
  <2>1. Overridden(parent, name, decl, lock) = decl
    BY <1>4 DEF Overridden, apply_input_lock
  <2> QED
    BY <2>1
<1> QED
  BY <1>1, <1>2, <1>3, <1>4

-----------------------------------------------------------------------------
(* What the steps of a process make of its record                          *)

\* Before anything has been loaded there is nothing to be wrong.
LEMMA FreshRun ==
  ASSUME NEW r, IsRun(r), CommandOK(r),
         r.nodes = Empty, r.todo = {}, r.processed = {}, r.resolved = Empty,
         r.follows = Empty, r.lock = EmptyLock, r.loaded = EmptyLock
  PROVE  RunInv(r)
<1>1. NodesOK(r) /\ WavesOK(r) /\ Cut(r.nodes)
  BY NothingInEmpty DEF NodesOK, WavesOK, Cut
<1>2. DOMAIN EmptyLock.root = {} /\ Locked(EmptyLock) = {}
  BY NothingInEmpty DEF EmptyLock, Locked
<1>3. LocksOK(r)
  BY <1>2, NothingInEmpty DEF LocksOK, Entries, Untouched
<1>4. FollowsOK(r)
  BY NothingInEmpty DEF FollowsOK
<1> QED
  BY <1>1, <1>3, <1>4 DEF RunInv

\* A process that waits, or has failed, knows nothing.
LEMMA IdleRun == RunInv(Idle)
<1>1. /\ IsRun(Idle) /\ Idle.pc = "idle" /\ Idle.force = Unforced /\ Idle.decls = Empty
      /\ Idle.nodes = Empty /\ Idle.todo = {} /\ Idle.processed = {} /\ Idle.resolved = Empty
      /\ Idle.follows = Empty /\ Idle.lock = EmptyLock /\ Idle.loaded = EmptyLock
  BY DEF Idle, IsRun
<1>2. CommandOK(Idle)
  BY <1>1, NothingInEmpty DEF CommandOK, Pc, AtRest
<1> QED
  BY <1>1, <1>2, FreshRun

\* A process that has failed knows nothing but why.
LEMMA FailedRun ==
  ASSUME NEW s, NEW error, NEW path,
         s = [Idle EXCEPT !.pc = "failed", !.error = error, !.at = path]
  PROVE  RunInv(s)
<1>1. /\ IsRun(s) /\ s.pc = "failed" /\ s.force = Unforced /\ s.decls = Empty
      /\ s.nodes = Empty /\ s.todo = {} /\ s.processed = {} /\ s.resolved = Empty
      /\ s.follows = Empty /\ s.lock = EmptyLock /\ s.loaded = EmptyLock
  BY DEF Idle, IsRun
<1>2. CommandOK(s)
  BY <1>1, NothingInEmpty DEF CommandOK, Pc, AtRest
<1> QED
  BY <1>1, <1>2, FreshRun

\* One process moves: what holds of the others' records still does.
LEMMA OneMoves ==
  ASSUME IInv, NEW p \in Process, NEW r, run' = [run EXCEPT ![p] = r], RunInv(r)
  PROVE  RunsOK(run')
<1>1. run = [q \in Process |-> run[q]] /\ \A q \in Process : RunInv(run[q])
  BY DEF IInv, RunsOK
<1>2. run' = [q \in Process |-> IF q = p THEN r ELSE run[q]]
  BY <1>1
<1>3. \A q \in Process : run'[q] = IF q = p THEN r ELSE run[q]
  BY <1>2
<1>4. run' = [q \in Process |-> run'[q]]
  BY <1>2, <1>3
<1>5. ASSUME NEW q \in Process PROVE RunInv(run'[q])
  <2>1. CASE q = p
    <3>1. run'[q] = r
      BY <1>3, <2>1
    <3> QED
      BY <3>1
  <2>2. CASE q # p
    <3>1. run'[q] = run[q]
      BY <1>3, <2>2
    <3> QED
      BY <1>1, <3>1
  <2> QED
    BY <2>1, <2>2
<1> QED
  BY <1>4, <1>5 DEF RunsOK

\* A command fails.
LEMMA FailsStep ==
  ASSUME IInv, NEW p \in Process, NEW error, NEW path, Fails(p, error, path)
  PROVE  RunsOK(run')
<1> DEFINE s == [Idle EXCEPT !.pc = "failed", !.error = error, !.at = path]
<1>1. RunInv(s)
  BY FailedRun
<1>2. run' = [run EXCEPT ![p] = s]
  BY DEF Fails
<1> HIDE DEF s
<1> QED
  BY <1>1, <1>2, OneMoves

\* A command that has begun has loaded nothing yet.
LEMMA BegunRun ==
  ASSUME NEW s, NEW decls, NEW dry, NEW old, NEW force,
         \/ s = [Idle EXCEPT !.pc = "load", !.decls = decls] /\ force = Unforced
         \/ s = [Idle EXCEPT !.pc = "load", !.decls = decls, !.dry = dry, !.old = old,
                             !.force = force],
         DOMAIN decls \subseteq NameSet, \A n \in DOMAIN decls : Declares(decls[n]),
         force # Unforced => force \subseteq NameSet,
         force = {} => DOMAIN decls = {}
  PROVE  RunInv(s)
<1>1. /\ IsRun(s) /\ s.pc = "load" /\ s.force = force /\ s.decls = decls
      /\ s.nodes = Empty /\ s.todo = {} /\ s.processed = {} /\ s.resolved = Empty
      /\ s.follows = Empty /\ s.lock = EmptyLock /\ s.loaded = EmptyLock
  <2>1. CASE s = [Idle EXCEPT !.pc = "load", !.decls = decls] /\ force = Unforced
    BY <2>1 DEF Idle, IsRun
  <2>2. CASE s = [Idle EXCEPT !.pc = "load", !.decls = decls, !.dry = dry, !.old = old,
                              !.force = force]
    BY <2>2 DEF Idle, IsRun
  <2> QED
    BY <2>1, <2>2
<1>2. CommandOK(s)
  BY <1>1 DEF CommandOK, Pc
<1> QED
  BY <1>1, <1>2, FreshRun

\* A command begins: what it was given and what is declared fit together.
LEMMA StartRun ==
  ASSUME IInv, NEW p \in Process, Start(p)
  PROVE  RunsOK(run')
<1>1. config \in Configs
  BY DEF IInv, SharedInv
<1>2. config = NotATable \/
        /\ DOMAIN config \subseteq NameSet
        /\ \A n \in DOMAIN config : Declares(config[n])
  BY <1>1, InputsAssumption
<1>3. CASE StartEvaluation(p)
  <2> DEFINE decls == extract_raw_inputs(config)
             s == [Idle EXCEPT !.pc = "load", !.decls = decls]
  <2>1. DOMAIN decls \subseteq NameSet /\ \A n \in DOMAIN decls : Declares(decls[n])
    BY <1>2, NothingInEmpty DEF extract_raw_inputs
  <2>2. run' = [run EXCEPT ![p] = s]
    BY <1>3, Zenon DEF StartEvaluation
  <2>3. Unforced # {}
    BY AbsentAssumption
  <2> HIDE DEF decls
  <2>4. RunInv(s)
    BY <2>1, <2>3, BegunRun
  <2> QED
    BY <2>2, <2>4, OneMoves
<1>4. ASSUME NEW names, NEW dry, StartUpdate(p, names, dry)
      PROVE  RunsOK(run')
  <2> DEFINE force == IF names = {} THEN DOMAIN config ELSE names
             old == Read(lockFile)
             s == [Idle EXCEPT !.pc = "load", !.decls = config, !.dry = dry,
                               !.old = old, !.force = force]
  <2>1. CASE \/ extract_input_decls(config) = {} \/ ~(names \subseteq DOMAIN config)
             \/ lockFile = Torn
    <3>1. \/ Fails(p, "LoadConfig", Empty) \/ Fails(p, "InputNotFound", Empty)
          \/ Fails(p, "LoadLock", Empty)
      BY <1>4, <2>1, Zenon DEF StartUpdate
    <3> QED
      BY <3>1, FailsStep
  <2>2. CASE /\ extract_input_decls(config) # {} /\ names \subseteq DOMAIN config
             /\ lockFile # Torn
    <3>1. config # NotATable
      BY <2>2 DEF extract_input_decls
    <3>2. /\ force \subseteq NameSet /\ (force = {} => DOMAIN config = {})
          /\ DOMAIN config \subseteq NameSet /\ \A n \in DOMAIN config : Declares(config[n])
      BY <1>2, <2>2, <3>1
    <3>3. run' = [run EXCEPT ![p] = s]
      BY <1>4, <2>2, Zenon DEF StartUpdate
    <3> HIDE DEF force, old
    <3>4. RunInv(s)
      BY <3>2, BegunRun
    <3> QED
      BY <3>3, <3>4, OneMoves
  <2> QED
    BY <2>1, <2>2
<1> QED
  BY <1>3, <1>4 DEF Start

\* What a joined function holds.
LEMMA JoinedIs ==
  ASSUME NEW f, NEW g
  PROVE  /\ DOMAIN Joined(f, g) = DOMAIN f \cup DOMAIN g
         /\ \A x \in DOMAIN f : Joined(f, g)[x] = f[x]
         /\ \A x \in DOMAIN g : x \notin DOMAIN f => Joined(f, g)[x] = g[x]
BY DEF Joined

\* A function g is f but for one value.
IsWith(g, f, x, y) ==
  /\ DOMAIN g = DOMAIN f \cup {x}
  /\ g[x] = y
  /\ \A z \in DOMAIN f : z # x => g[z] = f[z]

\* What With holds.
LEMMA WithIs ==
  ASSUME NEW f, NEW x, NEW y
  PROVE  IsWith(With(f, x, y), f, x, y)
<1> DEFINE one == [z \in {x} |-> y]
<1>1. DOMAIN one = {x} /\ one[x] = y
  OBVIOUS
<1>2. With(f, x, y) = Joined(one, f)
  BY Zenon DEF With
<1> HIDE DEF one
<1>3. /\ DOMAIN Joined(one, f) = DOMAIN one \cup DOMAIN f
      /\ \A z \in DOMAIN one : Joined(one, f)[z] = one[z]
      /\ \A z \in DOMAIN f : z \notin DOMAIN one => Joined(one, f)[z] = f[z]
  BY JoinedIs, Zenon
<1>4. IsWith(Joined(one, f), f, x, y)
  BY <1>1, <1>3 DEF IsWith
<1> QED
  BY <1>2, <1>4, Zenon

\* The lock file is loaded; the root inputs are all there is to resolve.
LEMMA LoadedRun ==
  ASSUME NEW r, RunInv(r), r.pc = "load", NEW lock, Entries(lock), NEW s,
         s = [r EXCEPT !.pc = "resolve", !.loaded = lock, !.lock = lock,
                       !.nodes = RootNodes(r.decls), !.found = TRUE]
  PROVE  RunInv(s)
<1>1. /\ IsRun(s) /\ s.pc = "resolve" /\ s.loaded = lock /\ s.lock = lock
      /\ s.nodes = RootNodes(r.decls) /\ s.found = TRUE /\ s.force = r.force
      /\ s.decls = r.decls /\ s.todo = r.todo /\ s.processed = r.processed
      /\ s.resolved = r.resolved /\ s.follows = r.follows
  BY DEF RunInv, IsRun
<1>2. DOMAIN r.nodes = {}
  BY DEF RunInv, NodesOK
<1>3. r.processed = {} /\ r.todo = {} /\ DOMAIN r.resolved = {} /\ DOMAIN r.follows = {}
  BY <1>2 DEF RunInv, WavesOK, Unprocessed, FollowsOK, Follows
<1>4. CommandOK(s)
  BY <1>1 DEF RunInv, CommandOK, Pc
<1>5. \A q \in DOMAIN s.nodes : \E n \in DOMAIN r.decls : q = <<n>> /\ s.nodes[q] = r.decls[n]
  BY <1>1 DEF RootNodes
<1>6. DOMAIN r.decls \subseteq NameSet /\ \A n \in DOMAIN r.decls : Declares(r.decls[n])
  BY DEF RunInv, CommandOK
<1>7. ASSUME NEW q \in DOMAIN s.nodes
      PROVE  /\ q \in Seq(NameSet) /\ Len(q) > 0 /\ q[1] \in DOMAIN s.decls
             /\ Declares(s.nodes[q]) /\ Prefixes(q) \ {q} = {}
  <2>1. PICK n \in DOMAIN r.decls : q = <<n>> /\ s.nodes[q] = r.decls[n]
    BY <1>5
  <2>2. q \in Seq(NameSet) /\ Len(q) = 1 /\ q[1] = n /\ Prefixes(q) = {q}
    BY <1>6, <2>1, RootIs
  <2> QED
    BY <1>1, <1>6, <2>1, <2>2
<1>8. NodesOK(s) /\ Cut(s.nodes)
  BY <1>1, <1>7 DEF NodesOK, Cut
<1>9. WavesOK(s) /\ FollowsOK(s)
  BY <1>1, <1>3 DEF WavesOK, FollowsOK
<1>10. LocksOK(s)
  BY <1>1, <1>3 DEF LocksOK, Untouched
<1> QED
  BY <1>1, <1>4, <1>8, <1>9, <1>10 DEF RunInv

\* A process that only goes on to another place keeps what it knows.
LEMMA GoesOnRun ==
  ASSUME NEW r, RunInv(r), NEW pc, pc \in {"save", "write", "done"}, NEW s,
         s = [r EXCEPT !.pc = pc]
  PROVE  RunInv(s)
<1>1. /\ IsRun(s) /\ s.pc = pc /\ s.loaded = r.loaded /\ s.lock = r.lock
      /\ s.nodes = r.nodes /\ s.found = r.found /\ s.force = r.force
      /\ s.decls = r.decls /\ s.todo = r.todo /\ s.processed = r.processed
      /\ s.resolved = r.resolved /\ s.follows = r.follows /\ s.seen = r.seen
  BY DEF RunInv, IsRun
<1>2. CommandOK(s) /\ NodesOK(s) /\ Cut(s.nodes)
  BY <1>1 DEF RunInv, CommandOK, Pc, AtRest, NodesOK
<1>3. WavesOK(s) /\ FollowsOK(s)
  BY <1>1 DEF RunInv, WavesOK, FollowsOK, Unprocessed, WavesOver
<1>4. LocksOK(s)
  BY <1>1 DEF RunInv, LocksOK, Recorded, PinHeld
<1> QED
  BY <1>1, <1>2, <1>3, <1>4 DEF RunInv

-----------------------------------------------------------------------------
(* An input is resolved                                                    *)

\* Nothing leads to a node that has not been processed further down.
LEMMA NoChildYet ==
  ASSUME NEW r, NodesOK(r), NEW path, path \in Unprocessed(r), NEW n \in NameSet
  PROVE  Child(path, n) \notin DOMAIN r.nodes
<1>1. path \in Seq(NameSet) /\ Len(path) > 0 /\ path \notin r.processed
  BY DEF Unprocessed, NodesOK
<1> DEFINE q == Child(path, n)
<1>2. Prefixes(q) \ {q} = Prefixes(path)
  BY <1>1, ChildIs
<1>3. path \in Prefixes(path)
  BY <1>1, PrefixIs
<1> HIDE DEF q
<1>4. q \notin DOMAIN r.nodes
  BY <1>1, <1>2, <1>3 DEF NodesOK
<1> QED
  BY <1>4 DEF q

\* The dependencies that come are new, declared, and have a URL not met before.
LEMMA NewNodesAre ==
  ASSUME NEW r, RunInv(r), NEW path, path \in Unprocessed(r),
         NEW place, place = NoClone \/ place \in DOMAIN Trees
  PROVE  LET new == NewNodes(r, path, Contents(place))
         IN \A q \in DOMAIN new :
              /\ \E n \in NameSet : q = Child(path, n)
              /\ q \notin DOMAIN r.nodes
              /\ Declares(new[q])
              /\ new[q].url \notin r.seen
<1> DEFINE tree == Contents(place)
           inputs == extract_input_decls_from_file(tree)
           new == NewNodes(r, path, tree)
<1>1. /\ DOMAIN inputs \subseteq NameSet
      /\ \A n \in DOMAIN inputs : Declares(inputs[n])
      /\ Leads(tree.lock)
  BY ContentsDeclare
<1>2. path \in Seq(NameSet) /\ Len(path) > 0 /\ Declares(r.nodes[path]) /\ NodesOK(r)
  BY DEF Unprocessed, RunInv, NodesOK
<1>3. /\ DOMAIN new = {Child(path, n) : n \in {m \in DOMAIN inputs :
             Overridden(r.nodes[path], m, inputs[m], tree.lock).url \notin r.seen}}
      /\ \A q \in DOMAIN new :
           new[q] = Overridden(r.nodes[path], Name(q), inputs[Name(q)], tree.lock)
  BY DEF NewNodes
<1> HIDE DEF new, inputs, tree
<1>4. ASSUME NEW q \in DOMAIN new
      PROVE  /\ \E n \in NameSet : q = Child(path, n)
             /\ q \notin DOMAIN r.nodes
             /\ Declares(new[q])
             /\ new[q].url \notin r.seen
  <2>1. PICK n \in DOMAIN inputs :
          /\ q = Child(path, n)
          /\ Overridden(r.nodes[path], n, inputs[n], tree.lock).url \notin r.seen
    BY <1>3
  <2>2. n \in NameSet /\ Name(q) = n
    BY <1>1, <1>2, <2>1, ChildIs
  <2>3. new[q] = Overridden(r.nodes[path], n, inputs[n], tree.lock)
    BY <1>3, <2>2
  <2>4. Declares(new[q])
    BY <1>1, <1>2, <2>3, OverriddenDeclares
  <2> QED
    BY <1>2, <2>1, <2>2, <2>3, <2>4, NoChildYet
<1> QED
  BY <1>4 DEF new, tree

\* What comes below a node is new, declared, and has a URL not met before.
Below(r, path, new) ==
  \A q \in DOMAIN new :
    /\ \E n \in NameSet : q = Child(path, n)
    /\ q \notin DOMAIN r.nodes
    /\ Declares(new[q])
    /\ new[q].url \notin r.seen

IsJoined(nodes, new, old) ==
  /\ DOMAIN nodes = DOMAIN new \cup DOMAIN old
  /\ \A q \in DOMAIN new : nodes[q] = new[q]
  /\ \A q \in DOMAIN old : q \notin DOMAIN new => nodes[q] = old[q]

\* The graph that r's has grown to, once the node has been processed.
Grown(r, path, nodes) ==
  /\ \A q \in DOMAIN r.nodes : q \in DOMAIN nodes /\ nodes[q] = r.nodes[q]
  /\ \A q \in DOMAIN nodes :
       /\ q \in Seq(NameSet) /\ Len(q) > 0
       /\ q[1] \in DOMAIN r.decls
       /\ Declares(nodes[q])
       /\ Prefixes(q) \ {q} \subseteq r.processed \cup {path}
  /\ Cut(nodes)

\* What is new in a graph lies below the node that was processed.
LEMMA GraphGrows ==
  ASSUME NEW r, RunInv(r), NEW path, path \in Unprocessed(r),
         NEW new, Below(r, path, new),
         NEW nodes, IsJoined(nodes, new, r.nodes)
  PROVE  Grown(r, path, nodes)
<1>1. \A q \in DOMAIN r.nodes : q \in DOMAIN nodes /\ nodes[q] = r.nodes[q]
  BY DEF Below, IsJoined
<1>2. /\ path \in DOMAIN r.nodes /\ path \in Seq(NameSet) /\ Len(path) > 0
      /\ path[1] \in DOMAIN r.decls /\ Prefixes(path) \ {path} \subseteq r.processed
      /\ r.processed \subseteq DOMAIN r.nodes
      /\ \A q \in r.processed : r.nodes[q].url \in r.seen
  BY DEF Unprocessed, RunInv, NodesOK, WavesOK
<1>3. ASSUME NEW q \in DOMAIN new
      PROVE  /\ q \in Seq(NameSet) /\ Len(q) = Len(path) + 1 /\ q[1] = path[1]
             /\ Prefixes(q) \ {q} = Prefixes(path)
  <2>1. PICK n \in NameSet : q = Child(path, n)
    BY DEF Below
  <2> QED
    BY <1>2, <2>1, ChildIs
<1>4. Len(path) \in Nat
  BY <1>2
<1>5. ASSUME NEW q \in DOMAIN nodes
      PROVE  /\ q \in Seq(NameSet) /\ Len(q) > 0
             /\ q[1] \in DOMAIN r.decls
             /\ Declares(nodes[q])
             /\ Prefixes(q) \ {q} \subseteq r.processed \cup {path}
  <2>1. CASE q \in DOMAIN new
    BY <1>2, <1>3, <1>4, <2>1 DEF Below, IsJoined
  <2>2. CASE q \in DOMAIN r.nodes
    BY <1>1, <2>2 DEF RunInv, NodesOK
  <2> QED
    BY <2>1, <2>2 DEF IsJoined
<1>6. Cut(nodes)
  <2> SUFFICES ASSUME NEW q \in DOMAIN nodes, NEW s \in Prefixes(q) \ {q},
                      nodes[s].url = nodes[q].url, nodes[q].url # NoUrl
               PROVE  Len(q) = Len(s) + 1
    BY DEF Cut
  <2>1. CASE q \in DOMAIN r.nodes
    <3>1. s \in DOMAIN r.nodes
      BY <1>2, <2>1 DEF RunInv, NodesOK
    <3>2. r.nodes[s].url = r.nodes[q].url /\ r.nodes[q].url # NoUrl
      BY <1>1, <2>1, <3>1
    <3> QED
      BY <2>1, <3>2 DEF RunInv, Cut
  <2>2. CASE q \in DOMAIN new
    <3>1. s \in Prefixes(path)
      BY <1>3, <2>2
    <3>2. CASE s = path
      BY <1>3, <2>2, <3>2
    <3>3. CASE s # path
      <4>1. s \in r.processed /\ s \in DOMAIN r.nodes
        BY <1>2, <3>1, <3>3
      <4>2. nodes[s].url \in r.seen
        BY <1>1, <1>2, <4>1
      <4>3. nodes[q].url \notin r.seen
        BY <2>2 DEF Below, IsJoined
      <4> QED
        BY <4>2, <4>3
    <3> QED
      BY <3>2, <3>3
  <2> QED
    BY <2>1, <2>2 DEF IsJoined
<1> QED
  BY <1>1, <1>5, <1>6 DEF Grown

\* The graph with an input resolved.
LEMMA ResolvedGraph ==
  ASSUME NEW r, RunInv(r), NEW path, path \in Unprocessed(r),
         NEW place, place = NoClone \/ place \in DOMAIN Trees
  PROVE  Grown(r, path, Joined(NewNodes(r, path, Contents(place)), r.nodes))
<1> DEFINE new == NewNodes(r, path, Contents(place))
<1>1. Below(r, path, new)
  BY NewNodesAre DEF Below
<1>2. IsJoined(Joined(new, r.nodes), new, r.nodes)
  BY JoinedIs DEF IsJoined
<1> HIDE DEF new
<1>3. Grown(r, path, Joined(new, r.nodes))
  BY <1>1, <1>2, GraphGrows
<1> QED
  BY <1>3 DEF new

\* The record of a process that has resolved an input.
ResolvedIs(s, r, path, dir, rev, place, write) ==
  /\ IsRun(s) /\ s.pc = r.pc /\ s.force = r.force /\ s.decls = r.decls
  /\ s.loaded = r.loaded /\ s.follows = r.follows
  /\ s.lock = IF write THEN add_root_input(r.lock, path, r.nodes[path].url, rev)
              ELSE r.lock
  /\ s.resolved = With(r.resolved, path, [dir |-> dir, rev |-> rev,
                       url |-> r.nodes[path].url, tree |-> place])
  /\ s.nodes = Joined(NewNodes(r, path, Contents(place)), r.nodes)
  /\ s.seen = r.seen \cup {r.nodes[path].url}
  /\ s.todo = Todo(r) \ {path}
  /\ s.processed = r.processed \cup {path}
  /\ s.changed = (r.changed \/ write)
  /\ s.found = ((r.todo # {} /\ r.found) \/ DOMAIN NewNodes(r, path, Contents(place)) # {})

\* What Resolved makes of the record.
LEMMA ResolvedFields ==
  ASSUME NEW r, IsRun(r), NEW path, NEW dir, NEW rev, NEW place, NEW write, NEW s,
         s = Resolved(r, path, dir, rev, place, write)
  PROVE  ResolvedIs(s, r, path, dir, rev, place, write)
<1> DEFINE url == r.nodes[path].url
           new == NewNodes(r, path, Contents(place))
           resolved == [dir |-> dir, rev |-> rev, url |-> url, tree |-> place]
           added == add_root_input(r.lock, path, url, rev)
           todo == Todo(r)
           found == (r.todo # {} /\ r.found) \/ DOMAIN new # {}
           changed == r.changed \/ write
<1>1. s = [r EXCEPT !.lock = IF write THEN added ELSE r.lock,
                    !.changed = changed,
                    !.resolved = With(r.resolved, path, resolved),
                    !.nodes = Joined(new, r.nodes),
                    !.found = found,
                    !.seen = r.seen \cup {url},
                    !.todo = todo \ {path},
                    !.processed = r.processed \cup {path}]
  BY Zenon DEF Resolved
<1> HIDE DEF url, new, resolved, added, todo, found, changed
<1>2. /\ IsRun(s) /\ s.pc = r.pc /\ s.force = r.force /\ s.decls = r.decls
      /\ s.loaded = r.loaded /\ s.follows = r.follows
      /\ s.lock = (IF write THEN added ELSE r.lock)
      /\ s.resolved = With(r.resolved, path, resolved)
      /\ s.nodes = Joined(new, r.nodes)
      /\ s.seen = r.seen \cup {url}
      /\ s.todo = todo \ {path}
      /\ s.processed = r.processed \cup {path}
      /\ s.changed = changed /\ s.found = found
  BY <1>1 DEF IsRun
<1> QED
  BY <1>2 DEF url, new, resolved, added, todo, found, changed, ResolvedIs

\* The lock file with an entry for an input that was resolved.
LEMMA AddedEntry ==
  ASSUME NEW lock, NEW path, NEW url, NEW rev, NEW l, l = add_root_input(lock, path, url, rev)
  PROVE  /\ DOMAIN l.root = DOMAIN lock.root \cup {path}
         /\ path \in Locked(l) /\ l.root[path].url = url /\ l.root[path].rev = rev
         /\ \A q \in DOMAIN lock.root : q # path => l.root[q] = lock.root[q]
         /\ \A q \in Locked(lock) : q # path => q \in Locked(l)
<1> DEFINE label == Label(path, url, rev)
           root == [q \in DOMAIN lock.root \cup {path} |-> IF q = path THEN label ELSE lock.root[q]]
<1>1. l.root = root /\ l.nodes = lock.nodes \cup {label}
  BY DEF add_root_input
<1>2. label.url = url /\ label.rev = rev
  BY DEF Label
<1>3. /\ DOMAIN root = DOMAIN lock.root \cup {path} /\ root[path] = label
      /\ \A q \in DOMAIN lock.root : q # path => root[q] = lock.root[q]
  OBVIOUS
<1> HIDE DEF root, label
<1> QED
  BY <1>1, <1>2, <1>3 DEF Locked

\* What is required of a revision, and of whether its entry is written: the
\* entry that stays is of the URL and the revision, and a pin is not moved.
Chosen(r, path, rev, write) ==
  LET url == r.nodes[path].url
      entry == r.lock.root[path]
  IN /\ Tells(url, rev)
     /\ ~write =>
          /\ path \in Locked(r.lock)
          /\ url.type = "git" => entry.rev = rev
          /\ entry.url = url \/ (r.force # Unforced /\ url.type = "path")
     /\ path \in Locked(r.lock) /\ Floats(url) /\ ~Forced(r, path) => rev = entry.rev

\* The lock that is kept in memory has what has been resolved, and the pins of
\* what has not.
LEMMA ResolvedLocks ==
  ASSUME NEW r, RunInv(r), r.pc = "resolve",
         NEW path, path \in Unprocessed(r),
         NEW rev, NEW write \in BOOLEAN, Chosen(r, path, rev, write),
         NEW s, s.force = r.force, s.loaded = r.loaded,
         s.lock = IF write THEN add_root_input(r.lock, path, r.nodes[path].url, rev) ELSE r.lock,
         NEW input, input.url = r.nodes[path].url, input.rev = rev,
         s.resolved = With(r.resolved, path, input)
  PROVE  LocksOK(s)
<1> DEFINE url == r.nodes[path].url
<1>1. /\ path \in DOMAIN r.nodes /\ path \notin r.processed /\ DOMAIN r.resolved = r.processed
      /\ path[1] \in DOMAIN r.decls
  BY DEF Unprocessed, RunInv, NodesOK, WavesOK
<1>2. ~Forced(r, path) <=> (r.force = Unforced \/ Name(path) \notin r.force)
  BY <1>1 DEF Forced, RunInv, CommandOK
<1>3. /\ DOMAIN s.resolved = DOMAIN r.resolved \cup {path} /\ s.resolved[path] = input
      /\ \A q \in DOMAIN r.resolved : q # path => s.resolved[q] = r.resolved[q]
  <2>1. IsWith(s.resolved, r.resolved, path, input)
    BY WithIs, Zenon
  <2> QED
    BY <2>1 DEF IsWith
<1>4. /\ DOMAIN s.lock.root \subseteq DOMAIN r.lock.root \cup {path}
      /\ \A q \in DOMAIN r.lock.root : q # path => s.lock.root[q] = r.lock.root[q]
      /\ \A q \in Locked(r.lock) : q # path => q \in Locked(s.lock)
  <2>1. CASE write
    BY <2>1, AddedEntry
  <2>2. CASE ~write
    BY <2>2
  <2> QED
    BY <2>1, <2>2
<1>5. /\ path \in Locked(s.lock)
      /\ url.type = "git" => s.lock.root[path].rev = rev
      /\ s.lock.root[path].url = url \/ (r.force # Unforced /\ url.type = "path")
      /\ path \in DOMAIN s.lock.root =>
           \/ s.lock.root[path].url = url /\ s.lock.root[path].rev = rev
           \/ (path \in DOMAIN r.lock.root /\ s.lock.root[path] = r.lock.root[path])
  <2>1. CASE write
    <3>1. /\ path \in Locked(s.lock) /\ s.lock.root[path].url = url
          /\ s.lock.root[path].rev = rev
      BY <2>1, AddedEntry
    <3> QED
      BY <3>1
  <2>2. CASE ~write
    <3>1. s.lock = r.lock
      BY <2>2
    <3> QED
      BY <2>2, <3>1 DEF Chosen
  <2> QED
    BY <2>1, <2>2
<1>6. Entries(s.lock) /\ Entries(s.loaded)
  <2>1. \A q \in DOMAIN r.lock.root : Tells(r.lock.root[q].url, r.lock.root[q].rev)
    BY DEF RunInv, LocksOK, Entries
  <2>2. Tells(url, rev)
    BY DEF Chosen
  <2>3. ASSUME NEW q \in DOMAIN s.lock.root
        PROVE  Tells(s.lock.root[q].url, s.lock.root[q].rev)
    <3>1. CASE q = path
      BY <1>5, <2>1, <2>2, <3>1
    <3>2. CASE q # path
      BY <1>4, <2>1, <3>2
    <3> QED
      BY <3>1, <3>2
  <2> QED
    BY <2>3 DEF Entries, RunInv, LocksOK
<1>7. ASSUME NEW q \in DOMAIN s.resolved PROVE Recorded(s, q)
  <2>1. CASE q = path
    BY <1>3, <1>5, <2>1 DEF Recorded
  <2>2. CASE q # path
    <3>1. q \in DOMAIN r.resolved /\ s.resolved[q] = r.resolved[q] /\ Recorded(r, q)
      BY <1>3, <2>2 DEF RunInv, LocksOK
    <3>2. q \in Locked(s.lock) /\ s.lock.root[q] = r.lock.root[q]
      BY <1>4, <2>2, <3>1 DEF Recorded, Locked
    <3> QED
      BY <3>1, <3>2 DEF Recorded
  <2> QED
    BY <2>1, <2>2
<1>8. ASSUME NEW q \in DOMAIN s.resolved PROVE PinHeld(s, q)
  <2>1. CASE q = path
    <3> SUFFICES ASSUME path \in Locked(r.loaded), Floats(url),
                        r.force = Unforced \/ Name(path) \notin r.force
                 PROVE  rev = r.loaded.root[path].rev
      BY <1>3, <2>1 DEF PinHeld
    <3>1. path \in Locked(r.lock) /\ r.lock.root[path] = r.loaded.root[path]
      BY <1>1 DEF RunInv, LocksOK, Untouched
    <3> QED
      BY <1>2, <3>1 DEF Chosen
  <2>2. CASE q # path
    <3>1. q \in DOMAIN r.resolved /\ s.resolved[q] = r.resolved[q] /\ PinHeld(r, q)
      BY <1>3, <2>2 DEF RunInv, LocksOK
    <3> QED
      BY <3>1 DEF PinHeld
  <2> QED
    BY <2>1, <2>2
<1>9. Untouched(s)
  <2>1. ASSUME NEW q \in Locked(s.loaded) \ DOMAIN s.resolved
        PROVE  q \in Locked(s.lock) /\ s.lock.root[q] = s.loaded.root[q]
    <3>1. q # path /\ q \in Locked(r.lock) /\ r.lock.root[q] = r.loaded.root[q]
      BY <1>3 DEF RunInv, LocksOK, Untouched
    <3> QED
      BY <1>4, <3>1 DEF Locked
  <2> QED
    BY <2>1 DEF Untouched
<1> QED
  BY <1>6, <1>7, <1>8, <1>9 DEF LocksOK

\* An input is resolved: the graph has grown below it.
LEMMA ResolvedRun ==
  ASSUME NEW r, RunInv(r), r.pc = "resolve", ~WavesOver(r), NEW path, path \in Todo(r),
         NEW dir, NEW rev, NEW place, place = NoClone \/ place \in DOMAIN Trees,
         NEW write \in BOOLEAN, Chosen(r, path, rev, write),
         NEW s, s = Resolved(r, path, dir, rev, place, write)
  PROVE  RunInv(s)
<1> DEFINE input == [dir |-> dir, rev |-> rev, url |-> r.nodes[path].url, tree |-> place]
<1>1. input.url = r.nodes[path].url /\ input.rev = rev
  OBVIOUS
<1>2. IsRun(r)
  BY DEF RunInv
<1>3. /\ IsRun(s) /\ s.pc = r.pc /\ s.force = r.force /\ s.decls = r.decls
      /\ s.loaded = r.loaded /\ s.follows = r.follows
      /\ s.lock = IF write THEN add_root_input(r.lock, path, r.nodes[path].url, rev)
                  ELSE r.lock
      /\ s.resolved = With(r.resolved, path, input)
      /\ s.nodes = Joined(NewNodes(r, path, Contents(place)), r.nodes)
      /\ s.seen = r.seen \cup {r.nodes[path].url}
      /\ s.todo = Todo(r) \ {path}
      /\ s.processed = r.processed \cup {path}
  <2>1. ResolvedIs(s, r, path, dir, rev, place, write)
    BY <1>2, ResolvedFields
  <2> QED
    BY <2>1, Zenon DEF ResolvedIs
<1> HIDE DEF input
<1>4. Todo(r) \subseteq Unprocessed(r) /\ path \in Unprocessed(r)
  BY DEF Todo, RunInv, WavesOK
<1>5. Grown(r, path, s.nodes)
  BY <1>3, <1>4, ResolvedGraph
<1>6. CommandOK(s)
  BY <1>3 DEF RunInv, CommandOK
<1>7. NodesOK(s) /\ Cut(s.nodes)
  BY <1>3, <1>5 DEF Grown, NodesOK
<1>8. WavesOK(s)
  <2>1. s.processed \subseteq DOMAIN s.nodes
    BY <1>3, <1>4, <1>5 DEF Grown, RunInv, WavesOK, Unprocessed
  <2>2. s.todo \subseteq Unprocessed(s)
    BY <1>3, <1>4, <1>5 DEF Grown, Unprocessed
  <2>3. /\ DOMAIN s.resolved = DOMAIN r.resolved \cup {path} /\ s.resolved[path] = input
        /\ \A q \in DOMAIN r.resolved : q # path => s.resolved[q] = r.resolved[q]
    <3>1. s.resolved = With(r.resolved, path, input)
      BY <1>3
    <3>2. IsWith(s.resolved, r.resolved, path, input)
      BY <3>1, WithIs, Zenon
    <3> QED
      BY <3>2 DEF IsWith
  <2>4. ASSUME NEW q \in s.processed
        PROVE  s.nodes[q].url \in s.seen /\ s.resolved[q].url = s.nodes[q].url
    <3>1. CASE q = path
      <4>1. s.nodes[q] = r.nodes[q]
        BY <1>4, <1>5, <3>1 DEF Grown, Unprocessed
      <4> QED
        BY <1>1, <1>3, <2>3, <3>1, <4>1
    <3>2. CASE q # path
      <4>1. q \in r.processed
        BY <1>3, <3>2
      <4>2. s.nodes[q] = r.nodes[q] /\ s.resolved[q] = r.resolved[q]
        BY <1>5, <2>3, <3>2, <4>1 DEF Grown, RunInv, WavesOK
      <4>3. r.nodes[q].url \in r.seen /\ r.resolved[q].url = r.nodes[q].url
        BY <4>1 DEF RunInv, WavesOK
      <4> QED
        BY <1>3, <4>2, <4>3
    <3> QED
      BY <3>1, <3>2
  <2> QED
    BY <1>3, <2>1, <2>2, <2>3, <2>4 DEF RunInv, WavesOK
<1>9. LocksOK(s)
  BY <1>1, <1>3, <1>4, ResolvedLocks
<1>10. FollowsOK(s)
  BY <1>3 DEF RunInv, FollowsOK
<1> QED
  BY <1>3, <1>6, <1>7, <1>8, <1>9, <1>10 DEF RunInv

-----------------------------------------------------------------------------
(* The steps                                                               *)

\* A clone that is fetched has the commits that its repository has by then.
LEMMA FetchedOK ==
  ASSUME SharedInv, NEW name \in NameSet, NEW url \in GitUrl
  PROVE  CloneOK(Fetched(name, url), remote)
<1>1. /\ remote \in [Repo -> Nat] /\ \A r \in Repo : 1 <= remote[r]
      /\ clones[name] = NoClone \/ CloneOK(clones[name], remote)
      /\ url.repo \in Repo
  BY DEF SharedInv, ClonesOK, GitUrl
<1>2. CASE clones[name] = NoClone
  <2> DEFINE c == [repo |-> url.repo, head |-> remote[url.repo], fetched |-> remote[url.repo]]
  <2>1. Fetched(name, url) = c
    BY <1>2 DEF Fetched
  <2>2. c \in Clone /\ 1 <= c.head /\ c.head <= c.fetched /\ c.fetched <= remote[c.repo]
    BY <1>1 DEF Clone
  <2> QED
    BY <2>1, <2>2 DEF CloneOK
<1>3. CASE clones[name] # NoClone
  <2> DEFINE old == clones[name]
             c == [old EXCEPT !.fetched = remote[old.repo]]
  <2>1. Fetched(name, url) = c
    BY <1>3 DEF Fetched
  <2>2. /\ old \in Clone /\ 1 <= old.head /\ old.head <= old.fetched
        /\ old.fetched <= remote[old.repo]
    BY <1>1, <1>3 DEF CloneOK
  <2> HIDE DEF old
  <2>3. /\ c.repo = old.repo /\ c.head = old.head /\ c.fetched = remote[old.repo]
        /\ c \in Clone
    BY <1>1, <2>2 DEF Clone
  <2>4. 1 <= c.head /\ c.head <= c.fetched /\ c.fetched <= remote[c.repo]
    BY <1>1, <2>2, <2>3 DEF Clone
  <2> QED
    BY <2>1, <2>3, <2>4 DEF CloneOK
<1> QED
  BY <1>2, <1>3

\* What a clone has been made at is a commit.
LEMMA ClonedCommit ==
  ASSUME SharedInv, NEW clone, CloneOK(clone, remote)
  PROVE  [repo |-> clone.repo, n |-> clone.head] \in Commit
<1>1. /\ clone.repo \in Repo /\ clone.head \in Nat /\ clone.fetched \in Nat
      /\ 1 <= clone.head /\ clone.head <= clone.fetched
      /\ clone.fetched <= remote[clone.repo]
      /\ remote[clone.repo] \in 1 .. MaxCommit[clone.repo]
      /\ MaxCommit[clone.repo] \in Nat
  BY BoundsAssumption DEF SharedInv, CloneOK, Clone
<1>2. clone.head \in 1 .. MaxCommit[clone.repo]
  BY <1>1
<1>3. [repo |-> clone.repo, n |-> clone.head] \in
        {[repo |-> clone.repo, n |-> n] : n \in 1 .. MaxCommit[clone.repo]}
  BY <1>2
<1> QED
  BY <1>1, <1>3 DEF Commit

\* The revision resolved is a commit, or one the lock file has; it is the one
\* that the lock file has where that has not to be written.
LEMMA GitChosen ==
  ASSUME NEW r, RunInv(r), NEW path, path \in Unprocessed(r), ~Mismatch(r, path),
         r.nodes[path].url \in GitUrl,
         NEW clone, [repo |-> clone.repo, n |-> clone.head] \in Commit
  PROVE  LET rev == resolve_revision(clone, target_rev(r, path))
         IN Chosen(r, path, rev, should_update_lock(r, path, rev))
<1> DEFINE url == r.nodes[path].url
           target == target_rev(r, path)
           rev == resolve_revision(clone, target)
           entry == r.lock.root[path]
           head == [repo |-> clone.repo, n |-> clone.head]
<1>1. url.type = "git" /\ url.ref \in {NoRef, Branch} \cup Commit
  BY DEF GitUrl
<1>2. head \notin {NoRef, Branch} /\ \A c \in Commit : c \notin {NoRef, Branch}
  BY AbsentAssumption
<1>3. path \in Locked(r.lock) => entry.rev \notin {NoRef, Branch}
  BY DEF RunInv, LocksOK, Entries, Locked, Tells
<1>4. target = IF url.ref # NoRef THEN url.ref
               ELSE IF ~Forced(r, path) /\ path \in Locked(r.lock) THEN entry.rev ELSE NoRef
  BY Zenon DEF target_rev
<1>5. rev = IF target \in {NoRef, Branch} THEN head ELSE target
  BY Zenon DEF resolve_revision
<1>6. ~Mismatch(r, path) => (Forced(r, path) \/ path \notin Locked(r.lock) \/ entry.url = url)
  BY DEF Mismatch
<1>7. should_update_lock(r, path, rev) <=>
        \/ path \notin Locked(r.lock) \/ Forced(r, path)
        \/ (url.ref # NoRef /\ entry.rev # rev)
  BY Zenon DEF should_update_lock
<1> HIDE DEF url, target, rev, entry, head
<1>8. rev \notin {NoRef, Branch}
  BY <1>2, <1>5
<1>9. path \in Locked(r.lock) /\ url.ref = NoRef /\ ~Forced(r, path) => rev = entry.rev
  BY <1>3, <1>4, <1>5
<1>10. Chosen(r, path, rev, should_update_lock(r, path, rev))
  BY <1>1, <1>6, <1>7, <1>8, <1>9 DEF Chosen, Floats, Tells, url, entry
<1> QED
  BY <1>10 DEF rev, target

\* A git input is resolved at a commit of the clone, or the command fails.
LEMMA ResolveGitStep ==
  ASSUME IInv, NEW p \in Process, run[p].pc = "resolve", ~WavesOver(run[p]),
         NEW path \in Todo(run[p]), ~Mismatch(run[p], path),
         run[p].nodes[path].url.type = "git", ResolveGit(p, path)
  PROVE  ClonesOK(clones', remote) /\ RunsOK(run')
<1> DEFINE r == run[p]
           name == Name(path)
           url == r.nodes[path].url
           clone == Fetched(name, url)
           rev == resolve_revision(clone, target_rev(r, path))
           place == CommitOf(clone)
           write == should_update_lock(r, path, rev)
           s == Resolved(r, path, name, rev, place, write)
<1>1. RunInv(r) /\ SharedInv
  BY DEF IInv, RunsOK
<1>2. path \in Unprocessed(r)
  BY <1>1 DEF Todo, RunInv, WavesOK
<1>3. path \in Seq(NameSet) /\ Len(path) > 0 /\ Declares(r.nodes[path]) /\ url # NoUrl
  BY <1>1, <1>2 DEF RunInv, NodesOK, Unprocessed
<1>4. name \in NameSet
  BY <1>3 DEF Name
<1>5. url \in GitUrl
  BY <1>3 DEF Declares, Reaches
<1>6. CloneOK(clone, remote)
  BY <1>1, <1>4, <1>5, FetchedOK
<1>7. clones' = [clones EXCEPT ![name] = clone]
  BY Zenon DEF ResolveGit
<1>8. \/ Fails(p, "RevisionNotFound", path)
      \/ run' = [run EXCEPT ![p] = s]
  BY Zenon DEF ResolveGit
<1>9. ClonesOK(clones', remote)
  <2>1. ClonesOK(clones, remote)
    BY <1>1 DEF SharedInv
  <2> HIDE DEF clone, name
  <2> QED
    BY <1>4, <1>6, <1>7, <2>1 DEF ClonesOK
<1>10. RunInv(s)
  <2>1. [repo |-> clone.repo, n |-> clone.head] \in Commit
    BY <1>1, <1>6, ClonedCommit
  <2>2. place = NoClone \/ place \in DOMAIN Trees
    BY <2>1, TreesAssumption DEF CommitOf
  <2>3. Chosen(r, path, rev, write)
    BY <1>1, <1>2, <1>5, <2>1, GitChosen
  <2>4. write \in BOOLEAN
    BY DEF should_update_lock
  <2> HIDE DEF r, rev, place, write, name
  <2>5. \A t : t = Resolved(r, path, name, rev, place, write) => RunInv(t)
    BY <1>1, <2>2, <2>3, <2>4, ResolvedRun DEF r
  <2> QED
    BY <2>5, Zenon
<1> HIDE DEF s
<1>11. RunsOK(run')
  BY <1>8, <1>10, FailsStep, OneMoves
<1> QED
  BY <1>9, <1>11

\* A path input is resolved at a directory there is, or the command fails.
LEMMA ResolvePathStep ==
  ASSUME IInv, NEW p \in Process, run[p].pc = "resolve", ~WavesOver(run[p]),
         NEW path \in Todo(run[p]), ~Mismatch(run[p], path),
         run[p].nodes[path].url.type # "git", ResolvePath(p, path)
  PROVE  ClonesOK(clones', remote) /\ RunsOK(run')
<1> DEFINE r == run[p]
           url == r.nodes[path].url
           found == resolve_path(url.path, BaseDir(r, path))
           write == path \notin Locked(r.lock)
           s(dir) == Resolved(r, path, dir, LocalRev, dir, write)
<1>1. RunInv(r) /\ SharedInv
  BY DEF IInv, RunsOK
<1>2. path \in Unprocessed(r)
  BY <1>1 DEF Todo, RunInv, WavesOK
<1>3. Declares(r.nodes[path]) /\ url # NoUrl
  BY <1>1, <1>2 DEF RunInv, NodesOK, Unprocessed
<1>4. url.type = "path"
  BY <1>3 DEF Declares, Reaches, GitUrl
<1>5. ClonesOK(clones', remote)
  BY <1>1 DEF SharedInv, ResolvePath
<1>6. \/ Fails(p, "PathNotFound", path)
      \/ \E dir \in found : run' = [run EXCEPT ![p] = s(dir)]
  BY Zenon DEF ResolvePath
<1>7. ASSUME NEW dir \in found PROVE RunInv(s(dir))
  <2>1. dir \in DOMAIN Trees
    BY TreesAssumption DEF resolve_path
  <2>2. LocalRev \notin {NoRef, Branch}
    BY AbsentAssumption
  <2>3. path \in Locked(r.lock) => Forced(r, path) \/ r.lock.root[path].url = url
    BY DEF Mismatch
  <2>4. Forced(r, path) => r.force # Unforced
    BY DEF Forced
  <2>5. Chosen(r, path, LocalRev, write)
    BY <1>4, <2>2, <2>3, <2>4 DEF Chosen, Floats, Tells
  <2>6. write \in BOOLEAN
    OBVIOUS
  <2> HIDE DEF r, write, found
  <2>7. \A t : t = Resolved(r, path, dir, LocalRev, dir, write) => RunInv(t)
    BY <1>1, <2>1, <2>5, <2>6, ResolvedRun DEF r
  <2> QED
    BY <2>7, Zenon
<1> HIDE DEF s, found
<1>8. RunsOK(run')
  BY <1>6, <1>7, FailsStep, OneMoves
<1> QED
  BY <1>5, <1>8

\* Whichever input is next, and whatever becomes of it.
LEMMA ResolveStep ==
  ASSUME IInv, NEW p \in Process, Resolve(p)
  PROVE  ClonesOK(clones', remote) /\ RunsOK(run')
<1>1. run[p].pc = "resolve" /\ ~WavesOver(run[p])
  BY DEF Resolve
<1>2. PICK path \in Todo(run[p]) :
        IF Mismatch(run[p], path)
        THEN Fails(p, "LockMismatch", path) /\ UNCHANGED clones
        ELSE IF run[p].nodes[path].url.type = "git" THEN ResolveGit(p, path)
        ELSE ResolvePath(p, path)
  BY DEF Resolve, First
<1>3. CASE Mismatch(run[p], path)
  <2>1. Fails(p, "LockMismatch", path) /\ UNCHANGED clones
    BY <1>2, <1>3
  <2> QED
    BY <2>1, FailsStep DEF IInv, SharedInv
<1>4. CASE ~Mismatch(run[p], path) /\ run[p].nodes[path].url.type = "git"
  BY <1>1, <1>2, <1>4, ResolveGitStep
<1>5. CASE ~Mismatch(run[p], path) /\ run[p].nodes[path].url.type # "git"
  BY <1>1, <1>2, <1>5, ResolvePathStep
<1> QED
  BY <1>3, <1>4, <1>5

\* A set of numbers that is not empty has a least one.
LEMMA FewestHops ==
  ASSUME NEW T, T \subseteq Nat, T # {}
  PROVE  \E x \in T : \A y \in T : x <= y
<1>1. PICK x \in T : \A y \in T : ~(<<y, x>> \in OpToRel(<, Nat))
  BY NatLessThanWellFounded, WFMin
<1>2. \A y \in T : y \in Nat /\ x \in Nat /\ ~(y < x)
  BY <1>1 DEF OpToRel
<1> QED
  BY <1>2

\* A chain of follows that is no error ends where nothing is followed.
LEMMA ChainEnds ==
  ASSUME NEW nodes, NEW done, NEW target, ChainError(nodes, done, target) = "none"
  PROVE  ~HasTarget(nodes, done, ChainEnd(nodes, done, target))
<1> DEFINE hop == Hops(nodes, done, target)
           ends == Ends(nodes, done, target)
           k == CHOOSE i \in ends : \A j \in ends : i <= j
<1>1. ends \subseteq Nat /\ \A i \in ends : hop[i] = Empty \/ ~HasTarget(nodes, done, hop[i])
  BY GraphAssumption DEF Ends
<1>2. ends # {} /\ \A i \in ends : hop[i] # Empty
  BY DEF ChainError
<1>3. ChainEnd(nodes, done, target) = hop[k]
  BY Zenon DEF ChainEnd
<1> HIDE DEF hop, ends
<1>4. k \in ends
  BY <1>1, <1>2, FewestHops
<1> HIDE DEF k
<1> QED
  BY <1>1, <1>2, <1>3, <1>4

\* An override of an input by another is settled.
LEMMA FollowRun ==
  ASSUME NEW r, RunInv(r), r.pc = "resolve", WavesOver(r), NEW source \in Pending(r),
         NEW end, ~HasTarget(r.nodes, r.follows, end),
         NEW s, s = [r EXCEPT !.follows = With(r.follows, source, end)]
  PROVE  RunInv(s)
<1> DEFINE follows == With(r.follows, source, end)
<1>1. IsWith(follows, r.follows, source, end)
  BY WithIs
<1> HIDE DEF follows
<1>2. /\ IsRun(s) /\ s.pc = r.pc /\ s.loaded = r.loaded /\ s.lock = r.lock
      /\ s.nodes = r.nodes /\ s.found = r.found /\ s.force = r.force
      /\ s.decls = r.decls /\ s.todo = r.todo /\ s.processed = r.processed
      /\ s.resolved = r.resolved /\ s.follows = follows /\ s.seen = r.seen
  BY DEF RunInv, IsRun, follows
<1>3. CommandOK(s) /\ NodesOK(s) /\ Cut(s.nodes)
  BY <1>2 DEF RunInv, CommandOK, Pc, AtRest, NodesOK
<1>4. WavesOK(s) /\ WavesOver(s)
  BY <1>2 DEF RunInv, WavesOK, Unprocessed, WavesOver
<1>5. LocksOK(s)
  BY <1>2 DEF RunInv, LocksOK, Recorded, PinHeld, Untouched
<1>6. FollowsOK(s)
  <2>1. ASSUME NEW q \in DOMAIN follows
        PROVE  Follows(r.nodes, q) /\ ~Follows(r.nodes, follows[q])
    <3>1. CASE q = source
      BY <1>1, <3>1 DEF IsWith, Pending, Sources, HasTarget
    <3>2. CASE q # source
      BY <1>1, <3>2 DEF IsWith, RunInv, FollowsOK
    <3> QED
      BY <3>1, <3>2
  <2> QED
    BY <1>2, <1>4, <2>1 DEF FollowsOK
<1> QED
  BY <1>2, <1>3, <1>4, <1>5, <1>6 DEF RunInv

\* The chain of an override ends, or the command fails.
LEMMA FollowStep ==
  ASSUME IInv, NEW p \in Process, Follow(p)
  PROVE  RunsOK(run')
<1> DEFINE r == run[p]
           target(source) == r.nodes[Parent(source)].inputs[Name(source)].follows
           error(source) == ChainError(r.nodes, r.follows, target(source))
           end(source) == ChainEnd(r.nodes, r.follows, target(source))
           s(source) == [r EXCEPT !.follows = With(r.follows, source, end(source))]
<1>1. r.pc = "resolve" /\ WavesOver(r) /\ RunInv(r)
  BY DEF Follow, IInv, RunsOK
<1>2. PICK source \in Pending(r) :
        IF error(source) # "none" THEN Fails(p, error(source), source)
        ELSE run' = [run EXCEPT ![p].follows = With(@, source, end(source))]
  BY Zenon DEF Follow, First
<1>3. CASE error(source) # "none"
  <2>1. Fails(p, error(source), source)
    BY <1>2, <1>3, Zenon
  <2> QED
    BY <2>1, FailsStep
<1>4. CASE error(source) = "none"
  <2>1. run' = [run EXCEPT ![p] = s(source)]
    BY <1>2, <1>4
  <2>2. ~HasTarget(r.nodes, r.follows, end(source))
    BY <1>4, ChainEnds
  <2>3. RunInv(s(source))
    <3> HIDE DEF r, end
    <3> QED
      BY <1>1, <2>2, FollowRun
  <2> HIDE DEF s
  <2> QED
    BY <2>1, <2>3, OneMoves
<1> QED
  BY <1>3, <1>4

\* A lock file without some entries has all others, as they were.
LEMMA PrunedLock ==
  ASSUME NEW lock, NEW paths, NEW l, l = remove_root_inputs(lock, paths)
  PROVE  /\ \A q \in DOMAIN l.root : q \in DOMAIN lock.root /\ l.root[q] = lock.root[q]
         /\ \A q \in Locked(lock) : q \notin paths => q \in Locked(l)
<1> DEFINE root == [q \in DOMAIN lock.root \ paths |-> lock.root[q]]
<1>1. CASE paths \cap DOMAIN lock.root = {}
  BY <1>1 DEF remove_root_inputs
<1>2. CASE paths \cap DOMAIN lock.root # {}
  <2>1. l.root = root /\ l.nodes = {root[q] : q \in DOMAIN root} \cap lock.nodes
    BY <1>2 DEF remove_root_inputs
  <2>2. /\ DOMAIN root = DOMAIN lock.root \ paths
        /\ \A q \in DOMAIN root : root[q] = lock.root[q]
    OBVIOUS
  <2> HIDE DEF root
  <2> QED
    BY <2>1, <2>2 DEF Locked
<1> QED
  BY <1>1, <1>2

\* What has been resolved is declared still, so that its entries are not stale.
LEMMA FinishRun ==
  ASSUME NEW r, RunInv(r), r.pc = "resolve",
         NEW lock, lock = remove_root_inputs(r.lock, Stale(r)), NEW changed,
         NEW pc, pc \in {"save", "done"}, NEW s,
         s = [r EXCEPT !.lock = lock, !.changed = changed, !.pc = pc]
  PROVE  RunInv(s)
<1>1. /\ IsRun(s) /\ s.pc = pc /\ s.loaded = r.loaded /\ s.lock = lock
      /\ s.nodes = r.nodes /\ s.found = r.found /\ s.force = r.force
      /\ s.decls = r.decls /\ s.todo = r.todo /\ s.processed = r.processed
      /\ s.resolved = r.resolved /\ s.follows = r.follows /\ s.seen = r.seen
  BY DEF RunInv, IsRun
<1>2. CommandOK(s) /\ NodesOK(s) /\ Cut(s.nodes)
  BY <1>1 DEF RunInv, CommandOK, Pc, AtRest, NodesOK
<1>3. WavesOK(s) /\ FollowsOK(s)
  BY <1>1 DEF RunInv, WavesOK, FollowsOK, Unprocessed, WavesOver
<1>4. /\ \A q \in DOMAIN lock.root : q \in DOMAIN r.lock.root /\ lock.root[q] = r.lock.root[q]
      /\ \A q \in Locked(r.lock) : q \notin Stale(r) => q \in Locked(lock)
  BY PrunedLock
<1>5. \A q \in DOMAIN r.resolved : q \notin Stale(r)
  BY DEF Stale, RunInv, NodesOK, WavesOK
<1>6. Entries(lock) /\ Entries(s.loaded)
  BY <1>1, <1>4 DEF Entries, RunInv, LocksOK
<1>7. ASSUME NEW q \in DOMAIN s.resolved PROVE Recorded(s, q) /\ PinHeld(s, q)
  <2>1. Recorded(r, q) /\ PinHeld(r, q) /\ q \notin Stale(r)
    BY <1>1, <1>5 DEF RunInv, LocksOK
  <2>2. q \in Locked(lock) /\ lock.root[q] = r.lock.root[q]
    BY <1>4, <2>1 DEF Recorded, Locked
  <2> QED
    BY <1>1, <2>1, <2>2 DEF Recorded, PinHeld
<1>8. LocksOK(s)
  BY <1>1, <1>6, <1>7 DEF LocksOK
<1> QED
  BY <1>1, <1>2, <1>3, <1>8 DEF RunInv

\* A resolution that is kept updates what it was given.
LEMMA KeptNames ==
  ASSUME SharedInv, NEW r, RunInv(r), NEW over, over.force = r.force,
         \/ UNCHANGED ghosts
         \/ Kept(over)
  PROVE  updated' \subseteq NameSet
<1>1. updated \subseteq NameSet /\ (r.force = Unforced \/ r.force \subseteq NameSet)
  BY DEF SharedInv, RunInv, CommandOK
<1>2. CASE UNCHANGED ghosts
  BY <1>1, <1>2 DEF ghosts
<1>3. CASE Kept(over)
  BY <1>1, <1>3 DEF Kept
<1> QED
  BY <1>2, <1>3

\* A resolution that ends has pruned its lock, or fails.
LEMMA FinishStep ==
  ASSUME IInv, NEW p \in Process, Finish(p)
  PROVE  RunsOK(run') /\ updated' \subseteq NameSet
<1> DEFINE r == run[p]
           lock == remove_root_inputs(r.lock, Stale(r))
           changed == r.changed \/ Stale(r) # {}
           over == [r EXCEPT !.lock = lock, !.changed = changed]
           pc == IF over.changed /\ ~r.dry THEN "save" ELSE "done"
           s == [r EXCEPT !.lock = lock, !.changed = changed, !.pc = pc]
<1>1. r.pc = "resolve" /\ RunInv(r) /\ SharedInv
  BY DEF Finish, IInv, RunsOK
<1>2. \/ Fails(p, "NamespaceConflict", Empty) /\ UNCHANGED ghosts
      \/ /\ run' = [run EXCEPT ![p] = [over EXCEPT !.pc = pc]]
         /\ IF over.changed THEN UNCHANGED ghosts ELSE Kept(over)
  BY Zenon DEF Finish
<1>3. over.force = r.force /\ [over EXCEPT !.pc = pc] = s
  <2>1. IsRun(r)
    BY <1>1 DEF RunInv
  <2> HIDE DEF lock, changed, pc, r
  <2> QED
    BY <2>1 DEF IsRun
<1>4. RunInv(s)
  <2>1. pc \in {"save", "done"}
    OBVIOUS
  <2> HIDE DEF changed, pc, r
  <2> QED
    BY <1>1, <2>1, FinishRun
<1> HIDE DEF over, pc, s
<1>5. RunsOK(run')
  BY <1>2, <1>3, <1>4, FailsStep, OneMoves
<1>6. updated' \subseteq NameSet
  BY <1>1, <1>2, <1>3, KeptNames
<1> QED
  BY <1>5, <1>6

\* The lock file is loaded, unless it is torn.
LEMMA LoadStep ==
  ASSUME IInv, NEW p \in Process, Load(p)
  PROVE  RunsOK(run')
<1> DEFINE r == run[p]
           lock == Read(lockFile)
           nodes == RootNodes(r.decls)
           s == [r EXCEPT !.pc = "resolve", !.loaded = lock, !.lock = lock,
                          !.nodes = nodes, !.found = TRUE]
<1>1. r.pc = "load" /\ RunInv(r) /\ FileOK(lockFile)
  BY DEF Load, IInv, SharedInv, RunsOK
<1>2. CASE lockFile = Torn
  <2>1. Fails(p, "LoadLock", Empty)
    BY <1>2 DEF Load
  <2> QED
    BY <2>1, FailsStep
<1>3. CASE lockFile # Torn
  <2>1. run' = [run EXCEPT ![p] = s]
    BY <1>3 DEF Load
  <2>2. Entries(lock)
    BY <1>1, <1>3, NothingInEmpty DEF FileOK, Read, Entries, EmptyLock
  <2>3. RunInv(s)
    <3> HIDE DEF r, lock
    <3> QED
      BY <1>1, <2>2, LoadedRun
  <2> HIDE DEF s
  <2> QED
    BY <2>1, <2>3, OneMoves
<1> QED
  BY <1>2, <1>3

\* What is written to the lock file is what is held in memory, or torn.
LEMMA SaveStep ==
  ASSUME IInv, NEW p \in Process, Truncate(p) \/ Write(p)
  PROVE  RunsOK(run') /\ FileOK(lockFile') /\ updated' \subseteq NameSet
<1> DEFINE r == run[p]
           s(pc) == [r EXCEPT !.pc = pc]
<1>1. RunInv(r) /\ SharedInv
  BY DEF IInv, RunsOK
<1>2. \E pc \in {"save", "write", "done"} : run' = [run EXCEPT ![p] = s(pc)]
  BY DEF Truncate, Write
<1>3. ASSUME NEW pc \in {"save", "write", "done"} PROVE RunInv(s(pc))
  <2> HIDE DEF r
  <2> QED
    BY <1>1, GoesOnRun
<1> HIDE DEF s
<1>4. RunsOK(run')
  BY <1>2, <1>3, OneMoves
<1>5. FileOK(lockFile')
  <2>1. lockFile' = Torn \/ lockFile' = r.lock
    BY DEF Truncate, Write
  <2>2. Entries(r.lock)
    BY <1>1 DEF RunInv, LocksOK
  <2> HIDE DEF r
  <2> QED
    BY <2>1, <2>2 DEF FileOK
<1>6. updated' \subseteq NameSet
  <2>1. UNCHANGED ghosts \/ Kept(r)
    BY DEF Truncate, Write
  <2> QED
    BY <1>1, <2>1, KeptNames
<1> QED
  BY <1>4, <1>5, <1>6

\* A crash forgets what the process knew.
LEMMA CrashStep ==
  ASSUME IInv, NEW p \in Process, Crash(p)
  PROVE  RunsOK(run')
<1>1. run' = [run EXCEPT ![p] = Idle]
  BY DEF Crash
<1> QED
  BY <1>1, IdleRun, OneMoves

LEMMA FetchFailsStep ==
  ASSUME IInv, NEW p \in Process, FetchFails(p)
  PROVE  RunsOK(run')
<1>1. \E path : Fails(p, "Fetch", path)
  BY DEF FetchFails
<1> QED
  BY <1>1, FailsStep

\* A lock file that comes from elsewhere holds revisions too.
LEMMA TeammateOK ==
  ASSUME NEW lock \in Teammates \cup {NoFile}
  PROVE  FileOK(lock)
<1>1. ASSUME lock \in Teammates, NEW q \in DOMAIN lock.root
      PROVE  Tells(lock.root[q].url, lock.root[q].rev)
  BY <1>1, LocksAssumption, AbsentAssumption DEF Tells
<1> QED
  BY <1>1 DEF FileOK, Entries

\* Repositories only gain commits, so that clones stay behind them.
LEMMA AdvanceStep ==
  ASSUME SharedInv, NEW r \in Repo, Advance(r)
  PROVE  SharedInv'
<1>1. /\ remote \in [Repo -> Nat] /\ \A s \in Repo : remote[s] \in 1 .. MaxCommit[s]
      /\ remote[r] < MaxCommit[r] /\ remote' = [remote EXCEPT ![r] = remote[r] + 1]
      /\ MaxCommit \in [Repo -> Nat]
      /\ UNCHANGED <<config, clones, lockFile, updated>>
  BY BoundsAssumption DEF SharedInv, Advance, ghosts
<1>2. remote' \in [Repo -> Nat] /\ \A s \in Repo : remote'[s] \in 1 .. MaxCommit[s]
  BY <1>1
<1>3. \A s \in Repo : remote[s] <= remote'[s]
  BY <1>1
<1>4. ASSUME NEW clone, CloneOK(clone, remote) PROVE CloneOK(clone, remote')
  <2>1. clone.repo \in Repo /\ clone.fetched \in Nat /\ clone.fetched <= remote[clone.repo]
    BY <1>4 DEF CloneOK, Clone
  <2>2. clone.fetched <= remote'[clone.repo]
    BY <1>1, <1>2, <1>3, <2>1
  <2> QED
    BY <1>4, <2>2 DEF CloneOK
<1>5. ClonesOK(clones', remote')
  BY <1>1, <1>4 DEF SharedInv, ClonesOK
<1> QED
  BY <1>1, <1>2, <1>5 DEF SharedInv

\* What users do keeps to what they may write.
LEMMA UserStep ==
  ASSUME SharedInv, Edit \/ TakeLock \/ ClearCache
  PROVE  SharedInv'
<1>1. CASE Edit
  BY <1>1 DEF Edit, User, ghosts, SharedInv
<1>2. CASE TakeLock
  BY <1>2, TeammateOK DEF TakeLock, User, ghosts, SharedInv
<1>3. CASE ClearCache
  <2>1. ClonesOK(clones', remote')
    BY <1>3 DEF ClearCache, ClonesOK
  <2> QED
    BY <1>3, <2>1 DEF ClearCache, User, ghosts, SharedInv
<1> QED
  BY <1>1, <1>2, <1>3

-----------------------------------------------------------------------------
(* The invariant                                                           *)

LEMMA InitInv == Init => IInv
<1> SUFFICES ASSUME Init PROVE IInv
  OBVIOUS
<1>1. /\ remote \in [Repo -> UNION {1 .. MaxCommit[r] : r \in Repo}]
      /\ \A r \in Repo : remote[r] <= MaxCommit[r]
      /\ MaxCommit \in [Repo -> Nat]
  BY BoundsAssumption DEF Init
<1>2. \A n \in UNION {1 .. MaxCommit[r] : r \in Repo} : n \in Nat /\ 1 <= n
  BY <1>1
<1>3. remote \in [Repo -> Nat] /\ \A r \in Repo : remote[r] \in 1 .. MaxCommit[r]
  BY <1>1, <1>2
<1>4. ClonesOK(clones, remote)
  BY DEF Init, ClonesOK
<1>5. FileOK(lockFile)
  BY TeammateOK DEF Init
<1>6. SharedInv
  BY <1>3, <1>4, <1>5 DEF Init, SharedInv
<1>7. RunsOK(run)
  BY IdleRun DEF Init, RunsOK
<1>8. CountsOK
  BY BoundsAssumption DEF Init, CountsOK
<1> QED
  BY <1>6, <1>7, <1>8 DEF IInv

\* Commands and events are counted up to their bounds.
LEMMA CountsStay ==
  ASSUME CountsOK, [Next]_vars
  PROVE  CountsOK'
<1>1. \/ UNCHANGED counts
      \/ commands < MaxCommands /\ commands' = commands + 1 /\ UNCHANGED events
      \/ Event
  BY DEF Next, vars, counts, Start, Step, Load, Resolve, Follow, Finish, Truncate, Write,
         FetchFails, Crash, Edit, TakeLock, ClearCache, User, Advance
<1> QED
  BY <1>1, BoundsAssumption DEF CountsOK, counts, Event

LEMMA NextInv == IInv /\ [Next]_vars => IInv'
<1> SUFFICES ASSUME IInv, [Next]_vars PROVE SharedInv' /\ RunsOK(run')
  BY CountsStay DEF IInv
<1> USE DEF shared, ghosts
<1>1. SharedInv /\ RunsOK(run)
  BY DEF IInv
<1>2. CASE UNCHANGED vars
  BY <1>1, <1>2 DEF vars, SharedInv, RunsOK
<1>3. ASSUME NEW p \in Process, Start(p) \/ Load(p) \/ Follow(p) \/ FetchFails(p) \/ Crash(p)
      PROVE  SharedInv' /\ RunsOK(run')
  <2>1. UNCHANGED <<config, remote, clones, lockFile, updated>>
    BY <1>3 DEF Start, Load, Follow, FetchFails, Crash
  <2>2. SharedInv'
    BY <1>1, <2>1 DEF SharedInv
  <2> QED
    BY <1>3, <2>2, StartRun, LoadStep, FollowStep, FetchFailsStep, CrashStep
<1>4. ASSUME NEW p \in Process, Resolve(p) PROVE SharedInv' /\ RunsOK(run')
  <2>1. UNCHANGED <<config, remote, lockFile, updated>>
    BY <1>4 DEF Resolve
  <2> QED
    BY <1>1, <1>4, <2>1, ResolveStep DEF SharedInv
<1>5. ASSUME NEW p \in Process, Finish(p) PROVE SharedInv' /\ RunsOK(run')
  <2>1. UNCHANGED <<config, remote, clones, lockFile>>
    BY <1>5 DEF Finish
  <2> QED
    BY <1>1, <1>5, <2>1, FinishStep DEF SharedInv
<1>6. ASSUME NEW p \in Process, Truncate(p) \/ Write(p) PROVE SharedInv' /\ RunsOK(run')
  <2>1. UNCHANGED <<config, remote, clones>>
    BY <1>6 DEF Truncate, Write
  <2> QED
    BY <1>1, <1>6, <2>1, SaveStep DEF SharedInv
<1>7. CASE Edit \/ TakeLock \/ ClearCache
  <2>1. UNCHANGED run
    BY <1>7 DEF Edit, TakeLock, ClearCache, User
  <2> QED
    BY <1>1, <1>7, <2>1, UserStep
<1>8. ASSUME NEW r \in Repo, Advance(r) PROVE SharedInv' /\ RunsOK(run')
  <2>1. UNCHANGED run
    BY <1>8 DEF Advance
  <2> QED
    BY <1>1, <1>8, <2>1, AdvanceStep
<1> QED
  BY <1>2, <1>3, <1>4, <1>5, <1>6, <1>7, <1>8 DEF Next, Step

-----------------------------------------------------------------------------
(* The end of a resolution                                                 *)

\* A process that fails or crashes has not resolved its inputs.
LEMMA NotOver ==
  ASSUME IInv, NEW p \in Process, NEW r, run' = [run EXCEPT ![p] = r], ~Over(r)
  PROVE  ~Over(run'[p])
BY DEF IInv, RunsOK

\* A command that fails has not ended with inputs.
LEMMA FailsNotOver ==
  ASSUME IInv, NEW p \in Process, NEW error, NEW path, Fails(p, error, path)
  PROVE  ~Over(run'[p])
<1> DEFINE s == [Idle EXCEPT !.pc = "failed", !.error = error, !.at = path]
<1>1. s.pc = "failed" /\ run' = [run EXCEPT ![p] = s]
  BY DEF Fails, Idle
<1> HIDE DEF s
<1>2. ~Over(s)
  BY <1>1 DEF Over
<1> QED
  BY <1>1, <1>2, NotOver

\* Nor has one that has resolved an input and goes on.
LEMMA ResolvedNotOver ==
  ASSUME NEW r, IsRun(r), r.pc = "resolve",
         NEW path, NEW dir, NEW rev, NEW place, NEW write, NEW s,
         s = Resolved(r, path, dir, rev, place, write)
  PROVE  ~Over(s)
<1>1. ResolvedIs(s, r, path, dir, rev, place, write)
  BY ResolvedFields
<1>2. s.pc = r.pc
  BY <1>1, Zenon DEF ResolvedIs
<1> QED
  BY <1>2 DEF Over

\* Resolving an input does not end a resolution.
LEMMA ResolveNotOver ==
  ASSUME IInv, NEW p \in Process, Resolve(p)
  PROVE  ~Over(run'[p])
<1> DEFINE r == run[p]
<1>1. r.pc = "resolve" /\ IsRun(r)
  BY DEF Resolve, IInv, RunsOK, RunInv
<1>2. \/ \E path : Fails(p, "LockMismatch", path)
      \/ \E path : ResolveGit(p, path) \/ ResolvePath(p, path)
  BY DEF Resolve
<1>3. \/ \E error, path : Fails(p, error, path)
      \/ \E path, dir, rev, place, write :
           run' = [run EXCEPT ![p] = Resolved(r, path, dir, rev, place, write)]
  <2>1. ASSUME NEW path, ResolveGit(p, path) PROVE <1>3!1 \/ <1>3!2
    BY <2>1, Zenon DEF ResolveGit
  <2>2. ASSUME NEW path, ResolvePath(p, path) PROVE <1>3!1 \/ <1>3!2
    BY <2>2, Zenon DEF ResolvePath
  <2> QED
    BY <1>2, <2>1, <2>2, Zenon
<1>4. ASSUME NEW path, NEW dir, NEW rev, NEW place, NEW write,
             run' = [run EXCEPT ![p] = Resolved(r, path, dir, rev, place, write)]
      PROVE  ~Over(run'[p])
  <2>1. ~Over(Resolved(r, path, dir, rev, place, write))
    BY <1>1, ResolvedNotOver, Zenon
  <2> QED
    BY <1>4, <2>1, NotOver
<1> QED
  BY <1>3, <1>4, FailsNotOver

LEMMA FollowNotOver ==
  ASSUME IInv, NEW p \in Process, Follow(p)
  PROVE  ~Over(run'[p])
<1>1. run[p].pc = "resolve" /\ IsRun(run[p])
  BY DEF Follow, IInv, RunsOK, RunInv
<1>2. \/ \E error, path : Fails(p, error, path)
      \/ \E follows : run' = [run EXCEPT ![p].follows = follows]
  BY DEF Follow
<1>3. ASSUME NEW follows, run' = [run EXCEPT ![p].follows = follows]
      PROVE  ~Over(run'[p])
  <2> DEFINE s == [run[p] EXCEPT !.follows = follows]
  <2>1. run' = [run EXCEPT ![p] = s] /\ s.pc = "resolve"
    BY <1>1, <1>3 DEF IsRun
  <2> HIDE DEF s
  <2>2. ~Over(s)
    BY <2>1 DEF Over
  <2> QED
    BY <2>1, <2>2, NotOver
<1> QED
  BY <1>2, <1>3, FailsNotOver

\* A process that was resolving and now is over has finished.
LEMMA OnlyFinishEnds ==
  ASSUME IInv, [Next]_vars, NEW p \in Process, run[p].pc = "resolve", Over(run'[p])
  PROVE  Finish(p)
<1>1. ~Over(run[p])
  BY DEF Over
<1>2. run'[p] # run[p]
  BY <1>1
<1>3. \E q \in Process : Start(q) \/ Step(q) \/ FetchFails(q) \/ Crash(q)
  BY <1>2 DEF Next, vars, Edit, TakeLock, ClearCache, User, Advance
<1>4. Start(p) \/ Step(p) \/ FetchFails(p) \/ Crash(p)
  <2>1. PICK q \in Process : Start(q) \/ Step(q) \/ FetchFails(q) \/ Crash(q)
    BY <1>3
  <2>2. \E r : run' = [run EXCEPT ![q] = r]
    <3>1. CASE Start(q)
      BY <3>1 DEF Start, StartEvaluation, StartUpdate, Fails
    <3>2. CASE Load(q)
      BY <3>2 DEF Load, Fails
    <3>3. CASE Resolve(q)
      BY <3>3, Zenon DEF Resolve, ResolveGit, ResolvePath, Fails
    <3>4. CASE Follow(q)
      BY <3>4 DEF Follow, Fails
    <3>5. CASE Finish(q)
      BY <3>5, Zenon DEF Finish, Fails
    <3>6. CASE Truncate(q) \/ Write(q)
      BY <3>6 DEF Truncate, Write
    <3>7. CASE FetchFails(q) \/ Crash(q)
      BY <3>7 DEF FetchFails, Crash, Fails
    <3> QED
      BY <2>1, <3>1, <3>2, <3>3, <3>4, <3>5, <3>6, <3>7 DEF Step
  <2>3. q = p
    BY <1>2, <2>2 DEF IInv, RunsOK
  <2> QED
    BY <2>1, <2>3
<1>5. ~Start(p) /\ ~Load(p) /\ ~Truncate(p) /\ ~Write(p)
  BY DEF Start, AtRest, Load, Truncate, Write
<1>6. ~Resolve(p) /\ ~Follow(p)
  BY ResolveNotOver, FollowNotOver
<1>7. ~FetchFails(p)
  BY FailsNotOver DEF FetchFails
<1>8. ~Crash(p)
  <2>1. ~Over(Idle)
    BY DEF Over, Idle
  <2> QED
    BY <2>1, NotOver DEF Crash
<1> QED
  BY <1>4, <1>5, <1>6, <1>7, <1>8 DEF Step

\* What a follows override ends at is not followed away, so that everything on
\* package.path has been compared.
LEMMA OnPathIsScanned ==
  ASSUME NEW r, RunInv(r), NEW a \in OnPackagePath(r.nodes, r.resolved, r.follows)
  PROVE  \E q \in Scanned(r.resolved, r.follows) : a = r.resolved[q]
<1> DEFINE inputs == ResolvedInputs(r.nodes, r.resolved, r.follows)
<1>1. PICK q \in DOMAIN inputs : a = inputs[q]
  BY DEF OnPackagePath
<1>2. /\ q \in DOMAIN r.nodes /\ a = r.resolved[Effective(r.follows, q)]
      /\ \A s \in Prefixes(q) : Effective(r.follows, s) \in DOMAIN r.resolved
  BY <1>1 DEF ResolvedInputs
<1> HIDE DEF inputs
<1>3. q \in Seq(NameSet) /\ Len(q) > 0
  BY <1>2 DEF RunInv, NodesOK
<1>4. q \in Prefixes(q)
  BY <1>3, PrefixIs
<1>5. Effective(r.follows, q) \notin DOMAIN r.follows
  BY DEF Effective, RunInv, FollowsOK
<1> QED
  BY <1>2, <1>4, <1>5 DEF Scanned

\* Where no namespaces conflict, no lookup is ambiguous.
LEMMA ComparedAgree ==
  ASSUME NEW r, RunInv(r), ~NamespaceConflict(r.resolved, r.follows),
         NEW a \in OnPackagePath(r.nodes, r.resolved, r.follows),
         NEW b \in OnPackagePath(r.nodes, r.resolved, r.follows)
  PROVE  /\ Provided(a.dir) \cap Provided(b.dir) # {} => Source(a) = Source(b)
         /\ Provided(a.dir) \cap Trees[ConfigDir].namespaces = {}
<1>1. PICK p, q \in Scanned(r.resolved, r.follows) : a = r.resolved[p] /\ b = r.resolved[q]
  BY OnPathIsScanned
<1>2. \A ns \in Provided(r.resolved[p].dir) :
        /\ ns \notin Trees[ConfigDir].namespaces
        /\ ns \in Provided(r.resolved[q].dir) => Source(r.resolved[p]) = Source(r.resolved[q])
  BY <1>1 DEF NamespaceConflict
<1> QED
  BY <1>1, <1>2

\* A resolution that ends has found no conflict among its inputs.
LEMMA FinishLooksUp ==
  ASSUME IInv, NEW p \in Process, Finish(p), Over(run'[p])
  PROVE  LET r == run[p]
         IN /\ run'[p].nodes = r.nodes /\ run'[p].resolved = r.resolved
            /\ run'[p].follows = r.follows
            /\ ~NamespaceConflict(r.resolved, r.follows)
<1> DEFINE r == run[p]
           lock == remove_root_inputs(r.lock, Stale(r))
           changed == r.changed \/ Stale(r) # {}
           over == [r EXCEPT !.lock = lock, !.changed = changed]
           pc == IF over.changed /\ ~r.dry THEN "save" ELSE "done"
           s == [over EXCEPT !.pc = pc]
<1>1. IsRun(r) /\ run = [q \in Process |-> run[q]]
  BY DEF IInv, RunsOK, RunInv
<1>2. \/ Fails(p, "NamespaceConflict", Empty)
      \/ run' = [run EXCEPT ![p] = s] /\ ~NamespaceConflict(r.resolved, r.follows)
  BY Zenon DEF Finish
<1>3. run' = [run EXCEPT ![p] = s] /\ ~NamespaceConflict(r.resolved, r.follows)
  BY <1>2, FailsNotOver
<1>4. s.nodes = r.nodes /\ s.resolved = r.resolved /\ s.follows = r.follows
  <2> HIDE DEF lock, changed, pc, r
  <2> QED
    BY <1>1 DEF IsRun
<1> HIDE DEF s
<1>5. run'[p] = s
  BY <1>1, <1>3
<1> QED
  BY <1>3, <1>4, <1>5

-----------------------------------------------------------------------------
(* How the graph came about                                                *)

\* The order of paths has no ties: a path is not before one that is before it.
LEMMA BeforeOneWay ==
  ASSUME NEW p \in Seq(NameSet), NEW q \in Seq(NameSet), Before(p, q), Before(q, p)
  PROVE  FALSE
<1>1. \A n \in NameSet : Rank(n) \in Int
  <2> SUFFICES ASSUME NEW n \in NameSet PROVE Rank(n) \in Int
    OBVIOUS
  <2>1. \E i \in 1 .. Len(NameOrder) : NameOrder[i] = n
    BY DEF NameSet
  <2>2. Rank(n) \in 1 .. Len(NameOrder)
    BY <2>1 DEF Rank
  <2> QED
    BY <2>2
<1>2. Len(p) \in Nat /\ Len(q) \in Nat
  OBVIOUS
<1>3. PICK i \in 1 .. Len(q) :
        /\ i <= Len(p) + 1 /\ \A k \in 1 .. i - 1 : p[k] = q[k]
        /\ i <= Len(p) => Rank(p[i]) < Rank(q[i])
  BY DEF Before
<1>4. PICK j \in 1 .. Len(p) :
        /\ j <= Len(q) + 1 /\ \A k \in 1 .. j - 1 : q[k] = p[k]
        /\ j <= Len(q) => Rank(q[j]) < Rank(p[j])
  BY DEF Before
<1>5. \A k \in 1 .. Len(p) : k \in 1 .. Len(q) =>
        Rank(p[k]) \in Int /\ Rank(q[k]) \in Int
  <2> SUFFICES ASSUME NEW k \in 1 .. Len(p), k \in 1 .. Len(q)
               PROVE  p[k] \in NameSet /\ q[k] \in NameSet
    BY <1>1
  <2> QED
    OBVIOUS
<1>6. CASE i < j
  <2>1. i \in 1 .. j - 1 /\ i \in 1 .. Len(p) /\ i <= Len(p)
    BY <1>2, <1>6
  <2>2. p[i] = q[i] /\ Rank(p[i]) < Rank(q[i]) /\ Rank(p[i]) \in Int
    BY <1>3, <1>4, <1>5, <2>1
  <2> QED
    BY <2>2
<1>7. CASE j < i
  <2>1. j \in 1 .. i - 1 /\ j \in 1 .. Len(q) /\ j <= Len(q)
    BY <1>2, <1>7
  <2>2. p[j] = q[j] /\ Rank(q[j]) < Rank(p[j]) /\ Rank(q[j]) \in Int
    BY <1>3, <1>4, <1>5, <2>1
  <2> QED
    BY <2>2
<1>8. CASE i = j
  <2>1. i \in 1 .. Len(p) /\ i \in 1 .. Len(q) /\ i <= Len(p) /\ i <= Len(q)
    BY <1>2, <1>8
  <2>2. Rank(p[i]) < Rank(q[i]) /\ Rank(q[i]) < Rank(p[i])
    BY <1>3, <1>4, <1>8, <2>1
  <2> QED
    BY <1>5, <2>1, <2>2
<1> QED
  BY <1>2, <1>6, <1>7, <1>8

\* So that at most one is first.
LEMMA FirstIsOne ==
  ASSUME NEW T, T \subseteq Seq(NameSet), NEW p \in First(T), NEW q \in First(T)
  PROVE  p = q
<1>1. p \in T /\ q \in T
  BY DEF First
<1>2. p # q => Before(p, q) /\ Before(q, p)
  BY <1>1 DEF First
<1> QED
  BY <1>1, <1>2, BeforeOneWay

\* What a resolution knows of the graph, without where inputs were found.
GraphOf(r) ==
  [nodes |-> r.nodes, todo |-> r.todo, processed |-> r.processed, seen |-> r.seen,
   found |-> r.found, follows |-> r.follows]

Begun(decls) ==
  [nodes |-> RootNodes(decls), todo |-> {}, processed |-> {}, seen |-> {},
   found |-> TRUE, follows |-> Empty]

\* The graph after what is at a place has been read.
After(g, path, place) ==
  LET new == NewNodes(g, path, Contents(place))
  IN  [nodes |-> Joined(new, g.nodes), todo |-> Todo(g) \ {path},
       processed |-> g.processed \cup {path}, seen |-> g.seen \cup {g.nodes[path].url},
       found |-> (g.todo # {} /\ g.found) \/ DOMAIN new # {}, follows |-> g.follows]

Target(g, source) == g.nodes[Parent(source)].inputs[Name(source)].follows

\* The graph after a follows override has been settled.
Settled(g, source) ==
  [g EXCEPT !.follows = With(g.follows, source, ChainEnd(g.nodes, g.follows, Target(g, source)))]

\* What is left to choose from has an order.
Ordered(g) == Todo(g) \subseteq Seq(NameSet) /\ Pending(g) \subseteq Seq(NameSet)

\* k comes after g: where the inputs were found decides what it is.
Comes(g, k, resolved) ==
  /\ Ordered(g)
  /\ \/ /\ ~WavesOver(g)
        /\ \E path \in First(Todo(g)) :
             path \in DOMAIN resolved /\ k = After(g, path, resolved[path].tree)
     \/ WavesOver(g) /\ \E source \in First(Pending(g)) : k = Settled(g, source)

History(h, n, decls, resolved) ==
  h[0] = Begun(decls) /\ \A i \in 1 .. n : Comes(h[i - 1], h[i], resolved)

\* A graph that so many steps lead to.
Reached(g, n, decls, resolved) == \E h : History(h, n, decls, resolved) /\ h[n] = g

Ended(g) == WavesOver(g) /\ Pending(g) = {}

\* The trees of inputs that both have resolved are the same.
SameTrees(a, b) == \A q \in DOMAIN a \cap DOMAIN b : a[q].tree = b[q].tree

\* What comes next is determined by the trees.
LEMMA OneWayOn ==
  ASSUME NEW g, NEW k, NEW m, NEW a, NEW b,
         Comes(g, k, a), Comes(g, m, b), SameTrees(a, b)
  PROVE  k = m
<1>1. Ordered(g)
  BY DEF Comes
<1>2. CASE WavesOver(g)
  <2>1. PICK s \in First(Pending(g)) : k = Settled(g, s)
    BY <1>2 DEF Comes
  <2>2. PICK t \in First(Pending(g)) : m = Settled(g, t)
    BY <1>2 DEF Comes
  <2>3. s = t
    BY <1>1, FirstIsOne DEF Ordered
  <2> QED
    BY <2>1, <2>2, <2>3
<1>3. CASE ~WavesOver(g)
  <2>1. PICK p \in First(Todo(g)) : p \in DOMAIN a /\ k = After(g, p, a[p].tree)
    BY <1>3 DEF Comes
  <2>2. PICK q \in First(Todo(g)) : q \in DOMAIN b /\ m = After(g, q, b[q].tree)
    BY <1>3 DEF Comes
  <2>3. p = q
    BY <1>1, FirstIsOne DEF Ordered
  <2>4. a[p].tree = b[p].tree
    BY <2>1, <2>2, <2>3 DEF SameTrees
  <2> QED
    BY <2>1, <2>2, <2>3, <2>4
<1> QED
  BY <1>2, <1>3

\* Nothing comes after the end.
LEMMA NothingAfter ==
  ASSUME NEW g, Ended(g), NEW k, NEW a
  PROVE  ~Comes(g, k, a)
BY DEF Ended, Comes, First

\* Two histories that begin alike agree as far as both go.
LEMMA SameSoFar ==
  ASSUME NEW h, NEW k, NEW n \in Nat, NEW m \in Nat, NEW decls, NEW a, NEW b,
         History(h, n, decls, a), History(k, m, decls, b), SameTrees(a, b),
         NEW i \in 0 .. n, i <= m
  PROVE  h[i] = k[i]
<1> DEFINE Bad == {j \in 0 .. n : j <= m /\ h[j] # k[j]}
<1> SUFFICES ASSUME Bad # {} PROVE FALSE
  OBVIOUS
<1>1. Bad \subseteq Nat
  OBVIOUS
<1>2. PICK j \in Bad : \A x \in Bad : j <= x
  <2> HIDE DEF Bad
  <2> QED
    BY <1>1, FewestHops
<1>3. j # 0
  BY DEF History
<1>4. j - 1 \in 0 .. n /\ j - 1 <= m /\ j \in 1 .. n /\ j \in 1 .. m /\ ~(j <= j - 1)
  BY <1>3
<1>5. h[j - 1] = k[j - 1]
  BY <1>2, <1>4
<1>6. Comes(h[j - 1], h[j], a) /\ Comes(k[j - 1], k[j], b)
  BY <1>4 DEF History
<1>7. h[j] = k[j]
  <2> HIDE DEF Bad
  <2> QED
    BY <1>5, <1>6, OneWayOn
<1> QED
  BY <1>2, <1>7

\* Two that have ended are the same.
LEMMA SameEnd ==
  ASSUME NEW g, NEW end, NEW n \in Nat, NEW m \in Nat, NEW decls, NEW a, NEW b,
         Reached(g, n, decls, a), Reached(end, m, decls, b), SameTrees(a, b),
         Ended(g), Ended(end)
  PROVE  g = end
<1>1. PICK h : History(h, n, decls, a) /\ h[n] = g
  BY DEF Reached
<1>2. PICK k : History(k, m, decls, b) /\ k[m] = end
  BY DEF Reached
<1>3. \A i \in 0 .. n : i <= m => h[i] = k[i]
  BY <1>1, <1>2, SameSoFar
<1>4. CASE n < m
  <2>1. n \in 0 .. n /\ n <= m /\ n + 1 \in 1 .. m /\ n + 1 - 1 = n
    BY <1>4
  <2>2. k[n] = g
    BY <1>1, <1>3, <2>1
  <2>3. Comes(k[n], k[n + 1], b)
    BY <1>2, <2>1 DEF History
  <2> QED
    BY <2>2, <2>3, NothingAfter
<1>5. CASE m < n
  <2>1. m \in 0 .. n /\ m <= m /\ m + 1 \in 1 .. n /\ m + 1 - 1 = m
    BY <1>5
  <2>2. h[m] = end
    BY <1>2, <1>3, <2>1
  <2>3. Comes(h[m], h[m + 1], a)
    BY <1>1, <2>1 DEF History
  <2> QED
    BY <2>2, <2>3, NothingAfter
<1>6. CASE n = m
  <2>1. n \in 0 .. n /\ n <= m
    BY <1>6
  <2> QED
    BY <1>1, <1>2, <1>3, <1>6, <2>1
<1> QED
  BY <1>4, <1>5, <1>6

\* A history goes on: with what has been resolved since.
LEMMA HistoryGoesOn ==
  ASSUME NEW last, NEW n \in Nat, NEW decls, NEW a, NEW b, NEW g,
         Reached(last, n, decls, a), Comes(last, g, b),
         \A q \in DOMAIN a : q \in DOMAIN b /\ a[q].tree = b[q].tree
  PROVE  Reached(g, n + 1, decls, b)
<1>0. PICK h : History(h, n, decls, a) /\ h[n] = last
  BY DEF Reached
<1> DEFINE k == [i \in 0 .. n + 1 |-> IF i = n + 1 THEN g ELSE h[i]]
<1>1. k[n + 1] = g /\ \A i \in 0 .. n : k[i] = h[i]
  OBVIOUS
<1> HIDE DEF k
<1>2. k[0] = Begun(decls)
  BY <1>0, <1>1 DEF History
<1>3. ASSUME NEW i \in 1 .. n + 1 PROVE Comes(k[i - 1], k[i], b)
  <2>1. CASE i = n + 1
    <3>1. i - 1 = n /\ n \in 0 .. n
      BY <2>1
    <3> QED
      BY <1>0, <1>1, <2>1, <3>1
  <2>2. CASE i # n + 1
    <3>1. i \in 1 .. n /\ i \in 0 .. n /\ i - 1 \in 0 .. n
      BY <2>2
    <3>2. Comes(h[i - 1], h[i], a)
      BY <1>0, <3>1 DEF History
    <3>3. Comes(h[i - 1], h[i], b)
      BY <3>2 DEF Comes
    <3> QED
      BY <1>1, <3>1, <3>3
  <2> QED
    BY <2>1, <2>2
<1>4. History(k, n + 1, decls, b)
  BY <1>2, <1>3 DEF History
<1> QED
  BY <1>1, <1>4 DEF Reached

\* The graph of a process came about step by step.
HistoryOK(r) ==
  \E n \in Nat : Reached(GraphOf(r), n, r.decls, r.resolved)

\* What an input is beside its tree follows from the tree, its URL and its path,
\* where it is not at the revision of the lock file.
ToldBy(force, path, input) ==
  /\ input = [dir |-> input.dir, rev |-> input.rev, url |-> input.url, tree |-> input.tree]
  /\ input.url.type = "git" =>
       /\ input.dir = Name(path)
       /\ input.url.ref # NoRef =>
            input.rev = IF input.url.ref = Branch THEN input.tree ELSE input.url.ref
       /\ input.url.ref = NoRef /\ force # Unforced /\ Name(path) \in force =>
            input.rev = input.tree
  /\ input.url.type # "git" =>
       input.url.type = "path" /\ input.dir = input.tree /\ input.rev = LocalRev

\* The lock file that was loaded has what was resolved, and nothing stale.
LoadedFits(r) ==
  /\ \A q \in DOMAIN r.resolved :
       /\ q \in Locked(r.loaded)
       /\ r.resolved[q].url.type = "git" => r.loaded.root[q].rev = r.resolved[q].rev
  /\ \A q \in DOMAIN r.loaded.root : Len(q) = 1 => q[1] \in DOMAIN r.decls

\* An evaluation that resolves what it has loaded writes nothing.
NothingToWrite(r) ==
  r.force = Unforced /\ LoadedFits(r) => r.lock = r.loaded /\ ~r.changed

\* The entries of paths stay, whatever is at them.
PathsStay(r) ==
  \A q \in DOMAIN r.resolved \cap Locked(r.loaded) :
    r.resolved[q].url.type = "path" => r.lock.root[q] = r.loaded.root[q]

IsMap(f) == f = [x \in DOMAIN f |-> f[x]]

Past(r) ==
  /\ r.pc = "load" =>
       /\ r.todo = {} /\ r.processed = {} /\ r.seen = {} /\ r.resolved = Empty
       /\ r.follows = Empty /\ r.changed = FALSE
  /\ r.pc \in {"resolve", "save", "write", "done"} =>
       /\ HistoryOK(r) /\ IsMap(r.resolved)
       /\ \A q \in DOMAIN r.resolved : ToldBy(r.force, q, r.resolved[q])
       /\ NothingToWrite(r) /\ PathsStay(r)
  /\ Over(r) => Ended(GraphOf(r)) /\ Stale(r) = {}

\* What was kept last is what some resolution came to.
KeptOf(r) ==
  /\ RunInv(r) /\ Past(r) /\ Over(r) /\ kept = Outcome(r)
  /\ updated = IF r.force = Unforced THEN {} ELSE r.force

KeptOK == kept # NoFile => \E r : KeptOf(r)

RunsPast(runs) == runs = [p \in Process |-> runs[p]] /\ \A p \in Process : Past(runs[p])

PastInv == KeptOK /\ RunsPast(run)

\* The graph of a record is as good as the record.
LEMMA OfGraph ==
  ASSUME NEW r
  PROVE  LET g == GraphOf(r)
         IN /\ (WavesOver(g) <=> WavesOver(r)) /\ Todo(g) = Todo(r) /\ Pending(g) = Pending(r)
            /\ g.nodes = r.nodes /\ g.todo = r.todo /\ g.processed = r.processed
            /\ g.seen = r.seen /\ g.found = r.found /\ g.follows = r.follows
            /\ \A path, tree : NewNodes(g, path, tree) = NewNodes(r, path, tree)
<1> DEFINE g == GraphOf(r)
<1>1. /\ g.nodes = r.nodes /\ g.todo = r.todo /\ g.processed = r.processed
      /\ g.seen = r.seen /\ g.found = r.found /\ g.follows = r.follows
  BY DEF GraphOf
<1> HIDE DEF g
<1>2. Unprocessed(g) = Unprocessed(r)
  BY <1>1 DEF Unprocessed
<1>3. (WavesOver(g) <=> WavesOver(r)) /\ Todo(g) = Todo(r) /\ Pending(g) = Pending(r)
  BY <1>1, <1>2, Zenon DEF WavesOver, Todo, Pending
<1>4. \A path, tree : NewNodes(g, path, tree) = NewNodes(r, path, tree)
  BY <1>1, Zenon DEF NewNodes
<1> QED
  BY <1>1, <1>3, <1>4 DEF g

\* All paths are of names, so that they have an order.
LEMMA GraphOrdered ==
  ASSUME NEW r, RunInv(r)
  PROVE  Ordered(GraphOf(r))
<1>1. /\ DOMAIN r.nodes \subseteq Seq(NameSet)
      /\ \A q \in DOMAIN r.nodes : DOMAIN r.nodes[q].inputs \subseteq NameSet
  BY DEF RunInv, NodesOK, Declares
<1>2. Todo(r) \subseteq DOMAIN r.nodes
  BY DEF RunInv, WavesOK, Todo, Unprocessed
<1>3. \A q \in DOMAIN r.nodes : \A n \in DOMAIN r.nodes[q].inputs : Child(q, n) \in Seq(NameSet)
  BY <1>1 DEF Child
<1>4. Pending(r) \subseteq Seq(NameSet)
  BY <1>3 DEF Pending, Sources
<1> QED
  BY <1>1, <1>2, <1>4, OfGraph DEF Ordered

\* A history that has gone on is one of the record that has.
LEMMA HistoryLonger ==
  ASSUME NEW r, HistoryOK(r), NEW s, s.decls = r.decls,
         Comes(GraphOf(r), GraphOf(s), s.resolved),
         \A q \in DOMAIN r.resolved :
           q \in DOMAIN s.resolved /\ r.resolved[q].tree = s.resolved[q].tree
  PROVE  HistoryOK(s)
<1>1. PICK n \in Nat : Reached(GraphOf(r), n, r.decls, r.resolved)
  BY DEF HistoryOK
<1>2. Reached(GraphOf(s), n + 1, r.decls, s.resolved)
  BY <1>1, HistoryGoesOn
<1>3. n + 1 \in Nat
  OBVIOUS
<1> QED
  BY <1>2, <1>3 DEF HistoryOK

\* Nothing has been resolved when the lock file has been loaded.
LEMMA LoadedPast ==
  ASSUME NEW r, RunInv(r), Past(r), r.pc = "load", NEW lock, NEW s,
         s = [r EXCEPT !.pc = "resolve", !.loaded = lock, !.lock = lock,
                       !.nodes = RootNodes(r.decls), !.found = TRUE]
  PROVE  Past(s)
<1>1. /\ s.pc = "resolve" /\ s.loaded = lock /\ s.lock = lock
      /\ s.nodes = RootNodes(r.decls) /\ s.found = TRUE /\ s.force = r.force
      /\ s.decls = r.decls /\ s.todo = r.todo /\ s.processed = r.processed
      /\ s.resolved = r.resolved /\ s.follows = r.follows /\ s.seen = r.seen
      /\ s.changed = r.changed
  BY DEF RunInv, IsRun
<1>2. /\ r.todo = {} /\ r.processed = {} /\ r.seen = {} /\ r.resolved = Empty
      /\ r.follows = Empty /\ r.changed = FALSE
  BY DEF Past
<1>3. GraphOf(s) = Begun(s.decls)
  BY <1>1, <1>2 DEF GraphOf, Begun
<1>4. HistoryOK(s)
  <2> DEFINE h == [i \in {0} |-> Begun(s.decls)]
  <2>1. h[0] = Begun(s.decls)
    OBVIOUS
  <2> HIDE DEF h
  <2>2. History(h, 0, s.decls, s.resolved) /\ h[0] = GraphOf(s)
    BY <1>3, <2>1 DEF History
  <2> QED
    BY <2>2 DEF Reached, HistoryOK
<1>5. DOMAIN s.resolved = {}
  BY <1>1, <1>2, NothingInEmpty
<1>6. NothingToWrite(s) /\ PathsStay(s)
  BY <1>1, <1>2, <1>5 DEF NothingToWrite, PathsStay
<1>7. IsMap(s.resolved)
  BY <1>1, <1>2 DEF IsMap, Empty
<1> QED
  BY <1>1, <1>4, <1>5, <1>6, <1>7 DEF Past, Over

\* An entry is written only if it is missing or tells something else.
Spares(r, path, rev, write) ==
  LET url == r.nodes[path].url
  IN  path \in Locked(r.lock) =>
        /\ url.type = "path" => ~write
        /\ r.force = Unforced /\ (url.type = "git" => r.lock.root[path].rev = rev) => ~write

\* An input has been resolved.
LEMMA ResolvedPast ==
  ASSUME NEW r, RunInv(r), Past(r), r.pc = "resolve", ~WavesOver(r),
         NEW path \in First(Todo(r)),
         NEW dir, NEW rev, NEW place, NEW write \in BOOLEAN, Spares(r, path, rev, write),
         ToldBy(r.force, path,
                [dir |-> dir, rev |-> rev, url |-> r.nodes[path].url, tree |-> place]),
         r.nodes[path].url.type \in {"git", "path"},
         NEW s, s = Resolved(r, path, dir, rev, place, write)
  PROVE  Past(s)
<1> DEFINE input == [dir |-> dir, rev |-> rev, url |-> r.nodes[path].url, tree |-> place]
<1>1. input.url = r.nodes[path].url /\ input.rev = rev /\ input.tree = place
  OBVIOUS
<1>2. IsRun(r)
  BY DEF RunInv
<1>3. /\ s.pc = r.pc /\ s.force = r.force /\ s.decls = r.decls
      /\ s.loaded = r.loaded /\ s.follows = r.follows
      /\ s.lock = (IF write THEN add_root_input(r.lock, path, r.nodes[path].url, rev) ELSE r.lock)
      /\ s.resolved = With(r.resolved, path, input)
      /\ s.nodes = Joined(NewNodes(r, path, Contents(place)), r.nodes)
      /\ s.seen = r.seen \cup {r.nodes[path].url}
      /\ s.todo = Todo(r) \ {path}
      /\ s.processed = r.processed \cup {path}
      /\ s.changed = (r.changed \/ write)
      /\ s.found = ((r.todo # {} /\ r.found) \/ DOMAIN NewNodes(r, path, Contents(place)) # {})
  <2>1. ResolvedIs(s, r, path, dir, rev, place, write)
    BY <1>2, ResolvedFields
  <2> QED
    BY <2>1, Zenon DEF ResolvedIs
<1>4. /\ path \in Todo(r) /\ path \notin r.processed /\ DOMAIN r.resolved = r.processed
  BY DEF First, Todo, Unprocessed, RunInv, WavesOK
<1> HIDE DEF input
<1>5. /\ DOMAIN s.resolved = DOMAIN r.resolved \cup {path} /\ s.resolved[path] = input
      /\ \A q \in DOMAIN r.resolved : q # path => s.resolved[q] = r.resolved[q]
  <2>1. s.resolved = With(r.resolved, path, input)
    BY <1>3
  <2>2. IsWith(s.resolved, r.resolved, path, input)
    BY <2>1, WithIs, Zenon
  <2> QED
    BY <2>2 DEF IsWith
<1>6. HistoryOK(s)
  <2>1. GraphOf(s) = After(GraphOf(r), path, place)
    <3> DEFINE g == GraphOf(r)
               new == NewNodes(r, path, Contents(place))
    <3>1. /\ g.nodes = r.nodes /\ g.todo = r.todo /\ g.processed = r.processed
          /\ g.seen = r.seen /\ g.found = r.found /\ g.follows = r.follows
          /\ Todo(g) = Todo(r) /\ NewNodes(g, path, Contents(place)) = new
      BY OfGraph
    <3> HIDE DEF g, new
    <3>2. After(g, path, place) =
            [nodes |-> Joined(new, r.nodes), todo |-> Todo(r) \ {path},
             processed |-> r.processed \cup {path}, seen |-> r.seen \cup {r.nodes[path].url},
             found |-> (r.todo # {} /\ r.found) \/ DOMAIN new # {}, follows |-> r.follows]
      BY <3>1 DEF After
    <3> QED
      BY <1>3, <3>2 DEF GraphOf, g, new
  <2>2. Comes(GraphOf(r), GraphOf(s), s.resolved)
    <3>1. Ordered(GraphOf(r))
      BY GraphOrdered
    <3>2. ~WavesOver(GraphOf(r)) /\ path \in First(Todo(GraphOf(r)))
      BY OfGraph
    <3>3. path \in DOMAIN s.resolved /\ s.resolved[path].tree = place
      BY <1>1, <1>5
    <3> QED
      BY <2>1, <3>1, <3>2, <3>3 DEF Comes
  <2>3. \A q \in DOMAIN r.resolved :
          q \in DOMAIN s.resolved /\ r.resolved[q].tree = s.resolved[q].tree
    BY <1>4, <1>5
  <2>4. HistoryOK(r)
    BY DEF Past
  <2> QED
    BY <1>3, <2>2, <2>3, <2>4, HistoryLonger
<1>7. ASSUME NEW q \in DOMAIN s.resolved PROVE ToldBy(s.force, q, s.resolved[q])
  <2>1. CASE q = path
    BY <1>3, <1>5, <2>1 DEF input
  <2>2. CASE q # path
    BY <1>3, <1>5, <2>2 DEF Past
  <2> QED
    BY <2>1, <2>2
<1>8. NothingToWrite(s)
  <2> SUFFICES ASSUME s.force = Unforced, LoadedFits(s)
               PROVE  s.lock = s.loaded /\ ~s.changed
    BY DEF NothingToWrite
  <2>1. LoadedFits(r)
    BY <1>3, <1>4, <1>5 DEF LoadedFits
  <2>2. r.lock = r.loaded /\ ~r.changed
    BY <1>3, <2>1 DEF Past, NothingToWrite
  <2>3. path \in Locked(r.lock) /\ (input.url.type = "git" => r.lock.root[path].rev = rev)
    BY <1>1, <1>3, <1>5, <2>2 DEF LoadedFits
  <2>4. ~write
    BY <1>1, <1>3, <2>3 DEF Spares
  <2> QED
    BY <1>3, <2>2, <2>4
<1>9. PathsStay(s)
  <2> SUFFICES ASSUME NEW q \in DOMAIN s.resolved, q \in Locked(s.loaded),
                      s.resolved[q].url.type = "path"
               PROVE  s.lock.root[q] = s.loaded.root[q]
    BY DEF PathsStay
  <2>1. CASE q = path
    <3>1. path \in Locked(r.lock) /\ r.lock.root[path] = r.loaded.root[path]
      BY <1>3, <1>4, <2>1 DEF RunInv, LocksOK, Untouched
    <3>2. ~write
      BY <1>1, <1>5, <2>1, <3>1 DEF Spares
    <3> QED
      BY <1>3, <2>1, <3>1, <3>2
  <2>2. CASE q # path
    <3>1. q \in DOMAIN r.resolved /\ r.resolved[q] = s.resolved[q]
      BY <1>5, <2>2
    <3>2. r.lock.root[q] = r.loaded.root[q] /\ q \in DOMAIN r.lock.root
      BY <1>3, <3>1 DEF Past, PathsStay, RunInv, LocksOK, Recorded, Locked
    <3>3. s.lock.root[q] = r.lock.root[q]
      <4>1. CASE write
        BY <1>3, <2>2, <3>2, <4>1, AddedEntry
      <4>2. CASE ~write
        BY <1>3, <4>2
      <4> QED
        BY <4>1, <4>2
    <3> QED
      BY <1>3, <3>2, <3>3
  <2> QED
    BY <2>1, <2>2
<1>10. IsMap(s.resolved)
  <2>1. s.resolved = With(r.resolved, path, input)
    BY <1>3
  <2> QED
    BY <2>1 DEF IsMap, With, Joined
<1> QED
  BY <1>3, <1>6, <1>7, <1>8, <1>9, <1>10 DEF Past, Over

\* A follows override has been settled.
LEMMA FollowedPast ==
  ASSUME NEW r, RunInv(r), Past(r), r.pc = "resolve", WavesOver(r),
         NEW source \in First(Pending(r)), NEW s,
         s = [r EXCEPT !.follows =
                With(r.follows, source, ChainEnd(r.nodes, r.follows, Target(r, source)))]
  PROVE  Past(s)
<1> DEFINE follows == With(r.follows, source, ChainEnd(r.nodes, r.follows, Target(r, source)))
<1>1. s = [r EXCEPT !.follows = follows]
  OBVIOUS
<1> HIDE DEF follows
<1>2. /\ s.pc = r.pc /\ s.loaded = r.loaded /\ s.lock = r.lock
      /\ s.nodes = r.nodes /\ s.found = r.found /\ s.force = r.force
      /\ s.decls = r.decls /\ s.todo = r.todo /\ s.processed = r.processed
      /\ s.resolved = r.resolved /\ s.follows = follows /\ s.seen = r.seen
      /\ s.changed = r.changed
  BY <1>1 DEF RunInv, IsRun
<1>3. GraphOf(s) = Settled(GraphOf(r), source)
  <2> DEFINE g == GraphOf(r)
  <2>1. g.nodes = r.nodes /\ g.follows = r.follows
    BY DEF GraphOf
  <2>2. Target(g, source) = Target(r, source)
    BY <2>1 DEF Target
  <2> HIDE DEF g
  <2>3. Settled(g, source) = [g EXCEPT !.follows = follows]
    BY <2>1, <2>2 DEF Settled, follows
  <2>4. [g EXCEPT !.follows = follows] = GraphOf(s)
    BY <1>2 DEF GraphOf, g
  <2> QED
    BY <2>3, <2>4 DEF g
<1>4. Comes(GraphOf(r), GraphOf(s), s.resolved)
  <2>1. Ordered(GraphOf(r))
    BY GraphOrdered
  <2>2. WavesOver(GraphOf(r)) /\ source \in First(Pending(GraphOf(r)))
    BY OfGraph
  <2> QED
    BY <1>3, <2>1, <2>2 DEF Comes
<1>5. HistoryOK(s)
  BY <1>2, <1>4, HistoryLonger DEF Past
<1>6. NothingToWrite(s) /\ PathsStay(s)
  BY <1>2 DEF Past, NothingToWrite, LoadedFits, PathsStay
<1> QED
  BY <1>2, <1>5, <1>6 DEF Past, Over

\* The same record at another place has the same history.
LEMMA SameHistory ==
  ASSUME NEW r, NEW s, IsRun(r), HistoryOK(r),
         s.nodes = r.nodes, s.found = r.found, s.decls = r.decls, s.todo = r.todo,
         s.processed = r.processed, s.resolved = r.resolved, s.follows = r.follows,
         s.seen = r.seen
  PROVE  HistoryOK(s) /\ GraphOf(s) = GraphOf(r)
<1>1. GraphOf(s) = GraphOf(r)
  BY DEF GraphOf
<1> QED
  BY <1>1 DEF HistoryOK

\* The resolution ends.
LEMMA FinishedPast ==
  ASSUME NEW r, RunInv(r), Past(r), r.pc = "resolve", WavesOver(r), Pending(r) = {},
         NEW lock, lock = remove_root_inputs(r.lock, Stale(r)),
         NEW changed, changed = (r.changed \/ Stale(r) # {}),
         NEW pc \in {"save", "done"}, NEW s,
         s = [r EXCEPT !.lock = lock, !.changed = changed, !.pc = pc]
  PROVE  Past(s)
<1>1. /\ s.pc = pc /\ s.loaded = r.loaded /\ s.lock = lock
      /\ s.nodes = r.nodes /\ s.found = r.found /\ s.force = r.force
      /\ s.decls = r.decls /\ s.todo = r.todo /\ s.processed = r.processed
      /\ s.resolved = r.resolved /\ s.follows = r.follows /\ s.seen = r.seen
      /\ s.changed = changed
  BY DEF RunInv, IsRun
<1>2. HistoryOK(s) /\ GraphOf(s) = GraphOf(r)
  <2>1. IsRun(r) /\ HistoryOK(r)
    BY DEF Past, RunInv
  <2>2. GraphOf(s) = GraphOf(r)
    BY <1>1 DEF GraphOf
  <2> QED
    BY <1>1, <2>1, <2>2 DEF HistoryOK
<1>3. Ended(GraphOf(s))
  BY <1>2, OfGraph DEF Ended
<1>4. Stale(r) \subseteq DOMAIN r.lock.root /\ (Stale(r) = {} => lock = r.lock)
  <2>1. Stale(r) \subseteq DOMAIN r.lock.root
    BY DEF Stale
  <2>2. Stale(r) = {} => Stale(r) \cap DOMAIN r.lock.root = {}
    OBVIOUS
  <2>3. Stale(r) \cap DOMAIN r.lock.root = {} => lock = r.lock
    BY DEF remove_root_inputs
  <2> QED
    BY <2>1, <2>2, <2>3
<1>5. DOMAIN lock.root = DOMAIN r.lock.root \ Stale(r)
  <2>1. CASE Stale(r) = {}
    BY <1>4, <2>1
  <2>2. CASE Stale(r) # {}
    <3> DEFINE root == [q \in DOMAIN r.lock.root \ Stale(r) |-> r.lock.root[q]]
    <3>1. Stale(r) \cap DOMAIN r.lock.root # {}
      BY <1>4, <2>2
    <3>2. lock.root = root
      BY <3>1 DEF remove_root_inputs
    <3> QED
      BY <3>2
  <2> QED
    BY <2>1, <2>2
<1>6. Stale(s) = {}
  BY <1>1, <1>5 DEF Stale
<1>7. NothingToWrite(s)
  <2> SUFFICES ASSUME s.force = Unforced, LoadedFits(s)
               PROVE  s.lock = s.loaded /\ ~s.changed
    BY DEF NothingToWrite
  <2>1. LoadedFits(r)
    BY <1>1 DEF LoadedFits
  <2>2. r.lock = r.loaded /\ ~r.changed
    BY <1>1, <2>1 DEF Past, NothingToWrite
  <2>3. Stale(r) = {}
    BY <2>1, <2>2 DEF LoadedFits, Stale
  <2> QED
    BY <1>1, <1>4, <2>2, <2>3
<1>8. PathsStay(s)
  <2> SUFFICES ASSUME NEW q \in DOMAIN r.resolved, q \in Locked(r.loaded),
                      r.resolved[q].url.type = "path"
               PROVE  lock.root[q] = r.loaded.root[q]
    BY <1>1 DEF PathsStay
  <2>1. r.lock.root[q] = r.loaded.root[q] /\ q \in Locked(r.lock)
    BY DEF Past, PathsStay, RunInv, LocksOK, Recorded
  <2>2. q \notin Stale(r)
    BY DEF Stale, RunInv, NodesOK, WavesOK
  <2>3. q \in Locked(lock) /\ \A t \in DOMAIN lock.root : lock.root[t] = r.lock.root[t]
    BY <2>1, <2>2, PrunedLock
  <2> QED
    BY <2>1, <2>3 DEF Locked
<1> QED
  BY <1>1, <1>2, <1>3, <1>6, <1>7, <1>8 DEF Past, Over

\* The lock file is being saved.
LEMMA SavingPast ==
  ASSUME NEW r, RunInv(r), Past(r), r.pc \in {"save", "write"},
         NEW pc \in {"write", "done"}, NEW s, s = [r EXCEPT !.pc = pc]
  PROVE  Past(s)
<1>1. /\ s.pc = pc /\ s.loaded = r.loaded /\ s.lock = r.lock
      /\ s.nodes = r.nodes /\ s.found = r.found /\ s.force = r.force
      /\ s.decls = r.decls /\ s.todo = r.todo /\ s.processed = r.processed
      /\ s.resolved = r.resolved /\ s.follows = r.follows /\ s.seen = r.seen
      /\ s.changed = r.changed
  BY DEF RunInv, IsRun
<1>2. HistoryOK(s) /\ GraphOf(s) = GraphOf(r)
  BY <1>1, SameHistory DEF Past, RunInv
<1>3. NothingToWrite(s) /\ PathsStay(s)
  BY <1>1 DEF Past, NothingToWrite, LoadedFits, PathsStay
<1>4. Ended(GraphOf(s)) /\ Stale(s) = {}
  BY <1>1, <1>2 DEF Past, Over, Stale
<1> QED
  BY <1>1, <1>2, <1>3, <1>4 DEF Past, Over

-----------------------------------------------------------------------------
(* The steps again                                                         *)

\* One process moves.
LEMMA OneMovesPast ==
  ASSUME RunsPast(run), NEW p \in Process, NEW s, run' = [run EXCEPT ![p] = s], Past(s)
  PROVE  RunsPast(run')
<1>1. run' = [q \in Process |-> IF q = p THEN s ELSE run[q]]
  BY DEF RunsPast
<1>2. \A q \in Process : run'[q] = IF q = p THEN s ELSE run[q]
  BY <1>1
<1>3. run' = [q \in Process |-> run'[q]]
  BY <1>1, <1>2
<1>4. ASSUME NEW q \in Process PROVE Past(run'[q])
  <2>1. CASE q = p
    <3>1. run'[q] = s
      BY <1>2, <2>1
    <3> QED
      BY <3>1
  <2>2. CASE q # p
    <3>1. run'[q] = run[q]
      BY <1>2, <2>2
    <3> QED
      BY <3>1 DEF RunsPast
  <2> QED
    BY <2>1, <2>2
<1> QED
  BY <1>3, <1>4 DEF RunsPast

\* A process that knows nothing has no past.
LEMMA FailsPast ==
  ASSUME RunsPast(run), NEW p \in Process, NEW error, NEW path, Fails(p, error, path)
  PROVE  RunsPast(run')
<1> DEFINE s == [Idle EXCEPT !.pc = "failed", !.error = error, !.at = path]
<1>1. s.pc = "failed" /\ run' = [run EXCEPT ![p] = s]
  BY DEF Fails, Idle
<1> HIDE DEF s
<1>2. Past(s)
  BY <1>1 DEF Past, Over
<1> QED
  BY <1>1, <1>2, OneMovesPast

LEMMA IdlePast == Past(Idle)
BY DEF Idle, Past, Over

LEMMA StartPast ==
  ASSUME RunsPast(run), NEW p \in Process, Start(p)
  PROVE  RunsPast(run')
<1> DEFINE fresh(decls, dry, old, force) ==
             [Idle EXCEPT !.pc = "load", !.decls = decls, !.dry = dry, !.old = old,
                          !.force = force]
           plain(decls) == [Idle EXCEPT !.pc = "load", !.decls = decls]
<1>1. \/ \E error : Fails(p, error, Empty)
      \/ \E decls : run' = [run EXCEPT ![p] = plain(decls)]
      \/ \E decls, dry, old, force : run' = [run EXCEPT ![p] = fresh(decls, dry, old, force)]
  <2>1. CASE StartEvaluation(p)
    BY <2>1, Zenon DEF StartEvaluation
  <2>2. ASSUME NEW u \in Updates, StartUpdate(p, u[1], u[2]) PROVE <1>1
    BY <2>2, Zenon DEF StartUpdate
  <2> QED
    BY <2>1, <2>2 DEF Start
<1>2. \A decls : Past(plain(decls))
  BY DEF Idle, Past, Over
<1>3. \A decls, dry, old, force : Past(fresh(decls, dry, old, force))
  BY DEF Idle, Past, Over
<1> HIDE DEF fresh, plain
<1> QED
  BY <1>1, <1>2, <1>3, FailsPast, OneMovesPast

LEMMA LoadPast ==
  ASSUME IInv, RunsPast(run), NEW p \in Process, Load(p)
  PROVE  RunsPast(run')
<1> DEFINE r == run[p]
           lock == Read(lockFile)
           s == [r EXCEPT !.pc = "resolve", !.loaded = lock, !.lock = lock,
                          !.nodes = RootNodes(r.decls), !.found = TRUE]
<1>1. r.pc = "load" /\ RunInv(r) /\ Past(r)
  BY DEF Load, IInv, RunsOK, RunsPast
<1>2. Fails(p, "LoadLock", Empty) \/ run' = [run EXCEPT ![p] = s]
  BY DEF Load
<1>3. Past(s)
  <2> HIDE DEF r, lock
  <2> QED
    BY <1>1, LoadedPast
<1> HIDE DEF s
<1> QED
  BY <1>2, <1>3, FailsPast, OneMovesPast

\* What a git input is resolved at is told by its clone.
LEMMA GitPast ==
  ASSUME NEW r, RunInv(r), Past(r), r.pc = "resolve", ~WavesOver(r),
         NEW path \in First(Todo(r)), r.nodes[path].url \in GitUrl,
         NEW clone \in Clone
  PROVE  LET rev == resolve_revision(clone, target_rev(r, path))
         IN Past(Resolved(r, path, Name(path), rev, CommitOf(clone),
                          should_update_lock(r, path, rev)))
<1> DEFINE url == r.nodes[path].url
           target == target_rev(r, path)
           rev == resolve_revision(clone, target)
           place == CommitOf(clone)
           write == should_update_lock(r, path, rev)
           input == [dir |-> Name(path), rev |-> rev, url |-> url, tree |-> place]
<1>1. url.type = "git" /\ url.type # "path"
  BY DEF GitUrl
<1>2. place = [repo |-> clone.repo, n |-> clone.head]
  BY AbsentAssumption DEF CommitOf, Clone
<1>3. target = IF url.ref # NoRef THEN url.ref
               ELSE IF ~Forced(r, path) /\ path \in Locked(r.lock) THEN r.lock.root[path].rev
               ELSE NoRef
  BY Zenon DEF target_rev
<1>4. rev = IF target \in {NoRef, Branch} THEN [repo |-> clone.repo, n |-> clone.head] ELSE target
  BY Zenon DEF resolve_revision
<1>5. write <=> \/ path \notin Locked(r.lock) \/ Forced(r, path)
                \/ (url.ref # NoRef /\ r.lock.root[path].rev # rev)
  BY Zenon DEF should_update_lock
<1>6. /\ r.force # Unforced /\ Name(path) \in r.force => Forced(r, path)
      /\ r.force = Unforced => ~Forced(r, path)
  BY DEF Forced
<1>7. input.dir = Name(path) /\ input.rev = rev /\ input.url = url /\ input.tree = place
  OBVIOUS
<1>8. input = [dir |-> input.dir, rev |-> input.rev, url |-> input.url, tree |-> input.tree]
  OBVIOUS
<1> HIDE DEF target, rev, place, write, input, url
<1>9. ToldBy(r.force, path, input)
  BY <1>1, <1>2, <1>3, <1>4, <1>6, <1>7, <1>8 DEF ToldBy
<1>10. Spares(r, path, rev, write)
  BY <1>1, <1>5, <1>6 DEF Spares, url
<1>11. write \in BOOLEAN
  BY DEF write, should_update_lock
<1>12. Past(Resolved(r, path, Name(path), rev, place, write))
  <2>1. ToldBy(r.force, path, [dir |-> Name(path), rev |-> rev, url |-> r.nodes[path].url,
                               tree |-> place])
    BY <1>9 DEF input, url
  <2>2. r.nodes[path].url.type \in {"git", "path"}
    BY <1>1 DEF url
  <2> QED
    BY <1>10, <1>11, <2>1, <2>2, ResolvedPast
<1> QED
  BY <1>12 DEF write, rev, place, target

\* And what a path is resolved at, by the directory found.
LEMMA PathPast ==
  ASSUME NEW r, RunInv(r), Past(r), r.pc = "resolve", ~WavesOver(r),
         NEW path \in First(Todo(r)), r.nodes[path].url.type = "path", NEW dir
  PROVE  Past(Resolved(r, path, dir, LocalRev, dir, path \notin Locked(r.lock)))
<1> DEFINE url == r.nodes[path].url
           write == path \notin Locked(r.lock)
           input == [dir |-> dir, rev |-> LocalRev, url |-> url, tree |-> dir]
<1>1. ToldBy(r.force, path, input)
  BY DEF ToldBy
<1>2. Spares(r, path, LocalRev, write) /\ write \in BOOLEAN
  BY DEF Spares
<1> HIDE DEF write
<1>3. Past(Resolved(r, path, dir, LocalRev, dir, write))
  BY <1>1, <1>2, ResolvedPast
<1> QED
  BY <1>3 DEF write

LEMMA ResolvePast ==
  ASSUME IInv, RunsPast(run), NEW p \in Process, Resolve(p)
  PROVE  RunsPast(run')
<1> DEFINE r == run[p]
<1>1. r.pc = "resolve" /\ ~WavesOver(r) /\ RunInv(r) /\ Past(r)
  BY DEF Resolve, IInv, RunsOK, RunsPast
<1>2. PICK path \in First(Todo(r)) :
        IF Mismatch(r, path)
        THEN Fails(p, "LockMismatch", path) /\ UNCHANGED clones
        ELSE IF r.nodes[path].url.type = "git" THEN ResolveGit(p, path)
        ELSE ResolvePath(p, path)
  BY DEF Resolve
<1>3. /\ path \in Seq(NameSet) /\ Len(path) > 0
      /\ Reaches(r.nodes[path].url) /\ r.nodes[path].url # NoUrl
  <2>1. path \in Unprocessed(r)
    BY <1>1 DEF First, Todo, RunInv, WavesOK
  <2> QED
    BY <1>1, <2>1 DEF Unprocessed, RunInv, NodesOK, Declares
<1>4. CASE Mismatch(r, path)
  <2>1. Fails(p, "LockMismatch", path)
    BY <1>2, <1>4
  <2> QED
    BY <2>1, FailsPast
<1>5. CASE r.nodes[path].url.type = "git" /\ ResolveGit(p, path)
  <2> DEFINE clone == Fetched(Name(path), r.nodes[path].url)
             rev == resolve_revision(clone, target_rev(r, path))
             s == Resolved(r, path, Name(path), rev, CommitOf(clone),
                           should_update_lock(r, path, rev))
  <2>1. Fails(p, "RevisionNotFound", path) \/ run' = [run EXCEPT ![p] = s]
    BY <1>5, Zenon DEF ResolveGit
  <2>2. r.nodes[path].url \in GitUrl
    BY <1>3, <1>5 DEF Reaches
  <2>3. Name(path) \in NameSet
    BY <1>3 DEF Name
  <2>4. clone \in Clone
    BY <2>2, <2>3, FetchedOK DEF IInv, CloneOK
  <2>5. Past(s)
    <3> HIDE DEF r, clone
    <3> QED
      BY <1>1, <2>2, <2>4, GitPast
  <2> HIDE DEF s
  <2> QED
    BY <2>1, <2>5, FailsPast, OneMovesPast
<1>6. CASE r.nodes[path].url.type # "git" /\ ResolvePath(p, path)
  <2> DEFINE s(dir) == Resolved(r, path, dir, LocalRev, dir, path \notin Locked(r.lock))
  <2>1. Fails(p, "PathNotFound", path) \/ \E dir : run' = [run EXCEPT ![p] = s(dir)]
    BY <1>6, Zenon DEF ResolvePath
  <2>2. r.nodes[path].url.type = "path"
    BY <1>3, <1>6 DEF Reaches, GitUrl
  <2>3. ASSUME NEW dir PROVE Past(s(dir))
    <3> HIDE DEF r
    <3> QED
      BY <1>1, <2>2, PathPast
  <2> HIDE DEF s
  <2> QED
    BY <2>1, <2>3, FailsPast, OneMovesPast
<1> QED
  BY <1>2, <1>4, <1>5, <1>6

LEMMA FollowPast ==
  ASSUME IInv, RunsPast(run), NEW p \in Process, Follow(p)
  PROVE  RunsPast(run')
<1> DEFINE r == run[p]
           s(source) == [r EXCEPT !.follows =
             With(r.follows, source, ChainEnd(r.nodes, r.follows, Target(r, source)))]
<1>1. r.pc = "resolve" /\ WavesOver(r) /\ RunInv(r) /\ Past(r)
  BY DEF Follow, IInv, RunsOK, RunsPast
<1>2. \/ \E error, path : Fails(p, error, path)
      \/ \E source \in First(Pending(r)) : run' = [run EXCEPT ![p] = s(source)]
  <2> DEFINE end(source) == ChainEnd(r.nodes, r.follows, Target(r, source))
             follows(source) == With(r.follows, source, end(source))
  <2>1. \/ \E error, path : Fails(p, error, path)
        \/ \E source \in First(Pending(r)) : run' = [run EXCEPT ![p].follows = follows(source)]
    BY Zenon DEF Follow, Target
  <2> HIDE DEF end
  <2>2. \A source : [run EXCEPT ![p].follows = follows(source)]
                      = [run EXCEPT ![p] = [r EXCEPT !.follows = follows(source)]]
    OBVIOUS
  <2> QED
    BY <2>1, <2>2, Zenon DEF end
<1>3. ASSUME NEW source \in First(Pending(r)) PROVE Past(s(source))
  <2> HIDE DEF r
  <2> QED
    BY <1>1, FollowedPast
<1> HIDE DEF s
<1> QED
  BY <1>2, <1>3, FailsPast, OneMovesPast

\* What is kept is what some resolution came to, or what was kept before.
LEMMA KeptStays ==
  ASSUME KeptOK, UNCHANGED ghosts
  PROVE  KeptOK'
BY DEF KeptOK, KeptOf, ghosts

LEMMA KeptAnew ==
  ASSUME NEW over, Kept(over),
         NEW s, RunInv(s), Past(s), Over(s), s.force = over.force,
         s.decls = over.decls, s.lock = over.lock, s.resolved = over.resolved,
         s.nodes = over.nodes, s.follows = over.follows
  PROVE  KeptOK'
<1>1. Outcome(s) = Outcome(over)
  BY DEF Outcome
<1>2. kept' = Outcome(s) /\ updated' = IF s.force = Unforced THEN {} ELSE s.force
  BY <1>1 DEF Kept
<1> QED
  BY <1>2 DEF KeptOK, KeptOf

LEMMA FinishPast ==
  ASSUME IInv, PastInv, NEW p \in Process, Finish(p)
  PROVE  PastInv'
<1> DEFINE r == run[p]
           lock == remove_root_inputs(r.lock, Stale(r))
           changed == r.changed \/ Stale(r) # {}
           over == [r EXCEPT !.lock = lock, !.changed = changed]
           pc == IF over.changed /\ ~r.dry THEN "save" ELSE "done"
           s == [r EXCEPT !.lock = lock, !.changed = changed, !.pc = pc]
<1>1. /\ r.pc = "resolve" /\ WavesOver(r) /\ Pending(r) = {}
      /\ RunInv(r) /\ Past(r) /\ KeptOK /\ RunsPast(run)
  BY DEF Finish, IInv, RunsOK, PastInv, RunsPast
<1>2. \/ Fails(p, "NamespaceConflict", Empty) /\ UNCHANGED ghosts
      \/ /\ run' = [run EXCEPT ![p] = [over EXCEPT !.pc = pc]]
         /\ UNCHANGED ghosts \/ Kept(over)
  BY Zenon DEF Finish
<1>3. /\ [over EXCEPT !.pc = pc] = s /\ s.pc = pc /\ s.force = over.force
      /\ s.decls = over.decls /\ s.lock = over.lock /\ s.resolved = over.resolved
      /\ s.nodes = over.nodes /\ s.follows = over.follows
  <2>1. IsRun(r)
    BY <1>1 DEF RunInv
  <2> HIDE DEF lock, changed, pc, r
  <2> QED
    BY <2>1 DEF IsRun
<1>4. pc \in {"save", "done"}
  OBVIOUS
<1>5. RunInv(s) /\ Past(s)
  <2> HIDE DEF pc, r
  <2>1. RunInv(s)
    <3> HIDE DEF changed
    <3> QED
      BY <1>1, <1>4, FinishRun
  <2>2. Past(s)
    BY <1>1, <1>4, FinishedPast
  <2> QED
    BY <2>1, <2>2
<1>6. Over(s)
  BY <1>3, <1>4 DEF Over
<1> HIDE DEF over, pc, s
<1>7. RunsPast(run')
  BY <1>1, <1>2, <1>3, <1>5, FailsPast, OneMovesPast
<1>8. KeptOK'
  BY <1>1, <1>2, <1>3, <1>5, <1>6, KeptStays, KeptAnew
<1> QED
  BY <1>7, <1>8 DEF PastInv

LEMMA SavePast ==
  ASSUME IInv, PastInv, NEW p \in Process, Truncate(p) \/ Write(p)
  PROVE  PastInv'
<1> DEFINE r == run[p]
           s(pc) == [r EXCEPT !.pc = pc]
<1>1. RunInv(r) /\ Past(r) /\ r.pc \in {"save", "write"} /\ KeptOK /\ RunsPast(run)
  BY DEF IInv, RunsOK, PastInv, RunsPast, Truncate, Write
<1>2. \E pc \in {"write", "done"} : run' = [run EXCEPT ![p] = s(pc)]
  BY DEF Truncate, Write
<1>3. ASSUME NEW pc \in {"write", "done"} PROVE Past(s(pc))
  <2> HIDE DEF r
  <2> QED
    BY <1>1, SavingPast
<1> HIDE DEF s
<1>4. RunsPast(run')
  BY <1>1, <1>2, <1>3, OneMovesPast
<1>5. UNCHANGED ghosts \/ Kept(r)
  BY DEF Truncate, Write
<1>6. KeptOK'
  <2>1. Over(r)
    BY <1>1 DEF Over
  <2> HIDE DEF r
  <2> QED
    BY <1>1, <1>5, <2>1, KeptStays, KeptAnew
<1> QED
  BY <1>4, <1>6 DEF PastInv

LEMMA InitPast == Init => PastInv
BY IdlePast DEF Init, PastInv, KeptOK, RunsPast

LEMMA NextPast == IInv /\ PastInv /\ [Next]_vars => PastInv'
<1> SUFFICES ASSUME IInv, PastInv, [Next]_vars PROVE PastInv'
  OBVIOUS
<1>1. KeptOK /\ RunsPast(run)
  BY DEF PastInv
<1>2. ASSUME RunsPast(run'), UNCHANGED ghosts PROVE PastInv'
  BY <1>1, <1>2, KeptStays DEF PastInv
<1>3. CASE UNCHANGED vars
  <2>1. UNCHANGED ghosts /\ UNCHANGED run
    BY <1>3 DEF vars
  <2>2. RunsPast(run')
    BY <1>1, <2>1
  <2> QED
    BY <1>2, <2>1, <2>2
<1>4. ASSUME NEW p \in Process, Start(p) \/ Load(p) \/ Resolve(p) \/ Follow(p)
      PROVE  PastInv'
  <2>1. UNCHANGED ghosts
    BY <1>4 DEF Start, Load, Resolve, Follow
  <2> QED
    BY <1>1, <1>2, <1>4, <2>1, StartPast, LoadPast, ResolvePast, FollowPast
<1>5. ASSUME NEW p \in Process, FetchFails(p) \/ Crash(p) PROVE PastInv'
  <2>1. UNCHANGED ghosts
    BY <1>5 DEF FetchFails, Crash
  <2>2. (\E path : Fails(p, "Fetch", path)) \/ run' = [run EXCEPT ![p] = Idle]
    BY <1>5 DEF FetchFails, Crash
  <2> QED
    BY <1>1, <1>2, <2>1, <2>2, FailsPast, IdlePast, OneMovesPast
<1>6. ASSUME NEW p \in Process, Finish(p) PROVE PastInv'
  BY <1>6, FinishPast
<1>7. ASSUME NEW p \in Process, Truncate(p) \/ Write(p) PROVE PastInv'
  BY <1>7, SavePast
<1>8. CASE Edit \/ TakeLock \/ ClearCache \/ \E r \in Repo : Advance(r)
  <2>1. UNCHANGED ghosts /\ UNCHANGED run
    BY <1>8 DEF Edit, TakeLock, ClearCache, User, Advance
  <2>2. RunsPast(run')
    BY <1>1, <2>1
  <2> QED
    BY <1>2, <2>1, <2>2
<1> QED
  BY <1>3, <1>4, <1>5, <1>6, <1>7, <1>8 DEF Next, Step

-----------------------------------------------------------------------------
(* Two resolutions of the same declarations                                *)

\* Where they find the same trees, they have the same graph.
LEMMA SameGraph ==
  ASSUME NEW r, RunInv(r), Past(r), Over(r), NEW t, RunInv(t), Past(t), Over(t),
         r.decls = t.decls, SameTrees(r.resolved, t.resolved)
  PROVE  /\ r.nodes = t.nodes /\ r.follows = t.follows
         /\ DOMAIN r.resolved = DOMAIN t.resolved
         /\ \A q \in DOMAIN r.resolved :
              /\ r.resolved[q].url = t.resolved[q].url
              /\ r.resolved[q].tree = t.resolved[q].tree
<1>1. /\ HistoryOK(r) /\ HistoryOK(t) /\ Ended(GraphOf(r)) /\ Ended(GraphOf(t))
  BY DEF Past, Over
<1>2. PICK n \in Nat : Reached(GraphOf(r), n, r.decls, r.resolved)
  BY <1>1 DEF HistoryOK
<1>3. PICK m \in Nat : Reached(GraphOf(t), m, r.decls, t.resolved)
  BY <1>1 DEF HistoryOK
<1>4. GraphOf(r) = GraphOf(t)
  BY <1>1, <1>2, <1>3, SameEnd
<1>5. r.nodes = t.nodes /\ r.follows = t.follows /\ r.processed = t.processed
  BY <1>4 DEF GraphOf
<1>6. WavesOK(r) /\ WavesOK(t)
  BY DEF RunInv
<1>7. DOMAIN r.resolved = DOMAIN t.resolved
  BY <1>5, <1>6 DEF WavesOK
<1>8. \A q \in DOMAIN r.resolved : r.resolved[q].url = t.resolved[q].url
  BY <1>5, <1>6 DEF WavesOK
<1> QED
  BY <1>5, <1>7, <1>8 DEF SameTrees

\* What the second one loaded is what the first one kept, so that what has not
\* been asked to change is the same.
LEMMA SameRev ==
  ASSUME NEW r, RunInv(r), Past(r), Over(r), NEW t, RunInv(t), Past(t), Over(t),
         r.decls = t.decls, SameTrees(r.resolved, t.resolved), r.loaded = t.lock,
         r.force = Unforced \/ (t.force # Unforced /\ r.force \subseteq t.force)
                            \/ r.force = {},
         NEW q \in DOMAIN r.resolved
  PROVE  r.resolved[q].rev = t.resolved[q].rev
<1> DEFINE a == r.resolved[q]
           b == t.resolved[q]
<1>1. q \in DOMAIN t.resolved /\ a.url = b.url /\ a.tree = b.tree
  BY SameGraph
<1>2. ToldBy(r.force, q, a) /\ ToldBy(t.force, q, b)
  BY <1>1 DEF Past, Over
<1>3. PinHeld(r, q) /\ Recorded(t, q)
  BY <1>1 DEF RunInv, LocksOK
<1>4. CASE a.url.type # "git"
  BY <1>1, <1>2, <1>4 DEF ToldBy
<1>5. CASE a.url.type = "git" /\ a.url.ref # NoRef
  BY <1>1, <1>2, <1>5 DEF ToldBy
<1>6. CASE Floats(a.url) /\ (r.force = Unforced \/ Name(q) \notin r.force)
  <2>1. a.rev = r.loaded.root[q].rev
    BY <1>3, <1>6 DEF PinHeld, Recorded
  <2>2. b.url.type = "git" => t.lock.root[q].rev = b.rev
    BY <1>3 DEF Recorded
  <2> QED
    BY <1>1, <1>6, <2>1, <2>2 DEF Floats
<1>7. CASE Floats(a.url) /\ r.force # Unforced /\ Name(q) \in r.force
  <2>1. t.force # Unforced /\ Name(q) \in t.force
    BY <1>7
  <2> QED
    BY <1>1, <1>2, <1>7, <2>1 DEF ToldBy, Floats
<1> QED
  BY <1>4, <1>5, <1>6, <1>7 DEF Floats

\* An evaluation comes to what was kept, and writes nothing.
LEMMA SameOutcome ==
  ASSUME NEW r, RunInv(r), Past(r), Over(r), NEW t, RunInv(t), Past(t), Over(t),
         r.decls = t.decls, SameTrees(r.resolved, t.resolved), r.loaded = t.lock,
         r.force = Unforced
  PROVE  Outcome(r) = Outcome(t) /\ ~r.changed
<1>1. /\ r.nodes = t.nodes /\ r.follows = t.follows
      /\ DOMAIN r.resolved = DOMAIN t.resolved
      /\ \A q \in DOMAIN r.resolved :
           /\ r.resolved[q].url = t.resolved[q].url
           /\ r.resolved[q].tree = t.resolved[q].tree
  BY SameGraph
<1>2. \A q \in DOMAIN r.resolved : r.resolved[q].rev = t.resolved[q].rev
  BY SameRev
<1>3. /\ IsMap(r.resolved) /\ IsMap(t.resolved) /\ NothingToWrite(r) /\ Stale(t) = {}
      /\ \A q \in DOMAIN r.resolved : ToldBy(r.force, q, r.resolved[q])
      /\ \A q \in DOMAIN t.resolved : ToldBy(t.force, q, t.resolved[q])
  BY DEF Past, Over
<1>4. ASSUME NEW q \in DOMAIN r.resolved PROVE r.resolved[q] = t.resolved[q]
  <2> DEFINE a == r.resolved[q]
             b == t.resolved[q]
  <2>1. ToldBy(r.force, q, a) /\ ToldBy(t.force, q, b)
    BY <1>1, <1>3
  <2>2. a.url = b.url /\ a.tree = b.tree /\ a.rev = b.rev
    BY <1>1, <1>2
  <2> HIDE DEF a, b
  <2>3. a.dir = b.dir
    BY <2>1, <2>2 DEF ToldBy
  <2>4. a = [dir |-> a.dir, rev |-> a.rev, url |-> a.url, tree |-> a.tree]
        /\ b = [dir |-> b.dir, rev |-> b.rev, url |-> b.url, tree |-> b.tree]
    BY <2>1 DEF ToldBy
  <2> QED
    BY <2>2, <2>3, <2>4 DEF a, b
<1>5. r.resolved = t.resolved
  BY <1>1, <1>3, <1>4 DEF IsMap
<1>6. LoadedFits(r)
  <2>1. \A q \in DOMAIN t.resolved : Recorded(t, q)
    BY DEF RunInv, LocksOK
  <2>2. \A q \in DOMAIN r.loaded.root : Len(q) = 1 => q[1] \in DOMAIN r.decls
    BY <1>3 DEF Stale
  <2> QED
    BY <1>5, <2>1, <2>2 DEF LoadedFits, Recorded
<1>7. r.lock = r.loaded /\ ~r.changed
  BY <1>3, <1>6 DEF NothingToWrite
<1> QED
  BY <1>1, <1>5, <1>7 DEF Outcome

\* An update of names that the one before was given announces what follows
\* another input, and paths with an older URL's entry.
LEMMA SameAnnounced ==
  ASSUME NEW r, RunInv(r), Past(r), Over(r), NEW t, RunInv(t), Past(t), Over(t),
         r.decls = t.decls, SameTrees(r.resolved, t.resolved), r.loaded = t.lock,
         r.old = t.lock,
         (t.force # Unforced /\ r.force \subseteq t.force) \/ r.force = {},
         NEW q \in Announced(r), Prefixes(q) \cap DOMAIN r.follows = {}
  PROVE  r.resolved[q].url.type = "path" /\ r.lock.root[q].url # r.resolved[q].url
<1> DEFINE inputs == ResolvedInputs(r.nodes, r.resolved, r.follows)
<1>1. /\ q \in DOMAIN inputs
      /\ q \in Locked(r.old) => r.old.root[q].rev # inputs[q].rev
  BY DEF Announced, OldEntry
<1>2. /\ q \in DOMAIN r.nodes /\ inputs[q] = r.resolved[Effective(r.follows, q)]
      /\ \A s \in Prefixes(q) : Effective(r.follows, s) \in DOMAIN r.resolved
  BY <1>1 DEF ResolvedInputs
<1>3. q \in Prefixes(q)
  <2>1. q \in Seq(NameSet) /\ Len(q) > 0
    BY <1>2 DEF RunInv, NodesOK
  <2> QED
    BY <2>1, PrefixIs
<1>4. Effective(r.follows, q) = q
  BY <1>3 DEF Effective
<1>5. q \in DOMAIN r.resolved /\ inputs[q] = r.resolved[q]
  BY <1>2, <1>3, <1>4
<1> HIDE DEF inputs
<1>6. q \in DOMAIN t.resolved /\ r.resolved[q].url = t.resolved[q].url
  BY <1>5, SameGraph
<1>7. Recorded(t, q)
  BY <1>6 DEF RunInv, LocksOK
<1>8. t.lock.root[q].rev # r.resolved[q].rev
  BY <1>1, <1>5, <1>7 DEF Recorded
<1>9. r.resolved[q].rev = t.resolved[q].rev
  BY <1>5, SameRev
<1>10. r.resolved[q].url.type # "git"
  BY <1>6, <1>7, <1>8, <1>9 DEF Recorded
<1>11. r.resolved[q].url.type = "path" /\ r.resolved[q].rev = LocalRev
  BY <1>5, <1>10 DEF Past, Over, ToldBy
<1>12. r.lock.root[q] = t.lock.root[q]
  BY <1>5, <1>7, <1>11 DEF Past, Over, PathsStay, Recorded
<1>13. Tells(t.lock.root[q].url, t.lock.root[q].rev)
  BY <1>7 DEF RunInv, LocksOK, Entries, Recorded, Locked
<1> QED
  BY <1>8, <1>11, <1>12, <1>13 DEF Tells

-----------------------------------------------------------------------------
(* The theorems                                                            *)

\* However processes interleave, crash and fail to fetch, and whatever users
\* and repositories do, what holds of each process's record holds always.
THEOREM Invariance == Spec => []IInv
BY InitInv, NextInv, PTL DEF Spec

\* Clones never get ahead of their repositories, and a process has resolved
\* nothing that is not in its graph.
THEOREM TypeCorrect == Spec => []TypeOK
<1>1. IInv => TypeOK
  <2> SUFFICES ASSUME IInv PROVE TypeOK
    OBVIOUS
  <2>1. config \in Configs /\ updated \subseteq NameSet
        /\ \A r \in Repo : remote[r] \in 1 .. MaxCommit[r]
    BY DEF IInv, SharedInv
  <2>2. \A n \in NameSet : clones[n] # NoClone =>
          /\ DOMAIN clones[n] = {"repo", "head", "fetched"} /\ clones[n].repo \in Repo
          /\ 1 <= clones[n].head /\ clones[n].head <= clones[n].fetched
          /\ clones[n].fetched <= remote[clones[n].repo]
    BY DEF IInv, SharedInv, ClonesOK, CloneOK, Clone
  <2>3. ASSUME NEW p \in Process
        PROVE  /\ run[p].pc \in Pc
               /\ run[p].todo \cup run[p].processed \cup DOMAIN run[p].resolved
                    \subseteq DOMAIN run[p].nodes
    <3>1. RunInv(run[p])
      BY DEF IInv, RunsOK
    <3> QED
      BY <3>1 DEF RunInv, CommandOK, WavesOK, Unprocessed
  <2> QED
    BY <2>1, <2>2, <2>3 DEF TypeOK, IInv, CountsOK
<1> QED
  BY <1>1, Invariance, PTL

\* However far repositories advance and whoever fetches into the same clones,
\* an input without a ref keeps the revision the lock file had for it.
THEOREM PinsAreHeld == Spec => []PinsHold
<1>1. IInv => PinsHold
  <2> SUFFICES ASSUME IInv, NEW p \in Process, NEW q \in DOMAIN run[p].resolved,
                      q \in Locked(run[p].loaded), Floats(run[p].resolved[q].url),
                      run[p].force = Unforced \/ Name(q) \notin run[p].force
               PROVE  run[p].resolved[q].rev = run[p].loaded.root[q].rev
    BY DEF PinsHold
  <2>1. PinHeld(run[p], q)
    BY DEF IInv, RunsOK, RunInv, LocksOK
  <2> QED
    BY <2>1 DEF PinHeld
<1> QED
  BY <1>1, Invariance, PTL

\* The lock file that a command is about to keep has the revision and the URL
\* of every input and dependency that it resolved.
THEOREM LockIsTrue == Spec => []LockRecordsResolution
<1>1. IInv => LockRecordsResolution
  <2> SUFFICES ASSUME IInv, NEW p \in Process, NEW q \in DOMAIN run[p].resolved
               PROVE  /\ q \in Locked(run[p].lock)
                      /\ run[p].resolved[q].url.type = "git" =>
                           run[p].lock.root[q].rev = run[p].resolved[q].rev
                      /\ run[p].lock.root[q].url = run[p].resolved[q].url
                         \/ (run[p].force # Unforced /\ run[p].resolved[q].url.type = "path")
    BY DEF LockRecordsResolution
  <2>1. Recorded(run[p], q)
    BY DEF IInv, RunsOK, RunInv, LocksOK
  <2> QED
    BY <2>1 DEF Recorded
<1> QED
  BY <1>1, Invariance, PTL

\* A cycle of dependencies is entered once, whatever the inputs declare.
THEOREM CyclesAreCut == Spec => []CyclesCut
<1>1. IInv => CyclesCut
  <2> SUFFICES ASSUME IInv, NEW p \in Process, NEW q \in DOMAIN run[p].nodes,
                      NEW s \in Prefixes(q) \ {q}
               PROVE  /\ s \in DOMAIN run[p].nodes
                      /\ run[p].nodes[s].url = run[p].nodes[q].url /\ run[p].nodes[q].url # NoUrl
                         => Len(q) = Len(s) + 1
    BY DEF CyclesCut
  <2>1. RunInv(run[p])
    BY DEF IInv, RunsOK
  <2>2. s \in DOMAIN run[p].nodes
    BY <2>1 DEF RunInv, NodesOK, WavesOK
  <2> QED
    BY <2>1, <2>2 DEF RunInv, Cut
<1> QED
  BY <1>1, Invariance, PTL

\* When a resolution ends with inputs, everything on package.path that provides
\* a namespace agrees on where it comes from.
THEOREM LookupsAgree == Spec => LookupsUnambiguous
<1> DEFINE Agree(r) ==
      \A a, b \in OnPackagePath(r.nodes, r.resolved, r.follows) :
        /\ Provided(a.dir) \cap Provided(b.dir) # {} => Source(a) = Source(b)
        /\ Provided(a.dir) \cap Trees[ConfigDir].namespaces = {}
<1>1. IInv /\ [Next]_vars =>
        [\A p \in Process : LET r == run'[p] IN
           run[p].pc = "resolve" /\ Over(r) => Agree(r)]_vars
  <2> SUFFICES ASSUME IInv, [Next]_vars, NEW p \in Process,
                      run[p].pc = "resolve", Over(run'[p])
               PROVE  Agree(run'[p])
    OBVIOUS
  <2>1. Finish(p)
    BY OnlyFinishEnds
  <2>2. /\ run'[p].nodes = run[p].nodes /\ run'[p].resolved = run[p].resolved
        /\ run'[p].follows = run[p].follows
        /\ ~NamespaceConflict(run[p].resolved, run[p].follows)
    BY <2>1, FinishLooksUp
  <2>3. RunInv(run[p])
    BY DEF IInv, RunsOK
  <2>4. Agree(run[p])
    BY <2>2, <2>3, ComparedAgree
  <2> QED
    BY <2>2, <2>4
<1> QED
  BY <1>1, Invariance, PTL DEF LookupsUnambiguous, Spec

\* What was kept last is what some resolution came to, and every process has
\* come step by step to the graph that it has.
THEOREM PastInvariance == Spec => [](IInv /\ PastInv)
<1>1. Init => IInv /\ PastInv
  BY InitInv, InitPast
<1>2. IInv /\ PastInv /\ [Next]_vars => (IInv /\ PastInv)'
  BY NextInv, NextPast
<1> QED
  BY <1>1, <1>2, PTL DEF Spec

\* The declarations and the lock file that were kept give again what was kept,
\* where the clones hold the same commits, and nothing is written.
THEOREM ResolutionReproduced == Spec => Reproduced
<1> DEFINE Again(p) == LET r == run'[p] IN
      /\ run[p].pc = "resolve" /\ Over(r)
      /\ r.force = Unforced /\ kept # NoFile
      /\ r.decls = kept.decls /\ r.loaded = kept.lock
      /\ \A q \in DOMAIN r.resolved \cap DOMAIN kept.resolved :
           r.resolved[q].tree = kept.resolved[q].tree
      => Outcome(r) = kept /\ ~r.changed
<1>1. ASSUME PastInv, RunsOK(run'), RunsPast(run'), NEW p \in Process PROVE Again(p)
  <2> DEFINE r == run'[p]
  <2> SUFFICES ASSUME Over(r), r.force = Unforced, kept # NoFile,
                      r.decls = kept.decls, r.loaded = kept.lock,
                      \A q \in DOMAIN r.resolved \cap DOMAIN kept.resolved :
                        r.resolved[q].tree = kept.resolved[q].tree
               PROVE  Outcome(r) = kept /\ ~r.changed
    OBVIOUS
  <2>1. PICK t : KeptOf(t)
    BY <1>1 DEF PastInv, KeptOK
  <2>2. /\ RunInv(t) /\ Past(t) /\ Over(t) /\ kept = Outcome(t)
        /\ kept.decls = t.decls /\ kept.lock = t.lock /\ kept.resolved = t.resolved
    BY <2>1 DEF KeptOf, Outcome
  <2>3. RunInv(r) /\ Past(r)
    BY <1>1 DEF RunsOK, RunsPast
  <2> HIDE DEF r
  <2>4. SameTrees(r.resolved, t.resolved)
    BY <2>2 DEF SameTrees
  <2> QED
    BY <2>2, <2>3, <2>4, SameOutcome
<1>2. PastInv /\ (IInv /\ PastInv)' => [\A p \in Process : Again(p)]_vars
  BY <1>1 DEF IInv, PastInv
<1> QED
  BY <1>2, PastInvariance, PTL DEF Reproduced, Spec

\* An update of what was just updated, where nothing has changed since, announces
\* only what follows another input and paths with an older URL's entry.
THEOREM UpdatesConverge == Spec => UpdateConverges
<1> DEFINE Again(p) == LET r == run'[p] IN
      /\ run[p].pc = "resolve" /\ Over(r)
      /\ kept # NoFile /\ r.force # Unforced /\ r.force \subseteq updated
      /\ r.decls = kept.decls /\ r.old = kept.lock /\ r.loaded = kept.lock
      /\ \A q \in DOMAIN r.resolved \cap DOMAIN kept.resolved :
           r.resolved[q].tree = kept.resolved[q].tree
      => \A q \in Announced(r) :
           \/ Prefixes(q) \cap DOMAIN r.follows # {}
           \/ r.resolved[q].url.type = "path" /\ r.lock.root[q].url # r.resolved[q].url
<1>1. ASSUME PastInv, RunsOK(run'), RunsPast(run'), NEW p \in Process PROVE Again(p)
  <2> DEFINE r == run'[p]
  <2> SUFFICES ASSUME Over(r), r.force \subseteq updated, kept # NoFile,
                      r.decls = kept.decls, r.old = kept.lock, r.loaded = kept.lock,
                      \A q \in DOMAIN r.resolved \cap DOMAIN kept.resolved :
                        r.resolved[q].tree = kept.resolved[q].tree,
                      NEW q \in Announced(r), Prefixes(q) \cap DOMAIN r.follows = {}
               PROVE  r.resolved[q].url.type = "path" /\ r.lock.root[q].url # r.resolved[q].url
    OBVIOUS
  <2>1. PICK t : KeptOf(t)
    BY <1>1 DEF PastInv, KeptOK
  <2>2. /\ RunInv(t) /\ Past(t) /\ Over(t)
        /\ updated = (IF t.force = Unforced THEN {} ELSE t.force)
        /\ kept.decls = t.decls /\ kept.lock = t.lock /\ kept.resolved = t.resolved
    BY <2>1 DEF KeptOf, Outcome
  <2>3. RunInv(r) /\ Past(r)
    BY <1>1 DEF RunsOK, RunsPast
  <2> HIDE DEF r
  <2>4. SameTrees(r.resolved, t.resolved)
    BY <2>2 DEF SameTrees
  <2>5. (t.force # Unforced /\ r.force \subseteq t.force) \/ r.force = {}
    BY <2>2
  <2> QED
    BY <2>2, <2>3, <2>4, <2>5, SameAnnounced
<1>2. PastInv /\ (IInv /\ PastInv)' => [\A p \in Process : Again(p)]_vars
  BY <1>1 DEF IInv, PastInv
<1> QED
  BY <1>2, PastInvariance, PTL DEF UpdateConverges, Spec

=============================================================================
