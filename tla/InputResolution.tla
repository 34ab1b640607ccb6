--------------------------- MODULE InputResolution ---------------------------
(***************************************************************************)
(* Resolution of a configuration's inputs, by the evaluation that every    *)
(* command starts with and by `sys update`.  Processes share the lock file *)
(* beside the configuration and the clones in the cache and take no lock.  *)
(* Repositories advance, users edit the configuration, take over another   *)
(* lock file or clear the cache, and a process may be killed at any time.  *)
(*                                                                         *)
(* Clones keep the commit they were made at, since nothing checks out      *)
(* another; a rev is [repo, n] for the n-th commit of a repository, or     *)
(* LocalRev.  The timestamps of a lock file's nodes are left out.          *)
(***************************************************************************)
EXTENDS InputGraph

CONSTANTS
  Process, Repo,
  Configs,         \* the inputs users may write: functions from names, or NotATable
  Updates,         \* the names `sys update` may be given ({}: all), and --dry-run
  Trees,           \* what a commit or a local directory contains
  Located,         \* where a base directory and a path lead to
  Teammates,       \* lock files that come with the configuration
  MaxCommit,       \* bound: the commits a repository ever has
  MaxCommands,     \* bound: commands ever started
  MaxEvents,       \* bound: crashes, failed fetches, new commits, what users do
  ConfigDir, Branch, LocalRev, NoClone, NoFile, Torn, Unforced

NameSet == {NameOrder[i] : i \in 1 .. Len(NameOrder)}

\* The revisions of git inputs, and their URLs.
Commit == UNION {{[repo |-> r, n |-> n] : n \in 1 .. MaxCommit[r]} : r \in Repo}
GitUrl == [type : {"git"}, repo : Repo, ref : {NoRef, Branch} \cup Commit]

\* Every git URL leads to a repository.
Reaches(url) == url = NoUrl \/ url.type = "path" \/ url \in GitUrl

Declares(decl) ==
  /\ Reaches(decl.url)
  /\ DOMAIN decl.inputs \subseteq NameSet
  /\ \A n \in DOMAIN decl.inputs : IsFollows(decl.inputs[n]) \/ Reaches(decl.inputs[n].url)

ASSUME InputsAssumption ==
  /\ "__follows__" \in NameSet
  /\ \A inputs \in Configs \cup {Trees[t].inputs : t \in DOMAIN Trees} :
       inputs = NotATable \/
         /\ DOMAIN inputs \subseteq NameSet
         /\ \A n \in DOMAIN inputs : IsDecl(inputs[n]) /\ Declares(inputs[n])

\* The entries of lock files hold revisions.
ASSUME LocksAssumption ==
  \A lock \in Teammates \cup {Trees[t].lock : t \in DOMAIN Trees} :
    \A q \in DOMAIN lock.root :
      /\ lock.root[q].url # NoUrl /\ Reaches(lock.root[q].url)
      /\ \/ lock.root[q].url.type = "git" /\ lock.root[q].rev \in Commit
         \/ lock.root[q].url.type = "path" /\ lock.root[q].rev = LocalRev

\* Commits and local directories contain something.
ASSUME TreesAssumption ==
  Commit \cup {Located[from] : from \in DOMAIN Located} \subseteq DOMAIN Trees

ASSUME BoundsAssumption ==
  /\ MaxCommit \in [Repo -> Nat]
  /\ MaxCommands \in Nat /\ MaxEvents \in Nat

\* What stands for no revision, no clone or no set of names is none.
ASSUME AbsentAssumption ==
  /\ NoClone \notin [repo : Repo, head : Nat, fetched : Nat]
  /\ {NoRef, Branch} \cap (Commit \cup {LocalRev}) = {}
  /\ \A names \in SUBSET NameSet : names # Unforced

VARIABLES
  config, remote, clones, lockFile,
  run,             \* the local state of each process
  commands, events,    \* how often each has happened
  kept,            \* the last resolution whose lock file was kept
  updated          \* the names that the resolution kept was an update of

shared == <<config, remote, clones, lockFile>>
ghosts == <<kept, updated>>
counts == <<commands, events>>
vars == <<shared, run, ghosts, counts>>

NoTree == [inputs |-> Empty, lock |-> EmptyLock, namespaces |-> {}]

Idle ==
  [pc |-> "idle", force |-> Unforced, dry |-> FALSE, decls |-> Empty,
   old |-> EmptyLock, loaded |-> EmptyLock, lock |-> EmptyLock, changed |-> FALSE,
   nodes |-> Empty, todo |-> {}, processed |-> {}, seen |-> {}, found |-> FALSE,
   resolved |-> Empty, follows |-> Empty, error |-> "none", at |-> Empty]

Init ==
  /\ config \in Configs
  /\ remote \in {f \in [Repo -> UNION {1 .. MaxCommit[r] : r \in Repo}] :
                   \A r \in Repo : f[r] <= MaxCommit[r]}
  /\ clones = [n \in NameSet |-> NoClone]
  /\ lockFile \in Teammates \cup {NoFile}
  /\ run = [p \in Process |-> Idle]
  /\ commands = 0 /\ events = 0 /\ kept = NoFile /\ updated = {}

Joined(f, g) ==
  [x \in DOMAIN f \cup DOMAIN g |-> IF x \in DOMAIN f THEN f[x] ELSE g[x]]

With(f, x, y) == Joined([z \in {x} |-> y], f)

\* What a file that is there or not holds.
Read(file) == IF file = NoFile THEN EmptyLock ELSE file

AtRest == {"idle", "done", "failed"}

Event == events < MaxEvents /\ events' = events + 1 /\ UNCHANGED commands

\* The next wave: the nodes not processed that have a URL.  There is one only
\* if the wave before found dependencies.
Unprocessed(r) == {q \in DOMAIN r.nodes \ r.processed : r.nodes[q].url # NoUrl}
WavesOver(r) == r.todo = {} /\ (~r.found \/ Unprocessed(r) = {})

Todo(r) == IF r.todo = {} THEN Unprocessed(r) ELSE r.todo

\* The command ends with an error about an input or a follows override, if any.
Fails(p, error, path) ==
  run' = [run EXCEPT ![p] = [Idle EXCEPT !.pc = "failed", !.error = error, !.at = path]]

-----------------------------------------------------------------------------
(* A command starts                                                        *)

\* evaluate_config reads the configuration; without inputs it resolves none.
StartEvaluation(p) ==
  LET decls == extract_raw_inputs(config)
  IN /\ DOMAIN decls # {}
     /\ run' = [run EXCEPT ![p] = [Idle EXCEPT !.pc = "load", !.decls = decls]]

\* update_inputs: inputs must be a table here, and every name it is given be in
\* it; the lock file to compare with is read before resolve_inputs reads it.
StartUpdate(p, names, dry) ==
  /\ IF extract_input_decls(config) = {} THEN Fails(p, "LoadConfig", Empty)
     ELSE IF ~(names \subseteq DOMAIN config) THEN Fails(p, "InputNotFound", Empty)
     ELSE IF lockFile = Torn THEN Fails(p, "LoadLock", Empty)
     ELSE run' = [run EXCEPT ![p] =
            [Idle EXCEPT !.pc = "load", !.decls = config, !.dry = dry, !.old = Read(lockFile),
                         !.force = IF names = {} THEN DOMAIN config ELSE names]]

Start(p) ==
  /\ run[p].pc \in AtRest /\ commands < MaxCommands
  /\ StartEvaluation(p) \/ \E u \in Updates : StartUpdate(p, u[1], u[2])
  /\ commands' = commands + 1
  /\ UNCHANGED <<shared, ghosts, events>>

\* LockFile::load, and the graph of the root inputs.
Load(p) ==
  /\ run[p].pc = "load"
  /\ IF lockFile = Torn THEN Fails(p, "LoadLock", Empty)
     ELSE LET lock == Read(lockFile)
          IN run' = [run EXCEPT ![p] =
               [@ EXCEPT !.pc = "resolve", !.loaded = lock, !.lock = lock,
                         !.nodes = RootNodes(run[p].decls), !.found = TRUE]]
  /\ UNCHANGED <<shared, ghosts, counts>>

-----------------------------------------------------------------------------
(* resolve_single_input                                                    *)

\* The set update builds is empty when nothing is declared, and then it would
\* mean all inputs; other processes pass none.
Forced(r, path) ==
  r.force # Unforced /\ (r.force = {} \/ Name(path) \in r.force)

Mismatch(r, path) ==
  /\ ~Forced(r, path)
  /\ path \in Locked(r.lock)
  /\ r.lock.root[path].url # r.nodes[path].url

\* Mutant: the lock file is only written, never followed.
AskedFor(r, path) == r.nodes[path].url.ref

\* The revision asked for: the URL's own, or the locked one unless forced.
target_rev(r, path) ==
  LET url == r.nodes[path].url
  IN IF url.ref # NoRef THEN url.ref
     ELSE IF ~Forced(r, path) /\ path \in Locked(r.lock) THEN r.lock.root[path].rev ELSE NoRef

\* The clone after fetch_git: one that exists is fetched from wherever it was
\* cloned from, whatever the URL says.  Its files do not change.
Fetched(name, url) ==
  IF clones[name] = NoClone
  THEN [repo |-> url.repo, head |-> remote[url.repo], fetched |-> remote[url.repo]]
  ELSE [clones[name] EXCEPT !.fetched = remote[clones[name].repo]]

\* resolve_revision: HEAD and the local branch are the commit cloned.
Found(clone, rev) ==
  rev \in {NoRef, Branch} \/ (rev.repo = clone.repo /\ rev.n <= clone.fetched)
resolve_revision(clone, rev) ==
  IF rev \in {NoRef, Branch} THEN [repo |-> clone.repo, n |-> clone.head] ELSE rev

\* Mutants: an entry that exists stays; an input with a ref is always written.
OnlyMissing(r, path, rev) == path \notin Locked(r.lock) \/ Forced(r, path)
WheneverRefGiven(r, path, rev) ==
  path \notin Locked(r.lock) \/ Forced(r, path) \/ r.nodes[path].url.ref # NoRef

\* Whether a git input's lock entry is written.
should_update_lock(r, path, rev) ==
  \/ path \notin Locked(r.lock)
  \/ Forced(r, path)
  \/ r.nodes[path].url.ref # NoRef /\ r.lock.root[path].rev # rev

\* What is at a place: a commit, a local directory, or nothing any more.
CommitOf(clone) == IF clone = NoClone THEN NoClone ELSE [repo |-> clone.repo, n |-> clone.head]
Place(dir) == IF dir \in NameSet THEN CommitOf(clones[dir]) ELSE dir
Contents(place) == IF place = NoClone THEN NoTree ELSE Trees[place]

\* Mutant: dependencies are followed wherever they lead.
AllNodes(r, path, tree) ==
  LET inputs == extract_input_decls_from_file(tree)
  IN [q \in {Child(path, n) : n \in DOMAIN inputs} |->
        Overridden(r.nodes[path], Name(q), inputs[Name(q)], tree.lock)]

\* The dependencies that the init.lua of an input declares, as its parent and
\* its own lock file change them; one whose URL was met before is skipped.
NewNodes(r, path, tree) ==
  LET inputs == extract_input_decls_from_file(tree)
      decl(n) == Overridden(r.nodes[path], n, inputs[n], tree.lock)
  IN [q \in {Child(path, n) : n \in {m \in DOMAIN inputs : decl(m).url \notin r.seen}} |->
        decl(Name(q))]

\* The input is resolved, and its lock entry written or not; what it contains
\* is read, and it is done.
Resolved(r, path, dir, rev, place, write) ==
  LET url == r.nodes[path].url
      new == NewNodes(r, path, Contents(place))
  IN [r EXCEPT
       !.lock = IF write THEN add_root_input(@, path, url, rev) ELSE @,
       !.changed = @ \/ write,
       !.resolved = With(@, path, [dir |-> dir, rev |-> rev, url |-> url, tree |-> place]),
       !.nodes = Joined(new, @),
       !.found = (r.todo # {} /\ @) \/ DOMAIN new # {},
       !.seen = @ \cup {url},
       !.todo = Todo(r) \ {path},
       !.processed = @ \cup {path}]

ResolveGit(p, path) ==
  LET r == run[p]
      clone == Fetched(Name(path), r.nodes[path].url)
      rev == resolve_revision(clone, target_rev(r, path))
  IN /\ clones' = [clones EXCEPT ![Name(path)] = clone]
     /\ IF ~Found(clone, target_rev(r, path)) THEN Fails(p, "RevisionNotFound", path)
        ELSE run' = [run EXCEPT ![p] =
               Resolved(r, path, Name(path), rev, CommitOf(clone), should_update_lock(r, path, rev))]

\* A path is relative to the configuration's directory, or to the parent's.
BaseDir(r, path) ==
  IF Len(path) = 1 THEN ConfigDir ELSE Place(r.resolved[Parent(path)].dir)

\* The directory that a path leads to, if there is one.
resolve_path(path, base) == {Located[from] : from \in {<<base, path>>} \cap DOMAIN Located}

ResolvePath(p, path) ==
  LET r == run[p]
      found == resolve_path(r.nodes[path].url.path, BaseDir(r, path))
  IN /\ UNCHANGED clones
     /\ IF found = {} THEN Fails(p, "PathNotFound", path)
        ELSE \E dir \in found : run' = [run EXCEPT ![p] =
               Resolved(r, path, dir, LocalRev, dir, path \notin Locked(r.lock))]

\* The first node left of the wave is resolved, or the command fails.
Resolve(p) ==
  /\ run[p].pc = "resolve" /\ ~WavesOver(run[p])
  /\ \E path \in First(Todo(run[p])) :
     IF Mismatch(run[p], path)
     THEN Fails(p, "LockMismatch", path) /\ UNCHANGED clones
     ELSE IF run[p].nodes[path].url.type = "git" THEN ResolveGit(p, path)
     ELSE ResolvePath(p, path)
  /\ UNCHANGED <<config, remote, lockFile, ghosts, counts>>

\* The network, the disk or the repository fails.
FetchFails(p) ==
  /\ run[p].pc = "resolve" /\ ~WavesOver(run[p])
  /\ \E path \in First(Todo(run[p])) :
       run[p].nodes[path].url.type = "git" /\ Fails(p, "Fetch", path)
  /\ Event
  /\ UNCHANGED <<shared, ghosts>>

-----------------------------------------------------------------------------
(* The end of resolve_inputs, and the lock file                            *)

\* Entries of root inputs that are no longer declared; those of dependencies
\* stay, whatever became of their parent.
Stale(r) == {q \in DOMAIN r.lock.root : Len(q) = 1 /\ q[1] \notin DOMAIN r.decls}

Provided(dir) == Contents(Place(dir)).namespaces

Outcome(r) ==
  [decls |-> r.decls, lock |-> r.lock, resolved |-> r.resolved,
   inputs |-> ResolvedInputs(r.nodes, r.resolved, r.follows)]

\* Mutant: the entry of a dependency is looked up by its name.
OldOfName(r, path) == <<Name(path)>>

\* The path whose entry in the lock file that update read first is compared.
OldEntry(r, path) == path

\* What `sys update` announces: the inputs, at any depth, that the lock file it
\* read had at another revision, or had not.
Announced(r) ==
  LET inputs == ResolvedInputs(r.nodes, r.resolved, r.follows)
  IN {q \in DOMAIN inputs :
        OldEntry(r, q) \in Locked(r.old) => r.old.root[OldEntry(r, q)].rev # inputs[q].rev}

\* A resolution is over and the lock file is what it holds in memory.
Kept(r) ==
  /\ kept' = Outcome(r)
  /\ updated' = IF r.force = Unforced THEN {} ELSE r.force

\* Mutant: a follows override that is settled is taken up again.
NeverSettled(r) == Sources(r.nodes)

\* resolve_follows: the sources one by one, in order.
Pending(r) == Sources(r.nodes) \ DOMAIN r.follows

Follow(p) ==
  /\ run[p].pc = "resolve" /\ WavesOver(run[p]) /\ Pending(run[p]) # {}
  /\ \E source \in First(Pending(run[p])) :
     LET r == run[p]
         target == r.nodes[Parent(source)].inputs[Name(source)].follows
         error == ChainError(r.nodes, r.follows, target)
     IN IF error # "none" THEN Fails(p, error, source)
        ELSE run' = [run EXCEPT ![p].follows =
                       With(@, source, ChainEnd(r.nodes, r.follows, target))]
  /\ UNCHANGED <<shared, ghosts, counts>>

\* Two inputs that are not followed away provide a namespace from different
\* sources; the configuration's own directory is a source like any other.
NamespaceConflict(resolved, follows) ==
  \E p, q \in Scanned(resolved, follows) :
    \E ns \in Provided(resolved[p].dir) :
      \/ ns \in Trees[ConfigDir].namespaces
      \/ ns \in Provided(resolved[q].dir) /\ Source(resolved[p]) # Source(resolved[q])

\* Stale entries of the lock file go, and namespaces are compared.
Finish(p) ==
  /\ run[p].pc = "resolve" /\ WavesOver(run[p]) /\ Pending(run[p]) = {}
  /\ LET r == run[p]
         over == [r EXCEPT !.lock = remove_root_inputs(@, Stale(r)),
                           !.changed = @ \/ Stale(r) # {}]
     IN IF NamespaceConflict(r.resolved, r.follows)
        THEN Fails(p, "NamespaceConflict", Empty) /\ UNCHANGED ghosts
        ELSE /\ run' = [run EXCEPT ![p] =
                  [over EXCEPT !.pc = IF over.changed /\ ~r.dry THEN "save" ELSE "done"]]
             /\ IF over.changed THEN UNCHANGED ghosts ELSE Kept(over)
  /\ UNCHANGED <<shared, counts>>

\* LockFile::save is fs::write: the file is emptied, then written.  Where two
\* processes write at once, the end of the longer text may stay.
Truncate(p) ==
  /\ run[p].pc = "save"
  /\ lockFile' = Torn
  /\ run' = [run EXCEPT ![p].pc = "write"]
  /\ UNCHANGED <<config, remote, clones, ghosts, counts>>

Write(p) ==
  /\ run[p].pc = "write"
  /\ run' = [run EXCEPT ![p].pc = "done"]
  /\ \/ lockFile' = run[p].lock /\ Kept(run[p])
     \/ lockFile # Torn /\ lockFile' = Torn /\ UNCHANGED ghosts
  /\ UNCHANGED <<config, remote, clones, counts>>

Crash(p) ==
  /\ run[p].pc \notin AtRest
  /\ run' = [run EXCEPT ![p] = Idle]
  /\ Event
  /\ UNCHANGED <<shared, ghosts>>

-----------------------------------------------------------------------------
(* Everyone else                                                           *)

User == Event /\ UNCHANGED <<run, ghosts>>

Edit ==
  /\ User
  /\ config' \in Configs \ {config}
  /\ UNCHANGED <<remote, clones, lockFile>>

\* The user takes over the lock file of someone else, or removes it.
TakeLock ==
  /\ User
  /\ lockFile' \in (Teammates \cup {NoFile}) \ {lockFile}
  /\ UNCHANGED <<config, remote, clones>>

ClearCache ==
  /\ User
  /\ clones' = [n \in NameSet |-> NoClone]
  /\ UNCHANGED <<config, remote, lockFile>>

Advance(r) ==
  /\ remote[r] < MaxCommit[r]
  /\ remote' = [remote EXCEPT ![r] = @ + 1]
  /\ Event
  /\ UNCHANGED <<config, clones, lockFile, run, ghosts>>

Step(p) ==
  Load(p) \/ Resolve(p) \/ Follow(p) \/ Finish(p) \/ Truncate(p) \/ Write(p)

Next ==
  \/ \E p \in Process : Start(p) \/ Step(p) \/ FetchFails(p) \/ Crash(p)
  \/ Edit \/ TakeLock \/ ClearCache
  \/ \E r \in Repo : Advance(r)

Fairness == \A p \in Process : WF_vars(Step(p))

Spec == Init /\ [][Next]_vars /\ Fairness

-----------------------------------------------------------------------------
(* Properties                                                              *)

Pc == {"load", "resolve", "save", "write"} \cup AtRest

\* The types of what the processes share and of where they are.
TypeOK ==
  /\ config \in Configs
  /\ \A r \in Repo : remote[r] \in 1 .. MaxCommit[r]
  /\ \A n \in NameSet : clones[n] # NoClone =>
       /\ DOMAIN clones[n] = {"repo", "head", "fetched"} /\ clones[n].repo \in Repo
       /\ 1 <= clones[n].head /\ clones[n].head <= clones[n].fetched /\ clones[n].fetched <= remote[clones[n].repo]
  /\ \A p \in Process :
       /\ run[p].pc \in Pc
       /\ run[p].todo \cup run[p].processed \cup DOMAIN run[p].resolved \subseteq DOMAIN run[p].nodes
  /\ commands \in 0 .. MaxCommands /\ events \in 0 .. MaxEvents
  /\ updated \subseteq NameSet

Over(r) == r.pc \in {"save", "write", "done"}
Floats(url) == url.type = "git" /\ url.ref = NoRef

\* However far repositories advance, and whoever fetches into the same clones,
\* an input whose URL has no ref keeps the revision that the lock file had for
\* it, unless an update was given its name.
PinsHold ==
  \A p \in Process : LET r == run[p] IN
    Over(r) =>
      \A q \in DOMAIN r.resolved \cap Locked(r.loaded) :
        /\ Floats(r.resolved[q].url)
        /\ r.force = Unforced \/ Name(q) \notin r.force
        => r.resolved[q].rev = r.loaded.root[q].rev

\* The lock file a resolution is about to keep has, for every input and every
\* dependency it resolved, the revision it resolved and the URL it resolved it
\* from; only the URL of a path input that an update moved may be an old one.
LockRecordsResolution ==
  \A p \in Process : LET r == run[p] IN
    Over(r) =>
      \A q \in DOMAIN r.resolved :
        /\ q \in Locked(r.lock)
        /\ r.resolved[q].url.type = "git" => r.lock.root[q].rev = r.resolved[q].rev
        /\ r.lock.root[q].url = r.resolved[q].url
           \/ (r.force # Unforced /\ r.resolved[q].url.type = "path")

\* The same declarations, the lock file as it was kept and clones that hold the
\* same commits give the same inputs, and a lock file that need not be written.
Reproduced ==
  [][\A p \in Process : LET r == run'[p] IN
       /\ run[p].pc = "resolve" /\ Over(r)
       /\ r.force = Unforced /\ kept # NoFile
       /\ r.decls = kept.decls /\ r.loaded = kept.lock
       /\ \A q \in DOMAIN r.resolved \cap DOMAIN kept.resolved :
            r.resolved[q].tree = kept.resolved[q].tree
       => Outcome(r) = kept /\ ~r.changed]_vars

\* A URL returns on a chain of dependencies only right below itself: a cycle of
\* dependencies is entered once, however the inputs refer to one another.
CyclesCut ==
  \A p \in Process : LET nodes == run[p].nodes IN
    \A q \in DOMAIN nodes : \A r \in Prefixes(q) \ {q} :
      /\ r \in DOMAIN nodes
      /\ nodes[r].url = nodes[q].url /\ nodes[q].url # NoUrl => Len(q) = Len(r) + 1

\* Every resolution ends, with inputs or with an error, whatever dependencies
\* are declared and whatever the other process does to the clones.
ResolutionEnds ==
  (\E p \in Process : run[p].pc \notin AtRest) ~> (\A p \in Process : run[p].pc \in AtRest)

\* An update repeated while nothing has changed announces nothing, except for
\* dependencies that follow another input, since their own entries in the lock
\* file are compared with what they follow, and for path inputs whose entry is
\* an older URL's.
UpdateConverges ==
  [][\A p \in Process : LET r == run'[p] IN
       /\ run[p].pc = "resolve" /\ Over(r)
       /\ kept # NoFile /\ r.force # Unforced /\ r.force \subseteq updated
       /\ r.decls = kept.decls /\ r.old = kept.lock /\ r.loaded = kept.lock
       /\ \A q \in DOMAIN r.resolved \cap DOMAIN kept.resolved :
            r.resolved[q].tree = kept.resolved[q].tree
       => \A q \in Announced(r) :
            \/ Prefixes(q) \cap DOMAIN r.follows # {}
            \/ r.resolved[q].url.type = "path" /\ r.lock.root[q].url # r.resolved[q].url]_vars

\* However inputs follow one another, a namespace that code requires has one
\* source: everything on package.path that provides it agrees, and nothing
\* provides what the configuration's own directory does.
LookupsUnambiguous ==
  [][\A p \in Process : LET r == run'[p] IN
       run[p].pc = "resolve" /\ Over(r) =>
         \A a, b \in OnPackagePath(r.nodes, r.resolved, r.follows) :
           /\ Provided(a.dir) \cap Provided(b.dir) # {} => Source(a) = Source(b)
           /\ Provided(a.dir) \cap Trees[ConfigDir].namespaces = {}]_vars

=============================================================================
