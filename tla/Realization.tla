---------------------------- MODULE Realization ----------------------------
(***************************************************************************)
(* What running a definition means: the actions of a build in its store    *)
(* directory (build/execute.rs) and those of a bind in a temporary one     *)
(* (bind/execute.rs), with the placeholders each may use (placeholder.rs,  *)
(* execute/resolver.rs), over commands that may fail, be killed at any     *)
(* point and find builds damaged since.  Order and rollback are Executor's *)
(* and ApplyFlow's; here a command is as much of apply.rs as decides which *)
(* lists of actions run and what their placeholders resolve to.            *)
(*                                                                         *)
(* A string with placeholders is the set of its parts; a resolved string   *)
(* is the set of the atoms it is made of.                                  *)
(***************************************************************************)
EXTENDS Naturals, Sequences, FiniteSets

CONSTANTS
  Build, Bind,
  Deps,            \* the nodes a node's inputs refer to
  Old,             \* Old[b]: the bind that b updates, b itself if none
  Recipe,          \* Recipe[n][op]: the actions of n for op
  Outputs,         \* Outputs[n][o]: the pattern of an output that is text
  Content, FileName,   \* of a URL
  Environment,
  Configs,         \* the configurations that are applied, as their nodes
  NoFile, Junk,
  MaxCommands, MaxFaults   \* bounds

Node == Build \cup Bind
Empty == <<>>

VARIABLES
  store,           \* the build directories that are there
  saved,           \* the outputs in the state files of binds
  phase, wanted,   \* the running command: where it is, desired_manifest
  jobs,            \* the nodes whose actions are running
  done,            \* completed_builds and completed_binds
  ended,           \* pairs of an operation and a node, ended well
  broken,          \* and ended with an error
  commands, faults,
  failures,        \* history: those of the last command that no fault made fail
  spoiled          \* history: builds that were damaged with a marker that has no hash

disk == <<store, saved>>
command == <<phase, wanted, ended>>
history == <<commands, faults, failures, spoiled>>
vars == <<disk, command, jobs, done, broken, history>>

Put(f, x, new) == [y \in DOMAIN f \cup {x} |-> IF y = x THEN new ELSE f[y]]
Without(f, x) == [y \in DOMAIN f \ {x} |-> f[y]]

-----------------------------------------------------------------------------
(* Placeholders                                                            *)

\* A context: the results of the actions so far, the outputs of builds and of
\* binds, the directory $${{out}}, and what the store directories hold.  Outputs
\* that are not text are passed on as they are; a placeholder for one is an error,
\* as for one that is not there.
Offers(nodes, n, o) == n \in DOMAIN nodes /\ o \in DOMAIN nodes[n]

\* parse and Resolver::resolve_*: a part that is none of these is malformed.
Resolves(part, ctx) ==
  \/ part[1] \in {"text", "out"}
  \/ part[1] = "action" /\ part[2] + 1 \in DOMAIN ctx.results
  \/ part[1] = "build" /\ Offers(ctx.builds, part[2], part[3])
  \/ part[1] = "bind" /\ Offers(ctx.binds, part[2], part[3])
  \/ part[1] = "env" /\ part[2] \in DOMAIN Environment

Value(part, ctx) ==
  CASE part[1] = "text" -> {part}
    [] part[1] = "out" -> {ctx.out}
    [] part[1] = "action" -> ctx.results[part[2] + 1]
    [] part[1] = "build" -> ctx.builds[part[2]][part[3]]
    [] part[1] = "bind" -> ctx.binds[part[2]][part[3]]
    [] part[1] = "env" -> {<<"text", Environment[part[2]]>>}

CanSubstitute(pattern, ctx) == \A part \in pattern : Resolves(part, ctx)
substitute(pattern, ctx) == UNION {Value(part, ctx) : part \in pattern}

CanResolveOutputs(patterns, ctx) ==
  \A o \in DOMAIN patterns : CanSubstitute(patterns[o], ctx)
ResolveOutputs(patterns, ctx) ==
  [o \in DOMAIN patterns |-> substitute(patterns[o], ctx)]

\* A build has the output "out" unless it defines one of that name itself.
OutputsOf(n) ==
  IF n \in Build /\ "out" \notin DOMAIN Outputs[n]
  THEN Put(Outputs[n], "out", {<<"out">>})
  ELSE Outputs[n]

OutputsIn(n, ctx) == ResolveOutputs(OutputsOf(n), ctx)

-----------------------------------------------------------------------------
(* Actions                                                                 *)

\* A run of actions: their results and the files of the directory they run in.
NoRun == [results |-> Empty, files |-> Empty]

\* hash_directory, without the marker and anything called tmp
Hashed(files) == [p \in DOMAIN files \ {"tmp"} |-> files[p]]

\* What a command sees of the build directories, besides its own, that its text
\* names.
Seen(text, ctx) ==
  [b \in {b \in DOMAIN ctx.dirs : <<"dir", b>> \in text \ {ctx.out}} |->
     Hashed(ctx.dirs[b])]

CanDo(action, ctx) ==
  IF action.kind = "fetch" THEN Content[action.url] = action.sha256
                           ELSE CanSubstitute(action.text, ctx)

\* execute_fetch_url: a file of that name is written over, unless it has the
\* right hash already.
Fetched(action, run, ctx) ==
  [results |-> Append(run.results, {<<"file", ctx.out, FileName[action.url]>>}),
   files |-> Put(run.files, FileName[action.url], action.sha256)]

\* execute_cmd: tmp is there before the command, whose output and files depend
\* on its text and on what it sees.
Executed(action, run, ctx) ==
  LET text == substitute(action.text, ctx)
      said == <<"said", text, Seen(text, ctx)>>
      before == Put(run.files, "tmp", Empty)
  IN  [results |-> Append(run.results, {said}),
       files |-> IF action.writes = NoFile THEN before
                                           ELSE Put(before, action.writes, said)]

Do(action, run, ctx) ==
  IF action.kind = "fetch" THEN Fetched(action, run, ctx) ELSE Executed(action, run, ctx)

-----------------------------------------------------------------------------
(* The meaning of a definition: its actions run from an empty directory    *)
(* after those of its dependencies, with nothing failing.                  *)

With(ctx, run) == [ctx EXCEPT !.results = run.results]

DirOf(n) == IF n \in Build THEN <<"dir", n>> ELSE <<"temp", n>>

Patterns(n, op) == IF op \in {"destroy", "check"} THEN Empty ELSE OutputsOf(n)

ListOf(n, op) == Recipe[n][IF op \in {"build", "repair"} THEN "create" ELSE op]

\* A run, and whether all actions so far could be done; one action more.
Start == [ok |-> TRUE, run |-> NoRun]
Onward(action, r, ctx) ==
  IF r.ok /\ CanDo(action, With(ctx, r.run))
  THEN [ok |-> TRUE, run |-> Do(action, r.run, With(ctx, r.run))]
  ELSE [ok |-> FALSE, run |-> NoRun]

\* The runs of the first actions of a list.
Runs(list, ctx) ==
  LET run[i \in 0 .. Len(list)] ==
        IF i = 0 THEN Start ELSE Onward(list[i], run[i - 1], ctx)
  IN  run

\* Whether a list of actions runs to its end, and the run if it does.
RunAll(n, op, ctx) ==
  LET all == Runs(ListOf(n, op), ctx)[Len(ListOf(n, op))]
  IN  [all EXCEPT !.ok = @ /\ CanResolveOutputs(Patterns(n, op), With(ctx, all.run))]

\* The context of a node whose dependencies have given what given says, as far as
\* they could.
Scratch(n, given) ==
  LET before == {d \in DOMAIN given : given[d].ok}
      from(b) == CHOOSE d \in before : b \in DOMAIN given[d].dirs
  IN  [results |-> Empty, out |-> DirOf(n),
       dirs |-> [b \in UNION {DOMAIN given[d].dirs : d \in before} |-> given[from(b)].dirs[b]],
       builds |-> [b \in before \cap Build |-> given[b].outputs],
       binds |-> [b \in before \cap Bind |-> given[b].outputs]]

\* What the node gives then.
Meaning(n, given) ==
  LET ctx == Scratch(n, given)
      all == RunAll(n, "create", ctx)
  IN  [ok |-> all.ok,
       outputs |-> IF all.ok THEN OutputsIn(n, With(ctx, all.run)) ELSE Empty,
       dirs |-> IF n \in Build THEN Put(ctx.dirs, n, Hashed(all.run.files)) ELSE ctx.dirs]

Gives[n \in Node] == Meaning(n, [d \in Deps[n] |-> Gives[d]])

Fresh == [n \in Node |-> Gives[n]]

\* Manifests have two maps, a definition mentions no later one, and has the lists
\* of actions its kind has.
ASSUME RealizationAssumption ==
  /\ Build \cap Bind = {} /\ IsFiniteSet(Node)
  /\ \A n \in Node : Deps[n] \subseteq IF n \in Build THEN Build ELSE Node
  /\ \A nodes \in SUBSET Node : nodes # {} => \E n \in nodes : Deps[n] \cap nodes = {}
  /\ \A b \in Bind : Old[b] \in Bind
  /\ \A nodes \in Configs, n \in Node : n \in nodes => Deps[n] \subseteq nodes
  /\ MaxCommands \in Nat /\ MaxFaults \in Nat

ASSUME RecipeAssumption ==
  /\ \A n \in Node : \A op \in DOMAIN Recipe[n] : Len(Recipe[n][op]) \in Nat
  /\ \A n \in Node : "create" \in DOMAIN Recipe[n]
  /\ \A b \in Bind : "destroy" \in DOMAIN Recipe[b]
  /\ \A b \in Bind : Old[b] # b => "update" \in DOMAIN Recipe[b]

-----------------------------------------------------------------------------
(* The store                                                               *)

\* .syslua-complete is not there, not JSON, of an earlier version without
\* output_hash, or has it: a hash is the directory it was taken of.
NoMarker == <<"missing">>
Torn == <<"torn">>
Legacy == <<"legacy">>
HashOf(files) == <<"hash", Hashed(files)>>

EmptyDir == [files |-> Empty, marker |-> NoMarker]

\* A bug for the check to find: a marker is enough.
TrustMarker(dir) == dir.marker \notin {NoMarker, Torn}

verify_build_hash(dir) == dir.marker \in {Legacy, HashOf(dir.files)}

IsHit(n) == n \in DOMAIN store /\ verify_build_hash(store[n])

\* Builds of an earlier version may be there from the start.
Init ==
  /\ \E there \in SUBSET {b \in Build : Fresh[b].ok} :
       store = [b \in there |-> [files |-> Fresh[b].dirs[b], marker |-> Legacy]]
  /\ saved = Empty
  /\ phase = "idle" /\ wanted = {} /\ ended = {}
  /\ jobs = Empty /\ done = Empty /\ broken = {}
  /\ commands = 0 /\ faults = 0 /\ failures = {} /\ spoiled = {}

-----------------------------------------------------------------------------
(* Which lists run, and what their placeholders resolve to                 *)

\* build_restore_resolver_data takes a build's outputs as they are written,
\* with nothing but $${{out}} put in.
LiteralOutputs(b) ==
  [o \in DOMAIN OutputsOf(b) |->
     {IF part = <<"out">> THEN DirOf(b) ELSE part : part \in OutputsOf(b)[o]}]

Context(n, op) ==
  [results |-> Empty, out |-> DirOf(n),
   dirs |-> [b \in DOMAIN store |-> store[b].files],
   builds |-> CASE op \in {"build", "create"} -> [b \in DOMAIN done \cap Build |-> done[b]]
                [] op = "update" -> [b \in wanted \cap Build |-> LiteralOutputs(b)]
                [] OTHER -> Empty,
   binds |-> CASE op = "create" -> [b \in DOMAIN done \cap Bind |-> done[b]]
               [] op = "update" -> [b \in wanted \cap DOMAIN saved |-> saved[b]]
               [] OTHER -> Empty]

HasState(b) == b \in DOMAIN saved
Updated(b) == Old[b] # b /\ HasState(Old[b]) /\ Old[b] \notin wanted
Unchanged == {b \in wanted \cap Bind :
                HasState(b) /\ {<<"create", b>>, <<"update", b>>} \cap ended = {}}

\* A bug for the check to find: the execution manifest holds only the builds that
\* are not there.
ToRealizeAnew == {b \in wanted \cap Build : b \notin DOMAIN store \/ b \in DOMAIN jobs}

\* The execution manifest holds the builds that are there already as well, for
\* their outputs.
ToRealize == wanted \cap Build

\* What a phase of apply has to do: pairs of an operation and a node.
Work ==
  CASE phase = "destroy" ->
         {"destroy"} \X {o \in Bind \ wanted :
                           HasState(o) /\ ~ \E b \in wanted \cap Bind : Updated(b) /\ Old[b] = o}
    [] phase = "update" -> {"update"} \X {b \in wanted \cap Bind : Updated(b)}
    [] phase = "execute" ->
         ({"build"} \X ToRealize)
           \cup ({"create"} \X {b \in wanted \cap Bind : ~HasState(b)})
    [] phase = "check" ->
         {"check"} \X {b \in Unchanged : "check" \in DOMAIN Recipe[b]}
    [] phase = "repair" -> {"repair"} \X {b \in Bind : <<"drifted", b>> \in ended}
    [] OTHER -> {}

Left == Work \ (ended \cup broken)

-----------------------------------------------------------------------------
(* A command                                                               *)

\* A configuration holds what its definitions refer to.  When a directory is
\* there for each build and no bind is new, changed or gone, only drift is
\* looked for.
NoChange(nodes) ==
  /\ Bind \cap nodes = DOMAIN saved
  /\ Build \cap nodes \subseteq DOMAIN store

Begin(nodes) ==
  /\ phase = "idle" /\ commands < MaxCommands
  /\ phase' = (IF NoChange(nodes) THEN "check" ELSE "destroy")
  /\ wanted' = nodes /\ commands' = commands + 1 /\ failures' = {}
  /\ UNCHANGED <<disk, ended, jobs, done, broken, faults, spoiled>>

\* The job of an operation begins; a bind's has a temporary directory.  Tasks
\* of a wave may start after another has failed, those of later phases not.
StartJob(op, n, stage) ==
  jobs' = Put(jobs, n, [op |-> op, stage |-> stage, results |-> Empty, files |-> Empty])

Ready(op, n) ==
  /\ <<op, n>> \in Left /\ n \notin DOMAIN jobs
  /\ phase \in {"destroy", "update", "check"} => jobs = Empty
  /\ phase \in {"destroy", "update"} => broken = {}
  /\ \A work \in Work : phase = "execute" /\ work[2] \in Deps[n] => work \in ended

StartBind(op, n) ==
  /\ Ready(op, n) /\ n \in Bind
  /\ StartJob(op, n, "run")
  /\ UNCHANGED <<disk, command, done, broken, history>>

\* A complete build is taken as it is, its outputs resolved with no results of
\* actions.  Anything else that is there is removed first.
Hit(n) ==
  /\ Ready("build", n) /\ IsHit(n)
  /\ IF CanResolveOutputs(OutputsOf(n), Context(n, "build"))
     THEN /\ done' = Put(done, n, OutputsIn(n, Context(n, "build")))
          /\ ended' = ended \cup {<<"build", n>>}
          /\ UNCHANGED <<broken, failures>>
     ELSE /\ broken' = broken \cup {<<"build", n>>}
          /\ failures' = failures \cup {<<"build", n>>}
          /\ UNCHANGED <<done, ended>>
  /\ UNCHANGED <<disk, phase, wanted, jobs, commands, faults, spoiled>>

StartBuild(n) ==
  /\ Ready("build", n) /\ ~IsHit(n)
  /\ StartJob("build", n, "clear")
  /\ UNCHANGED <<disk, command, done, broken, history>>

\* What remove_dir_all may leave when it has only begun.
Lessened(dir) ==
  {[files |-> [p \in kept |-> dir.files[p]], marker |-> m]
     : kept \in SUBSET DOMAIN dir.files, m \in {dir.marker, NoMarker}}

RemovePart(n) ==
  /\ n \in DOMAIN jobs /\ jobs[n].stage = "clear" /\ n \in DOMAIN store
  /\ \E left \in Lessened(store[n]) \ {store[n]} : store' = [store EXCEPT ![n] = left]
  /\ UNCHANGED <<saved, command, jobs, done, broken, history>>

\* remove_dir_all is done, and create_dir_all.
Clear(n) ==
  /\ n \in DOMAIN jobs /\ jobs[n].stage = "clear"
  /\ store' = Put(store, n, EmptyDir)
  /\ jobs' = [jobs EXCEPT ![n].stage = "run"]
  /\ UNCHANGED <<saved, command, done, broken, history>>

RunOf(n) ==
  [results |-> jobs[n].results,
   files |-> IF n \in Build THEN store[n].files ELSE jobs[n].files]
Now(n) == With(Context(n, jobs[n].op), jobs[n])

Running(n) == n \in DOMAIN jobs /\ jobs[n].stage = "run"
NextAction(n) == ListOf(n, jobs[n].op)[Len(jobs[n].results) + 1]
MoreToDo(n) == Len(jobs[n].results) < Len(ListOf(n, jobs[n].op))

RunAction(n) ==
  /\ Running(n) /\ MoreToDo(n) /\ CanDo(NextAction(n), Now(n))
  /\ LET run == Do(NextAction(n), RunOf(n), Now(n))
     IN  IF n \in Build
         THEN /\ store' = [store EXCEPT ![n].files = run.files]
              /\ jobs' = [jobs EXCEPT ![n].results = run.results]
         ELSE /\ jobs' = [jobs EXCEPT ![n].results = run.results, ![n].files = run.files]
              /\ UNCHANGED store
  /\ UNCHANGED <<saved, command, done, broken, history>>

\* The marker is created, and then written.
Mark(n) ==
  /\ Running(n) /\ n \in Build /\ ~MoreToDo(n) /\ CanResolveOutputs(OutputsOf(n), Now(n))
  /\ store' = [store EXCEPT ![n].marker = Torn]
  /\ jobs' = [jobs EXCEPT ![n].stage = "mark"]
  /\ UNCHANGED <<saved, command, done, broken, history>>

FinishBuild(n) ==
  /\ n \in DOMAIN jobs /\ jobs[n].stage = "mark"
  /\ store' = [store EXCEPT ![n].marker = HashOf(store[n].files)]
  /\ done' = Put(done, n, OutputsIn(n, Now(n)))
  /\ ended' = ended \cup {<<"build", n>>}
  /\ jobs' = Without(jobs, n)
  /\ UNCHANGED <<saved, phase, wanted, broken, history>>

StatesWithout(gone) == [b \in DOMAIN saved \ gone |-> saved[b]]

\* The bind states of an update are saved at once, those of a repair as well,
\* the others when all have been applied.
Saved(op, n, outputs) ==
  CASE op = "update" -> Put(StatesWithout({Old[n]}), n, outputs)
    [] op = "repair" -> Put(saved, n, outputs)
    [] OTHER -> saved

\* What a check's command prints is the system's affair; of drift only what is
\* to be repaired matters.
FinishBind(n) ==
  /\ Running(n) /\ n \in Bind /\ ~MoreToDo(n)
  /\ CanResolveOutputs(Patterns(n, jobs[n].op), Now(n))
  /\ saved' = Saved(jobs[n].op, n, OutputsIn(n, Now(n)))
  /\ done' = IF jobs[n].op = "create" THEN Put(done, n, OutputsIn(n, Now(n))) ELSE done
  /\ \E drifted \in IF jobs[n].op = "check" THEN BOOLEAN ELSE {FALSE} :
       ended' = ended \cup {<<jobs[n].op, n>>}
                      \cup (IF drifted THEN {<<"drifted", n>>} ELSE {})
  /\ jobs' = Without(jobs, n)
  /\ UNCHANGED <<store, phase, wanted, broken, history>>

Break(n) ==
  /\ broken' = broken \cup {<<jobs[n].op, n>>}
  /\ jobs' = Without(jobs, n)
  /\ UNCHANGED <<disk, command, done, commands, spoiled>>

\* A placeholder has nothing to stand for, or a download is not what it should
\* be.
Fail(n) ==
  /\ Running(n)
  /\ IF MoreToDo(n) THEN ~CanDo(NextAction(n), Now(n))
     ELSE ~CanResolveOutputs(Patterns(n, jobs[n].op), Now(n))
  /\ failures' = failures \cup {<<jobs[n].op, n>>}
  /\ Break(n) /\ UNCHANGED faults

\* A download or a command fails of itself.
ActionFails(n) ==
  /\ Running(n) /\ MoreToDo(n) /\ faults < MaxFaults
  /\ faults' = faults + 1
  /\ Break(n) /\ UNCHANGED failures

\* An error of a drift check is logged and no more; any other ends the command,
\* that of a repair at once.
Forget == ended' = {} /\ jobs' = Empty /\ done' = Empty /\ broken' = {} /\ wanted' = {}

End ==
  /\ phase \notin {"idle", "check"} /\ broken # {}
  /\ phase = "repair" \/ jobs = Empty
  /\ phase' = "idle" /\ Forget
  /\ UNCHANGED <<disk, history>>

After == [destroy |-> "update", update |-> "execute", execute |-> "check",
          check |-> "repair", repair |-> "idle"]

\* A phase is over.  With the last of the binds applied, the state files are
\* written and those of destroyed binds removed.
Advance ==
  /\ phase # "idle" /\ Left = {} /\ jobs = Empty
  /\ broken = {} \/ phase = "check"
  /\ phase' = After[phase]
  /\ saved' = IF phase # "execute" THEN saved
              ELSE LET gone == {o \in Bind : <<"destroy", o>> \in ended}
                       kept == DOMAIN saved \ gone
                   IN  [b \in (DOMAIN done \cap Bind) \cup kept |->
                          IF b \in DOMAIN done THEN done[b] ELSE saved[b]]
  /\ IF phase = "repair" THEN Forget
     ELSE broken' = {} /\ UNCHANGED <<ended, jobs, done, wanted>>
  /\ UNCHANGED <<store, history>>

\* The process is killed.
Crash ==
  /\ phase # "idle" /\ faults < MaxFaults
  /\ faults' = faults + 1
  /\ phase' = "idle" /\ Forget
  /\ UNCHANGED <<disk, commands, failures, spoiled>>

\* Between commands a build is damaged: a file changed, gone or new, the marker
\* cut.  A marker without a hash does not tell of files.
Damage(n) ==
  /\ phase = "idle" /\ faults < MaxFaults /\ n \in DOMAIN store
  /\ faults' = faults + 1
  /\ \/ /\ \E p \in (DOMAIN store[n].files \cup {NoFile}) \ {"tmp"} :
             \/ store' = [store EXCEPT ![n].files = Put(@, p, Junk)]
             \/ store' = [store EXCEPT ![n].files = Without(@, p)]
        /\ spoiled' = spoiled \cup {b \in {n} : store[b].marker = Legacy}
     \/ /\ store[n].marker # NoMarker
        /\ store' = [store EXCEPT ![n].marker = Torn]
        /\ UNCHANGED spoiled
  /\ UNCHANGED <<saved, command, jobs, done, broken, commands, failures>>

Next ==
  \/ \E nodes \in Configs : Begin(nodes)
  \/ \E n \in Bind, op \in {"destroy", "update", "create", "check", "repair"} :
       StartBind(op, n)
  \/ \E n \in Build :
       Hit(n) \/ StartBuild(n) \/ RemovePart(n) \/ Clear(n) \/ Mark(n) \/ FinishBuild(n) \/ Damage(n)
  \/ \E n \in Node : RunAction(n) \/ Fail(n) \/ ActionFails(n)
  \/ \E n \in Bind : FinishBind(n)
  \/ End \/ Advance \/ Crash

Spec == Init /\ [][Next]_vars

-----------------------------------------------------------------------------
(* Properties                                                              *)

Mentions(pattern) == {part[2] : part \in {p \in pattern : p[1] \in {"build", "bind"}}}

\* What a definition mentions is what its inputs refer to.
MentionsAreDeps ==
  \A n \in Node :
    /\ \A o \in DOMAIN OutputsOf(n) : Mentions(OutputsOf(n)[o]) \subseteq Deps[n]
    /\ \A op \in DOMAIN Recipe[n] \cap {"create", "update"} :
         \A i \in 1 .. Len(Recipe[n][op]) :
           Recipe[n][op][i].kind # "fetch" => Mentions(Recipe[n][op][i].text) \subseteq Deps[n]

\* The nodes that are not made, however indirectly, of a build that was damaged
\* while its marker had no hash.
Untouched ==
  UNION {nodes \in SUBSET (Node \ spoiled) : \A n \in nodes : Deps[n] \subseteq nodes}

\* What a command holds a node to have given is what its recipe gives from
\* scratch, whatever was left in the store by a command that was killed, by one
\* that failed, or damaged since; and the directory of a build holds just what
\* its actions put there (build/execute.rs:264).  This is not so of what is made
\* of a build damaged while its marker was of an earlier version, without a hash:
\* the code takes such a build unverified (build/execute.rs:88).
LikeFresh ==
  \A n \in DOMAIN done \cap Untouched :
    /\ Fresh[n].ok /\ done[n] = Fresh[n].outputs
    /\ n \in Build => n \in DOMAIN store /\ Hashed(store[n].files) = Fresh[n].dirs[n]

MentionsAction(patterns) ==
  \E o \in DOMAIN patterns : \E p \in patterns[o] : p[1] = "action"

\* The context of an operation that is given no builds and no binds.
Nothing(n) ==
  [results |-> Empty, out |-> DirOf(n), dirs |-> Empty, builds |-> Empty, binds |-> Empty]

\* That of an update whose dependencies are all there; what else it is made of
\* does not matter to whether placeholders resolve.
Planned(n) ==
  [Nothing(n) EXCEPT !.builds = [b \in Deps[n] \cap Build |-> OutputsOf(b)],
                     !.binds = [b \in Deps[n] \cap Bind |-> OutputsOf(b)]]

\* Without an action failing, an operation fails only because of what its
\* definition says, and never because of what is in the store: its recipe can
\* not run at all, its context is one that lacks builds and binds, it is a build
\* taken from the store whose outputs mention an action, a new bind that refers
\* to one that is not new, or an update that refers to one that is
\* (execute/apply.rs:849).
FailsByItself ==
  \A f \in failures : LET op == f[1] n == f[2] IN
    \/ op \in {"build", "create"} /\ ~Fresh[n].ok
    \/ op \in {"destroy", "check", "repair"} /\ ~RunAll(n, op, Nothing(n)).ok
    \/ op = "update" /\ ~RunAll(n, op, Planned(n)).ok
    \/ op = "update" /\ \E d \in Deps[n] \cap Bind : d \notin DOMAIN saved
    \/ op = "build" /\ MentionsAction(OutputsOf(n))
    \/ op = "create" /\ \E d \in Deps[n] \cap Bind : d \in DOMAIN saved

=============================================================================
