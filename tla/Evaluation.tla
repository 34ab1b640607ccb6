----------------------------- MODULE Evaluation -----------------------------
(***************************************************************************)
(* Evaluation of a configuration into a manifest (eval.rs): the chunk of   *)
(* the configuration, the setups of its inputs and the configuration's own *)
(* setup run one after the other in one Lua state.  Any of that code may   *)
(* call sys.build and sys.bind, whose functions (inputs, create, update,   *)
(* destroy, check) may call them again; and any of it may raise an error,  *)
(* which pcall may catch.                                                  *)
(*                                                                         *)
(* The hash of a definition is the definition itself without its check,    *)
(* so that equal hashes are equal contents; the manifest is the set of its *)
(* definitions.  A definition holds the hashes its inputs refer to by  *)
(* a table (refs), which are looked up, and those that a placeholder in an *)
(* input string, an output or an action names (uses), which are not.       *)
(***************************************************************************)
EXTENDS InputGraph, LuaHelpers, LuaValues

CONSTANTS
  ConfigDir,
  Resolutions,       \* what resolution may return: a directory for each path
  Inits,             \* the directories with an init.lua
  Id, NoId,
  Content,           \* everything else a definition holds
  Check, NoCheck,
  Wanted(_),         \* bound: the definitions that programs make
  MaxCalls,          \* bound: calls of sys.build and sys.bind
  MaxDepth           \* bound: calls within one another

\* What ResolvedInputs returns has, with a path, all paths on the way to it.
Tree(resolved) ==
  \A q \in DOMAIN resolved :
    /\ q \in Seq({NameOrder[i] : i \in DOMAIN NameOrder}) /\ q # Empty
    /\ Prefixes(q) \subseteq DOMAIN resolved

ASSUME BoundsAssumption == MaxCalls \in Nat /\ MaxDepth \in Nat
ASSUME ResolutionsAssumption == \A resolved \in Resolutions : Tree(resolved)

VARIABLES
  pc, inputs,
  at,                \* the path of the input being visited, Empty for the root
  visited,           \* the inputs visited, in order
  dir,               \* sys.dir
  stack,             \* the calls of sys.build and sys.bind under way
  manifest,
  handles,           \* the hashes in the references that calls have returned
  calls,
  last,              \* for a kind and an id, the hash that last came of it
  replaced           \* hashes of definitions that were to be replaced

code == <<pc, inputs, at, visited, dir>>
ghosts == <<last, replaced>>
vars == <<code, stack, manifest, handles, calls, ghosts>>

HashOf(def) ==
  [kind |-> def.kind, id |-> def.id, refs |-> def.refs, uses |-> def.uses,
   content |-> def.content]
Hashes(defs) == {HashOf(d) : d \in defs}

Init ==
  /\ pc = "config" /\ inputs = Empty /\ at = Empty /\ visited = Empty
  /\ dir = ConfigDir
  /\ stack = Empty /\ manifest = {} /\ handles = {} /\ calls = 0
  /\ last = Empty /\ replaced = {}

-----------------------------------------------------------------------------
(* sys.build and sys.bind                                                  *)

Running == pc \in {"config", "setup", "root"}

Top == stack[Len(stack)]
Popped == SubSeq(stack, 1, Len(stack) - 1)

\* What a call is told: a build or a bind, with an id or none, to replace or not.
Specs ==
  [kind : {"build", "bind"}, id : Id \cup {NoId}, replace : BOOLEAN,
   refs : {{}}, stage : {"inputs"}]

\* A call begins: its specification is read and its inputs function, if any, runs.
Call ==
  /\ Running /\ calls < MaxCalls /\ Len(stack) < MaxDepth
  /\ \E spec \in Specs : stack' = Append(stack, spec)
  /\ calls' = calls + 1
  /\ UNCHANGED <<code, manifest, handles, ghosts>>

\* The references that inputs may make by a table: they are in the manifest by
\* now, and those of a build are builds.
Referable(kind) ==
  {h \in handles \cap Hashes(manifest) : kind = "build" => h.kind = "build"}

\* The inputs are settled, and the other functions of the call are next.
TakeInputs ==
  /\ stack # Empty /\ Top.stage = "inputs"
  /\ \E refs \in SUBSET Referable(Top.kind) :
       stack' = Append(Popped, [Top EXCEPT !.refs = refs, !.stage = "create"])
  /\ UNCHANGED <<code, manifest, handles, calls, ghosts>>

\* What from_spec may make of the call; only a bind has a check.
Made(call) ==
  {def \in [kind : {call.kind}, id : {call.id}, refs : {call.refs},
             uses : SUBSET handles, content : Content, check : Check \cup {NoCheck}] :
     Wanted(def) /\ (call.kind = "build" => def.check = NoCheck)}

\* Mutants: the old definition stays; a definition takes the place of another
\* without being told to.
OldStays(def) == {}
Never(def, replace) == FALSE

\* The definition in the manifest that has this one's kind and id.
Existing(def) == {d \in manifest : d.kind = def.kind /\ d.id = def.id /\ def.id # NoId}

Collides(def, replace) == Existing(def) # {} /\ ~replace

Known(def) == HashOf(def) \in Hashes(manifest)

\* A definition with the hash of another is that one, whatever its check; one
\* with the id of another replaces it if the call says so.
Register(def, replace) ==
  /\ Known(def) \/ ~Collides(def, replace)
  /\ manifest' = IF Known(def) THEN manifest ELSE (manifest \ Existing(def)) \cup {def}
  /\ handles' = handles \cup {HashOf(def)}

Noted(def, replace) ==
  /\ last' = IF def.id = NoId THEN last
             ELSE [k \in DOMAIN last \cup {<<def.kind, def.id>>} |->
                     IF k = <<def.kind, def.id>> THEN HashOf(def) ELSE last[k]]
  /\ replaced' = IF replace /\ ~Known(def)
                 THEN replaced \cup {h \in Hashes(manifest) :
                        h.kind = def.kind /\ h.id = def.id /\ h.id # NoId}
                 ELSE replaced

\* The functions of the call have run, and it returns a reference.
Return ==
  /\ stack # Empty /\ Top.stage = "create"
  /\ \E def \in Made(Top) : Register(def, Top.replace) /\ Noted(def, Top.replace)
  /\ stack' = Popped
  /\ UNCHANGED <<code, calls>>

\* The call fails: a function of its raises, or returns what it must not; a
\* reference is unknown, a build's inputs refer to a bind, an id is taken.
Raise ==
  /\ stack # Empty
  /\ stack' = Popped
  /\ UNCHANGED <<code, manifest, handles, calls, ghosts>>

-----------------------------------------------------------------------------
(* evaluate_config                                                         *)

rest == <<stack, manifest, handles, calls, ghosts>>

\* The chunk has returned a table with a setup function.
ResolveInputs ==
  /\ pc = "config" /\ stack = Empty
  /\ \E resolved \in Resolutions :
       /\ inputs' = resolved
       /\ pc' = IF resolved = Empty THEN "root" ELSE "visit"
  /\ UNCHANGED <<at, visited, dir, rest>>

HaveBeen == {visited[i] : i \in DOMAIN visited}

\* The inputs, at any depth, in the table that the setup of an input is given.
Given(path) == {q \in DOMAIN inputs : Len(q) > Len(path) /\ path \in Prefixes(q)}

\* Mutant: the dependencies of inputs are forgotten.
OnlyRoots(path) == {q \in DOMAIN inputs : Len(q) = 1 /\ Parent(q) = path} \ HaveBeen

\* The dependencies that call_input_setup_recursive has still to visit.
Ahead(path) ==
  {q \in DOMAIN inputs : q # Empty /\ Parent(q) = path} \ HaveBeen

\* Dependencies first, by name; then load_file sets sys.dir and the input's
\* init.lua runs.  The configuration's setup is last.
Visit ==
  /\ pc = "visit"
  /\ \/ \E q \in First(Ahead(at)) : at' = q /\ UNCHANGED <<pc, visited, dir>>
     \/ /\ Ahead(at) = {} /\ at # Empty
        /\ IF inputs[at] \in Inits
           THEN pc' = "setup" /\ dir' = inputs[at] /\ UNCHANGED <<at, visited>>
           ELSE /\ visited' = Append(visited, at) /\ at' = Parent(at)
                /\ UNCHANGED <<pc, dir>>
     \/ Ahead(at) = {} /\ at = Empty /\ pc' = "root" /\ UNCHANGED <<at, visited, dir>>
  /\ UNCHANGED <<inputs, rest>>

\* The input's chunk, and its setup where there is one, have run.
EndSetup ==
  /\ pc = "setup" /\ stack = Empty
  /\ pc' = "visit" /\ visited' = Append(visited, at) /\ at' = Parent(at)
  /\ UNCHANGED <<inputs, dir, rest>>

EndRoot ==
  /\ pc = "root" /\ stack = Empty
  /\ pc' = "done"
  /\ UNCHANGED <<inputs, at, visited, dir, rest>>

\* An error that nothing catches; there is no manifest.
Fail ==
  /\ pc \notin {"done", "failed"} /\ stack = Empty
  /\ pc' = "failed"
  /\ UNCHANGED <<inputs, at, visited, dir, rest>>

Next ==
  \/ Call \/ TakeInputs \/ Return \/ Raise
  \/ ResolveInputs \/ Visit \/ EndSetup \/ EndRoot \/ Fail

Spec == Init /\ [][Next]_vars

-----------------------------------------------------------------------------
(* Properties                                                              *)

\* The types, the hashes of the manifest tell its definitions apart, and every
\* definition in it was handed out.
TypeOK ==
  /\ pc \in {"config", "visit", "setup", "root", "done", "failed"}
  /\ at = Empty \/ at \in DOMAIN inputs
  /\ HaveBeen \subseteq DOMAIN inputs
  /\ Len(stack) <= MaxDepth /\ (stack # Empty => Running)
  /\ calls \in 0 .. MaxCalls
  /\ Hashes(manifest) \subseteq handles
  /\ \A d, e \in manifest : HashOf(d) = HashOf(e) => d = e

\* However calls are nested, repeated and abandoned, the manifest has for each
\* kind and id exactly the definition (up to its check) that the last call to
\* return with that id made.
LastWins ==
  \A k \in DOMAIN last :
    {HashOf(d) : d \in {e \in manifest : <<e.kind, e.id>> = k}} = {last[k]}

\* Everything that was handed out, and so everything that a definition of the
\* manifest refers to, is in the manifest, unless a call with replace = true has
\* put another definition of its kind and id in its place.
NothingDangles ==
  /\ handles \subseteq Hashes(manifest) \cup replaced
  /\ \A d \in manifest : d.refs \cup d.uses \subseteq handles

\* The setup of an input runs once for each of its paths, and after the setups
\* of all inputs it is given; the configuration's runs after all of them.
SetupsNested ==
  /\ \A i \in DOMAIN visited : Given(visited[i]) \subseteq {visited[j] : j \in 1 .. i - 1}
  /\ \A i, j \in DOMAIN visited : visited[i] = visited[j] => i = j
  /\ pc = "root" => HaveBeen = DOMAIN inputs

\* Wherever code runs, sys.path.resolve gives the absolute path, without "." and
\* "..", of where the segments lead one after the other; normalize a path that
\* leads where its argument does, unless that climbs; relative the way between
\* paths that are both absolute or both relative, once they are normalized; and
\* a path is found again from its directory and its name (path.rs:9-162).
PathsLead ==
  Running => Misresolved = {} /\ Misnormalized = {} /\ Misled = {} /\ Misjoined = {}

\* Through the ends of months, leap years and centuries, the last second of a
\* day is one second before the first of the next in sys.mktime (globals.rs:60).
DaysFollow == Running => Mistimed = {}

\* The functions of a bind are given its outputs as they were made, through nested
\* tables and gaps of arrays, and its inputs with the same at every key but that an
\* integer has become the float equal to it.  No table may have keys of both kinds,
\* inputs no gaps, and no integer that is not a float, too (bind/lua.rs:62-112,
\* 150-172, outputs/lua.rs:7-96).
ValuesComeBack == Running => LostOutputs = {} /\ LostInputs = {}

=============================================================================
