----------------------------- MODULE InputGraph -----------------------------
(***************************************************************************)
(* The graph that input resolution builds, and the pure functions over it: *)
(* overrides, pinning by an input's own lock file, follows chains, the     *)
(* inputs each setup function is given, and the Lua namespaces.            *)
(*                                                                         *)
(* A path of the graph ("pkgs/utils") is the sequence of the names on it.  *)
(* A declaration is [url, inputs]: a URL, or NoUrl, and a function from    *)
(* names to overrides.  An override is [url |-> u] or [follows |-> path];  *)
(* a URL is [type |-> "git", repo, ref] or [type |-> "path", path].        *)
(***************************************************************************)
EXTENDS Naturals, Sequences

CONSTANTS
  NameOrder,         \* the names of inputs, in the order of their strings
  MaxFollowsDepth,
  NoUrl,
  NoRef,             \* a git URL without "#ref"
  NotATable          \* what stands where a table of inputs should

ASSUME GraphAssumption == MaxFollowsDepth \in Nat \ {0}

Empty == << >>       \* the function, map or path with nothing in it

-----------------------------------------------------------------------------
(* The shape of declarations                                               *)

IsUrl(url) ==
  CASE url.type = "git" -> DOMAIN url = {"type", "repo", "ref"}
    [] url.type = "path" -> DOMAIN url = {"type", "path"}

IsOverride(override) ==
  \/ DOMAIN override = {"url"} /\ IsUrl(override.url)
  \/ DOMAIN override = {"follows"}

IsDecl(decl) ==
  /\ DOMAIN decl = {"url", "inputs"}
  /\ decl.url = NoUrl \/ IsUrl(decl.url)
  /\ \A n \in DOMAIN decl.inputs : IsOverride(decl.inputs[n])

\* The inputs a configuration declares, and those that the init.lua of an input
\* does: where there is no table there are none.
extract_raw_inputs(inputs) == IF inputs = NotATable THEN Empty ELSE inputs
extract_input_decls_from_file(tree) == extract_raw_inputs(tree.inputs)

\* Those that `sys update` reads, which takes nothing but a table.
extract_input_decls(inputs) == {inputs} \ {NotATable}

-----------------------------------------------------------------------------
(* Paths                                                                   *)

Rank(name) == CHOOSE i \in 1 .. Len(NameOrder) : NameOrder[i] = name

\* Paths in the order of their strings, which is the order BTreeMap visits
\* them in (no name has a character that sorts before the slash).
Before(p, q) ==
  \E i \in 1 .. Len(q) :
    /\ i <= Len(p) + 1
    /\ \A j \in 1 .. i - 1 : p[j] = q[j]
    /\ i <= Len(p) => Rank(p[i]) < Rank(q[i])

First(paths) == {p \in paths : \A q \in paths \ {p} : Before(p, q)}

Name(path) == path[Len(path)]
Parent(path) == SubSeq(path, 1, Len(path) - 1)
Child(path, name) == Append(path, name)
Prefixes(path) == {SubSeq(path, 1, i) : i \in 1 .. Len(path)}

-----------------------------------------------------------------------------
(* The lock file                                                           *)

\* A node's label has a hash of its URL and its revision, so that the node is
\* known by it; a dependency is an input of the root too, under its whole path.
Label(path, url, rev) == [name |-> path, url |-> url, rev |-> rev]

\* The labels of the root's inputs by path, and the nodes there are.
EmptyLock == [root |-> Empty, nodes |-> {}]

\* The paths that LockFile::get finds an entry for.
Locked(lock) == {q \in DOMAIN lock.root : lock.root[q] \in lock.nodes}

\* Another revision is another node; the one before it stays behind.
add_root_input(lock, path, url, rev) ==
  LET label == Label(path, url, rev)
  IN [root |-> [q \in DOMAIN lock.root \cup {path} |-> IF q = path THEN label ELSE lock.root[q]],
      nodes |-> lock.nodes \cup {label}]

\* Once an input has been removed, so are all nodes that cannot be reached.
remove_root_inputs(lock, paths) ==
  IF paths \cap DOMAIN lock.root = {} THEN lock
  ELSE LET root == [q \in DOMAIN lock.root \ paths |-> lock.root[q]]
       IN [root |-> root, nodes |-> {root[q] : q \in DOMAIN root} \cap lock.nodes]

-----------------------------------------------------------------------------
(* Declarations and overrides                                              *)

IsFollows(override) == "follows" \in DOMAIN override

\* A URL override drops whatever the declaration overrides itself; a follows
\* override keeps the URL and is noted under a name of its own.
apply_override(decl, override) ==
  IF IsFollows(override)
  THEN [url |-> decl.url, inputs |-> [n \in {"__follows__"} |-> override]]
  ELSE [url |-> override.url, inputs |-> Empty]

inject_revision(url, rev) == IF url.type = "git" THEN [url EXCEPT !.ref = rev] ELSE url

\* What an input's own lock file makes of a declaration in its init.lua.
apply_input_lock(decl, name, lock) ==
  IF <<name>> \in Locked(lock) /\ decl.url # NoUrl
  THEN [url |-> inject_revision(lock.root[<<name>>].url, lock.root[<<name>>].rev),
        inputs |-> decl.inputs]
  ELSE decl

\* The declaration of a dependency as its parent in the graph sees it.
Overridden(parent, name, decl, lock) ==
  IF name \in DOMAIN parent.inputs THEN apply_override(decl, parent.inputs[name])
  ELSE apply_input_lock(decl, name, lock)

RootNodes(decls) == [p \in {<<n>> : n \in DOMAIN decls} |-> decls[p[1]]]

-----------------------------------------------------------------------------
(* Follows                                                                 *)

Follows(nodes, path) ==
  /\ Len(path) >= 2
  /\ Parent(path) \in DOMAIN nodes
  /\ Name(path) \in DOMAIN nodes[Parent(path)].inputs
  /\ IsFollows(nodes[Parent(path)].inputs[Name(path)])

HasTarget(nodes, done, path) == path \in DOMAIN done \/ Follows(nodes, path)

get_follows_target(nodes, done, path) ==
  IF path \in DOMAIN done THEN done[path] ELSE nodes[Parent(path)].inputs[Name(path)].follows

\* The hops from a target on, as many as the loop may take, over the follows
\* that are settled (done) and those that are pending.
Hops(nodes, done, target) ==
  LET hop[k \in 0 .. MaxFollowsDepth] ==
        IF k = 0 THEN target
        ELSE LET last == hop[k - 1]
             IN IF HasTarget(nodes, done, last)
                THEN get_follows_target(nodes, done, last) ELSE last
  IN hop

\* The numbers of hops at which a chain ends: at its target, or at "".
Ends(nodes, done, target) ==
  LET hop == Hops(nodes, done, target)
  IN {k \in 0 .. MaxFollowsDepth - 1 : hop[k] = Empty \/ ~HasTarget(nodes, done, hop[k])}

ChainError(nodes, done, target) ==
  LET hop == Hops(nodes, done, target)
      ends == Ends(nodes, done, target)
  IN IF ends # {}
     THEN IF \E k \in ends : hop[k] = Empty THEN "InvalidFollowsPath" ELSE "none"
     ELSE IF \E i, j \in 0 .. MaxFollowsDepth - 1 : i < j /\ hop[i] = hop[j]
          THEN "CircularFollows" ELSE "FollowsChainTooDeep"

ChainEnd(nodes, done, target) ==
  LET ends == Ends(nodes, done, target)
  IN Hops(nodes, done, target)[CHOOSE k \in ends : \A j \in ends : k <= j]

Sources(nodes) ==
  {s \in UNION {{Child(p, n) : n \in DOMAIN nodes[p].inputs} : p \in DOMAIN nodes} :
     Follows(nodes, s)}

-----------------------------------------------------------------------------
(* What resolution returns                                                 *)

Effective(follows, path) == IF path \in DOMAIN follows THEN follows[path] ELSE path

\* The inputs each setup is given, by path: the effective input of each child,
\* with the children of the path itself beneath.  One that is not resolved is
\* left out, with everything under it.
ResolvedInputs(nodes, resolved, follows) ==
  [p \in {q \in DOMAIN nodes :
            \A r \in Prefixes(q) : Effective(follows, r) \in DOMAIN resolved} |->
     resolved[Effective(follows, p)]]

\* What same_source compares.
Source(input) == <<input.url, input.rev>>

\* Mutant: dependencies are not scanned.
RootsOnly(resolved, follows) == {p \in DOMAIN resolved : Len(p) = 1}

Scanned(resolved, follows) == DOMAIN resolved \ DOMAIN follows

\* Those from which package.path, behind the configuration's own directory, has
\* a directory.
OnPackagePath(nodes, resolved, follows) ==
  LET inputs == ResolvedInputs(nodes, resolved, follows)
  IN {inputs[p] : p \in DOMAIN inputs}

=============================================================================
