------------------------------ MODULE MCInputs ------------------------------
(* Four repositories' worth of hard cases in three: a library whose second *)
(* commit depends on the package set that depends on it, a fork of the     *)
(* library under the same name, and a package set that pins the library    *)
(* in a lock file of its own from its second commit on.                    *)
EXTENDS InputResolution, TLC

CONSTANTS A, B, P, cfg, x, y, dotX, dotY, sub

Git(repo, ref) == [type |-> "git", repo |-> repo, ref |-> ref]
Path(path) == [type |-> "path", path |-> path]
Url(url) == [url |-> url, inputs |-> Empty]
One(name, value) == name :> value
Commits(repo, n) == [repo |-> repo, n |-> n]
Tree(inputs, lock, namespaces) == [inputs |-> inputs, lock |-> lock, namespaces |-> namespaces]

Pinned(path, url, rev) == add_root_input(EmptyLock, path, url, rev)

MCNames == <<"__follows__", "lib", "pkgs">>

PlainLib == Tree(Empty, EmptyLock, {"lib"})
UsesLib(lock) == Tree(One("lib", Url(Git(A, NoRef))), lock, {"pkgs"})
Bare == Tree(Empty, EmptyLock, {})

MCTrees ==
  Commits(A, 1) :> PlainLib @@
  Commits(A, 2) :> Tree(One("pkgs", Url(Git(P, NoRef))), EmptyLock, {"lib"}) @@
  Commits(B, 1) :> PlainLib @@
  Commits(P, 1) :> UsesLib(EmptyLock) @@
  Commits(P, 2) :> UsesLib(Pinned(<<"lib">>, Git(A, NoRef), Commits(A, 1))) @@
  cfg :> Bare @@ sub :> Bare @@
  y :> Tree(NotATable, EmptyLock, {}) @@
  x :> Tree(One("lib", Url(Path(dotX))), EmptyLock, {})

MCLocated == <<cfg, dotX>> :> x @@ <<cfg, dotY>> :> y @@ <<x, dotX>> :> sub

Both ==
  "lib" :> Url(Git(A, Branch)) @@
  "pkgs" :> [url |-> Git(P, NoRef), inputs |-> One("lib", [url |-> Git(A, Branch)])]
Followed ==
  "lib" :> Url(Git(B, NoRef)) @@
  "pkgs" :> [url |-> Git(P, NoRef), inputs |-> One("lib", [follows |-> <<"lib">>])]
Here == One("pkgs", Url(Path(dotX)))

MCConfigs == {Both, Followed, Here, NotATable}

MCTeammates ==
  {add_root_input(Pinned(<<"lib">>, Git(A, Branch), Commits(A, 1)),
                  <<"pkgs">>, Git(P, NoRef), Commits(P, 1))}

MCUpdates == {<<{}, FALSE>>, <<{"lib"}, TRUE>>}

MCCommits == [r \in {A, B, P} |-> IF r = B THEN 1 ELSE 2]

=============================================================================
