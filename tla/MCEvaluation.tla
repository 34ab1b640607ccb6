---------------------------- MODULE MCEvaluation ----------------------------
(* An input that is also the dependency of another, under a path of its    *)
(* own: its init.lua runs twice.  The directory of a third has none.  The  *)
(* helpers of the same Lua state are checked beside it.                    *)
EXTENDS Evaluation, TLC

CONSTANTS dirLib, dirPkgs, dirData

MCNames == <<"data", "lib", "pkgs">>
MCInputs ==
  <<"data">> :> dirData @@ <<"lib">> :> dirLib @@
  <<"pkgs">> :> dirPkgs @@ <<"pkgs", "lib">> :> dirLib
MCResolutions == {Empty, MCInputs}

\* Programs name at most one other definition in each way.
MCWanted(def) == Cardinality(def.refs) <= 1 /\ Cardinality(def.uses) <= 1

\* Paths of up to four components, with every mixture of names, "." and "..".
MCPaths ==
  LET tails == UNION {[1 .. n -> {"usr", "lib", ".."}] : n \in 0 .. 3}
  IN tails \cup {<<"/">> \o t : t \in tails} \cup {<<".">> \o t : t \in tails}
MCWorkingDir == {Empty, <<"usr">>, <<"home", "usr">>}

\* Around the epoch, leap years and centuries of both kinds, the first years.
MCYears == (1 .. 5) \cup (1898 .. 1904) \cup (1968 .. 1973) \cup (1999 .. 2001) \cup (2099 .. 2101)

\* Tables of up to five keys, whose integers may have a gap and are the texts of
\* other keys, and tables of smaller ones.  With three digits 9 and -11 are halfway
\* between two floats.
MCValues ==
  LET keys == {Index(1), Index(2), Index(4), Text(1), Text(3)}
      leaves == {[type |-> "scalar", is |-> "x"], [type |-> "function"]}
      numbers == {Integer(5), Integer(8), Integer(9), Integer(-11), Number(5), [type |-> "infinite"]}
      tables(n, parts) ==
        {Table(t) : t \in UNION {[ks -> parts] : ks \in {d \in SUBSET keys : Cardinality(d) <= n}}}
  IN leaves \cup tables(5, leaves) \cup tables(2, leaves \cup tables(1, leaves))
       \cup tables(1, tables(5, leaves))
       \cup numbers \cup tables(2, numbers) \cup tables(1, tables(2, numbers))

=============================================================================
