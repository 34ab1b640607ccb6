------------------------------ MODULE LuaValues ------------------------------
(***************************************************************************)
(* The values that a definition takes over from the functions of a bind    *)
(* and hands on to those that run later: its inputs (bind/lua.rs) and the  *)
(* outputs of its create (outputs/lua.rs).                                 *)
(*                                                                         *)
(* A Lua value is [type |-> "scalar", is], a text or a truth value; an     *)
(* "integer" or a "number", which is what Lua calls a float, with n (the   *)
(* numbers that matter here have no fraction); "infinite", which stands    *)
(* for what is no finite number; a "function", which stands for all that   *)
(* nothing can be made of; or a "table" with at, a function from keys.     *)
(* What is stored is one of the first three, Nil, an array with its items, *)
(* or an object with its fields.  The texts of keys are known by numbers,  *)
(* so that Text(1) is the text of Index(1).                                *)
(***************************************************************************)
EXTENDS Integers, Sequences, FiniteSets

CONSTANTS
  Values,            \* bound: the values, with all the parts of each of them
  MantissaDigits     \* bound: the bits of a float that count, 53 of them in the code

Index(n) == [kind |-> "int", n |-> n]
Text(n) == [kind |-> "text", n |-> n]

Nil == [type |-> "nil"]
Refused == [type |-> "refused"]
Integer(n) == [type |-> "integer", n |-> n]
Number(n) == [type |-> "number", n |-> n]
Table(entries) == [type |-> "table", at |-> entries]

\* A value and all that are in it.
Inside[v \in Values] ==
  {v} \cup IF v.type = "table" THEN UNION {Inside[v.at[k]] : k \in DOMAIN v.at} ELSE {}

Tables == {v \in Values : v.type = "table"}
Parts(v) == {v.at[k] : k \in DOMAIN v.at}

\* Tables are finite, and none is in itself: the code would not come to an end.
ASSUME ValuesAssumption ==
  /\ MantissaDigits \in Nat
  /\ \A v \in Values :
       /\ v.type \in {"scalar", "integer", "number", "infinite", "function", "table"}
       /\ v.type \in {"integer", "number"} => v.n \in Int
       /\ IsFiniteSet(Inside[v]) /\ v \in Inside[v]
  /\ UNION {Parts(v) : v \in Tables} \subseteq Values
  /\ \A v \in Tables :
       /\ v = Table([k \in DOMAIN v.at |-> v.at[k]]) /\ IsFiniteSet(DOMAIN v.at)
       /\ \A k \in DOMAIN v.at : k.n \in Int /\ k \in {Index(k.n), Text(k.n)}
       /\ \A part \in Parts(v) : Inside[part] \subseteq Inside[v] \ {v}

Array(items) ==
  IF \E i \in DOMAIN items : items[i] = Refused THEN Refused
  ELSE [type |-> "array", items |-> items]
Object(fields) ==
  IF \E n \in DOMAIN fields : fields[n] = Refused THEN Refused
  ELSE [type |-> "object", fields |-> fields]

Present(entries, i) == Index(i) \in DOMAIN entries

\* The texts of all keys: an integer is turned into its text.
Texts(entries) == {k.n : k \in DOMAIN entries}
At(entries, n) == entries[CHOOSE k \in DOMAIN entries : k.n = n]

-----------------------------------------------------------------------------
(* Outputs                                                                 *)

IsArray(entries) == DOMAIN entries # {} /\ \A k \in DOMAIN entries : k.kind = "int" /\ k.n > 0

\* Mutant: as many items as there are keys.
KeyCount(entries) == Cardinality(DOMAIN entries)

\* The greatest index, whatever is missing before it.
max_index(entries) == CHOOSE n \in Texts(entries) : \A m \in Texts(entries) : m <= n

lua_value_to_json[v \in Values] ==
  CASE v.type = "table" /\ IsArray(v.at) ->
         Array([i \in 1 .. max_index(v.at) |->
                  IF Present(v.at, i) THEN lua_value_to_json[v.at[Index(i)]] ELSE Nil])
    [] v.type = "table" /\ ~IsArray(v.at) ->
         Object([n \in Texts(v.at) |-> lua_value_to_json[At(v.at, n)]])
    [] v.type \in {"infinite", "function"} -> Refused
    [] OTHER -> v

\* The outputs themselves are fields, whatever their keys are.
parse_outputs(t) == Object([n \in Texts(t.at) |-> lua_value_to_json[At(t.at, n)]])

-----------------------------------------------------------------------------
(* Inputs                                                                  *)

\* Lua's length: an index with nothing after it, any one of them.
raw_len(entries) ==
  CHOOSE n \in {0} \cup Texts(entries) :
    (n = 0 \/ Present(entries, n)) /\ ~Present(entries, n + 1)

\* Integers up to this one, and down to its negative, are all floats, too.
ExactTo == 2 ^ MantissaDigits
Within(n, bound) == -bound <= n /\ n <= bound
IsExact(n) == Within(n, ExactTo)

\* `n as f64`: beyond it floats are some power of two apart (an integer has 64 bits,
\* 11 more than count), and the nearest is taken, of two the one that is even.
AsFloat(n) ==
  LET apart == CHOOSE u \in {2 ^ e : e \in 1 .. 11} :
                 Within(n, u * ExactTo) /\ ~Within(n, (u \div 2) * ExactTo)
      above == n % apart
      isNear == 2 * above < apart \/ (2 * above = apart /\ (n \div apart) % 2 = 0)
  IN IF IsExact(n) THEN n ELSE (n - above) + (IF isNear THEN 0 ELSE apart)

lua_value_to_bind_inputs_def[v \in Values \cup {Nil}] ==
  CASE v.type = "table" /\ raw_len(v.at) > 0 /\ Present(v.at, 1) ->
         Array([i \in 1 .. raw_len(v.at) |->
                  lua_value_to_bind_inputs_def[IF Present(v.at, i) THEN v.at[Index(i)] ELSE Nil]])
    [] v.type = "table" /\ ~(raw_len(v.at) > 0 /\ Present(v.at, 1)) ->
         Object([n \in Texts(v.at) |-> lua_value_to_bind_inputs_def[At(v.at, n)]])
    [] v.type = "integer" -> Number(AsFloat(v.n))
    [] v.type \in {"function", "nil"} -> Refused
    [] OTHER -> v

-----------------------------------------------------------------------------
(* Back to Lua                                                             *)

Stored ==
  {lua_value_to_json[v] : v \in Values} \cup {lua_value_to_bind_inputs_def[v] : v \in Values}
    \cup {parse_outputs(t) : t \in Tables} \cup {Nil}

\* A key that is given nil is not there.
json_to_lua_value[j \in Stored] ==
  CASE j.type = "array" ->
         Table([k \in {Index(i) : i \in {n \in DOMAIN j.items : j.items[n] # Nil}} |->
                  json_to_lua_value[j.items[k.n]]])
    [] j.type = "object" ->
         Table([k \in {Text(n) : n \in {m \in DOMAIN j.fields : j.fields[m] # Nil}} |->
                  json_to_lua_value[j.fields[k.n]]])
    [] OTHER -> j

-----------------------------------------------------------------------------
(* What they are for                                                       *)

Named(entries) == \A k \in DOMAIN entries : k.kind = "text"

\* A table whose keys at every level are all texts, or all positive integers,
\* and without functions and infinite numbers.
Plain[v \in Values] ==
  CASE v.type = "table" ->
         (Named(v.at) \/ IsArray(v.at)) /\ \A k \in DOMAIN v.at : Plain[v.at[k]]
    [] v.type \in {"infinite", "function"} -> FALSE
    [] OTHER -> TRUE

\* One whose integer keys begin with 1 and have no gaps, and whose integers are
\* all floats, too.
Whole[v \in Values] ==
  CASE v.type = "table" ->
         /\ Named(v.at) \/ \A k \in DOMAIN v.at : k.n = 1 \/ Present(v.at, k.n - 1)
         /\ \A k \in DOMAIN v.at : Whole[v.at[k]]
    [] v.type = "integer" -> IsExact(v.n)
    [] OTHER -> TRUE

\* One with the same numbers, every one of them a float.
Floats[v \in Values] ==
  CASE v.type = "table" -> Table([k \in DOMAIN v.at |-> Floats[v.at[k]]])
    [] v.type = "integer" -> Number(v.n)
    [] OTHER -> v

\* Outputs that functions are not given as they were made, and inputs that they
\* are not given with the same numbers at the same keys.
LostOutputs ==
  {v \in Tables : Named(v.at) /\ Plain[v] /\ json_to_lua_value[parse_outputs(v)] # v}
LostInputs ==
  {v \in Values :
     /\ Plain[v] /\ Whole[v]
     /\ json_to_lua_value[lua_value_to_bind_inputs_def[v]] # Floats[v]}

=============================================================================
