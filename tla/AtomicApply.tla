----------------------------- MODULE AtomicApply -----------------------------
(***************************************************************************)
(* What sys apply and sys destroy promise (docs, apply flow: "either all   *)
(* changes succeed or the system remains in its previous state"): the      *)
(* binds in place and the configuration recorded as current change         *)
(* together, in one step, or not at all.                                   *)
(***************************************************************************)
EXTENDS Dag

CONSTANTS Configurations, NoConfig

VARIABLES
  configured,    \* the configuration last applied
  installed      \* the binds in place

vars == <<configured, installed>>

Init == configured = NoConfig /\ installed = {}

Apply(c) == configured' = c /\ installed' = c \cap Bind

Destroy == configured' = NoConfig /\ installed' = {}

Next == (\E c \in Configurations : Apply(c)) \/ Destroy

Spec == Init /\ [][Next]_vars

=============================================================================
