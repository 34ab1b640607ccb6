------------------------------- MODULE JoinSet -------------------------------
(***************************************************************************)
(* The concurrency every wave of the executor is built from: a tokio       *)
(* JoinSet of tasks that each take a permit of one Semaphore before they   *)
(* do anything, drained with join_next until it is empty.  Results arrive  *)
(* in the order the tasks end; a task that panics leaves none.             *)
(***************************************************************************)
EXTENDS Naturals, FiniteSets, Sequences

CONSTANTS
  Task,      \* whatever is spawned: here, nodes of the graph
  Permits    \* ExecuteConfig.parallelism

VARIABLES
  task,      \* where each task is
  results    \* the vector collect_*join_results fills, as it is consumed

TaskState == {"unspawned", "queued", "running", "ended", "lost"}

Outcome == {"ok", "err"}

Result == [node : Task, outcome : Outcome]

JoinSetTypeOK ==
  /\ task \in [Task -> TaskState]
  /\ results \in Seq(Result)

JoinSetInit ==
  /\ task = [t \in Task |-> "unspawned"]
  /\ results = <<>>

\* Mutant: a task that panics never gives its permit back.
RunningOrLost == {t \in Task : task[t] \in {"running", "lost"}}

Running == {t \in Task : task[t] = "running"}

\* Mutant: tasks that wait for a permit are forgotten.
NoneRunning == Running = {}

\* join_next returns None: nothing spawned is still to end.
AllJoined == \A t \in Task : task[t] \notin {"queued", "running"}

Spawn(S) ==
  /\ task' = [t \in Task |-> IF t \in S THEN "queued" ELSE task[t]]
  /\ UNCHANGED results

Acquire(t) ==
  /\ task[t] = "queued"
  /\ Cardinality(Running) < Permits
  /\ task' = [task EXCEPT ![t] = "running"]
  /\ UNCHANGED results

Return(t, outcome) ==
  /\ task[t] = "running"
  /\ task' = [task EXCEPT ![t] = "ended"]
  /\ results' = Append(results, [node |-> t, outcome |-> outcome])

\* "task panicked" is logged and nothing is pushed.
Panic(t) ==
  /\ task[t] = "running"
  /\ task' = [task EXCEPT ![t] = "lost"]
  /\ UNCHANGED results

=============================================================================
