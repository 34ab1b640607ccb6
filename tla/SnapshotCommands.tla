-------------------------- MODULE SnapshotCommands --------------------------
(***************************************************************************)
(* sys processes that share one store: apply, destroy, gc and the snapshot *)
(* subcommands delete, tag and untag.  They meet in the snapshot files,    *)
(* the index that lists them, the build directories and the lock file.     *)
(* The index is read, changed in memory and written back in two steps; a   *)
(* process may be killed between any two, which frees its lock.            *)
(*                                                                         *)
(* Of an apply this module keeps what touches the shared files; its binds  *)
(* are the subject of ApplyFlow.  Readers (plan, status, diff, list, show) *)
(* take no lock and write nothing here.                                    *)
(***************************************************************************)
EXTENDS Integers, FiniteSets

CONSTANTS
  Process, Build, Tag,
  Configs,         \* the sets of builds configurations may list
  MaxSnapshots,    \* bound: how many snapshots are ever made
  Nobody

ASSUME CommandsAssumption ==
  /\ Configs \subseteq SUBSET Build
  /\ MaxSnapshots \in Nat
  /\ Nobody \notin Process

VARIABLES
  index,       \* index.json: listed ids, current, and tags of each id
  files,       \* the ids with a snapshot file
  manifest,    \* the builds that the file of an id lists
  store,       \* what is in the store for each build
  clock,       \* the last snapshot id taken from the clock
  lock,        \* who holds the exclusive lock on the store
  pc, job      \* where each process is, and its local variables

diskVars == <<index, files, manifest, clock>>
vars == <<diskVars, store, lock, pc, job>>

Id == 1 .. MaxSnapshots

Index == [listed : SUBSET Id, current : SUBSET Id, tags : [Id -> SUBSET Tag]]

\* "partial" is a directory without a marker, "corrupt" one whose contents
\* no longer have the marker's hash.
Contents == {"absent", "partial", "complete", "corrupt"}

Unlocked == {"idle", "delete", "tag", "untag"}
Locked == {"realize", "publish", "load_index", "save_index", "delete_file", "sweep"}

Job ==
  [op : {"none", "add", "point", "clear", "remove", "tags"},
   id : Id \cup {0},           \* the snapshot the operation is about
   ids : SUBSET Id,            \* candidates delete has left
   tags : SUBSET Tag,
   builds : SUBSET Build,      \* the manifest apply works towards
   todo : SUBSET Build,        \* builds still to be looked at
   doing : SUBSET Build,       \* builds being realized
   live : SUBSET Build,        \* gc's live hashes
   executed : BOOLEAN,         \* apply's diff was not empty
   seen : Index]               \* the index as this process read it

EmptyIndex == [listed |-> {}, current |-> {}, tags |-> [s \in Id |-> {}]]

NoJob ==
  [op |-> "none", id |-> 0, ids |-> {}, tags |-> {},
   builds |-> {}, todo |-> {}, doing |-> {}, live |-> {},
   executed |-> FALSE, seen |-> EmptyIndex]

TypeOK ==
  /\ index \in Index
  /\ files \subseteq Id
  /\ manifest \in [Id -> SUBSET Build]
  /\ store \in [Build -> Contents]
  /\ clock \in 0 .. MaxSnapshots
  /\ lock \in Process \cup {Nobody}
  /\ pc \in [Process -> Unlocked \cup Locked]
  /\ job \in [Process -> Job]

Init ==
  /\ index = EmptyIndex
  /\ files = {}
  /\ manifest = [s \in Id |-> {}]
  /\ store = [b \in Build |-> "absent"]
  /\ clock = 0
  /\ lock = Nobody
  /\ pc = [p \in Process |-> "idle"]
  /\ job = [p \in Process |-> NoJob]

-----------------------------------------------------------------------------
(* The lock, and the way of every process                                  *)

\* Mutant: the result of try_lock is not looked at.
Overrun(p) == lock' = p

\* StoreLock::acquire never waits.
Acquire(p) == lock = Nobody /\ lock' = p

Goto(p, where, locals) ==
  /\ pc' = [pc EXCEPT ![p] = where]
  /\ job' = [job EXCEPT ![p] = locals]

\* The command returns, and drops its lock if it has one.
Return(p) ==
  /\ Goto(p, "idle", NoJob)
  /\ lock' = IF lock = p THEN Nobody ELSE lock

\* A locked command found the store locked when it had already read its tags
\* or candidates.  (One that takes the lock first simply does not start.)
Contended(p) ==
  /\ pc[p] \in {"delete", "tag", "untag"}
  /\ lock # Nobody
  /\ Return(p)
  /\ UNCHANGED <<diskVars, store>>

-----------------------------------------------------------------------------
(* The index: load, change in memory, save                                 *)

\* What the operation of a job makes of the index it has read.  set_current
\* and update_tags fail, and change nothing, when the id is not listed.
Changed(i, j) ==
  CASE j.op = "add" ->
         [i EXCEPT !.listed = @ \cup {j.id}, !.current = {j.id}, !.tags[j.id] = {}]
    [] j.op = "point" ->
         IF j.id \in i.listed THEN [i EXCEPT !.current = {j.id}] ELSE i
    [] j.op = "clear" ->
         [i EXCEPT !.current = {}]
    [] j.op = "remove" ->
         [i EXCEPT !.listed = @ \ {j.id}, !.current = @ \ {j.id}, !.tags[j.id] = {}]
    [] j.op = "tags" ->
         IF j.id \in i.listed THEN [i EXCEPT !.tags[j.id] = j.tags] ELSE i
    [] OTHER -> i

LoadIndex(p) ==
  /\ pc[p] = "load_index"
  /\ Goto(p, "save_index", [job[p] EXCEPT !.seen = index])
  /\ UNCHANGED <<diskVars, store, lock>>

\* delete goes on with its next candidate, every other command is done.
SaveIndex(p) ==
  /\ pc[p] = "save_index"
  /\ index' = Changed(job[p].seen, job[p])
  /\ IF job[p].ids # {}
     THEN /\ Goto(p, "delete_file", [NoJob EXCEPT !.ids = job[p].ids])
          /\ UNCHANGED lock
     ELSE Return(p)
  /\ UNCHANGED <<files, manifest, clock, store>>

-----------------------------------------------------------------------------
(* sys apply                                                               *)

\* load_current succeeds.
CurrentReadable == index.current \subseteq files

\* The diff of the builds is empty; that of the binds is rebind's.
NoBuildChanges(config) ==
  /\ \A b \in config : store[b] # "absent"
  /\ \A s \in index.current : manifest[s] \subseteq config

Apply(p, config, rebind) ==
  /\ pc[p] = "idle"
  /\ clock < MaxSnapshots
  /\ CurrentReadable
  /\ Acquire(p)
  /\ IF NoBuildChanges(config) /\ ~rebind
     THEN Goto(p, "publish", [NoJob EXCEPT !.builds = config])
     ELSE Goto(p, "realize", [NoJob EXCEPT !.builds = config, !.todo = config,
                                           !.executed = TRUE])
  /\ UNCHANGED <<diskVars, store>>

\* Mutant: any directory is a cache hit.
DirectoryExists(b) == store[b] # "absent"

\* The marker is there and the contents still have its hash.
CacheHit(b) == store[b] = "complete"

UseCached(p, b) ==
  /\ pc[p] = "realize"
  /\ b \in job[p].todo
  /\ CacheHit(b)
  /\ Goto(p, "realize", [job[p] EXCEPT !.todo = @ \ {b}])
  /\ UNCHANGED <<diskVars, store, lock>>

\* Incomplete or corrupted remains are removed and the directory is made anew.
StartBuild(p, b) ==
  /\ pc[p] = "realize"
  /\ b \in job[p].todo
  /\ ~CacheHit(b)
  /\ store' = [store EXCEPT ![b] = "partial"]
  /\ Goto(p, "realize", [job[p] EXCEPT !.todo = @ \ {b}, !.doing = @ \cup {b}])
  /\ UNCHANGED <<diskVars, lock>>

\* The last action is done and the marker is written.
FinishBuild(p, b) ==
  /\ pc[p] = "realize"
  /\ b \in job[p].doing
  /\ store' = [store EXCEPT ![b] = "complete"]
  /\ Goto(p, "realize", [job[p] EXCEPT !.doing = @ \ {b}])
  /\ UNCHANGED <<diskVars, lock>>

\* A build or a bind failed; builds started with it end as they end.  Apply
\* returns an error, with the pointer left alone, set back to the previous
\* snapshot (binds restored) or cleared (they could not be).
ExecutionFails(p, op, ended) ==
  /\ pc[p] = "realize"
  /\ ended \subseteq job[p].doing
  /\ store' = [b \in Build |-> IF b \in ended THEN "complete" ELSE store[b]]
  /\ \/ op = "none" /\ Return(p)
     \/ /\ op \in {"point", "clear"}
        /\ \E s \in index.current :
             Goto(p, "load_index", [NoJob EXCEPT !.op = op, !.id = s])
        /\ UNCHANGED lock
  /\ UNCHANGED diskVars

ExecutionSucceeds(p) ==
  /\ pc[p] = "realize"
  /\ job[p].todo = {} /\ job[p].doing = {}
  /\ Goto(p, "publish", job[p])
  /\ UNCHANGED <<diskVars, store, lock>>

\* Mutant: the id is not later than the last one.
SameInstant == clock

\* generate_snapshot_id: the clock in milliseconds, never the same twice here.
FreshId == clock + 1

\* save_and_set_current writes the file first, then the index.
WriteSnapshot(p) ==
  /\ pc[p] = "publish"
  /\ clock' = FreshId
  /\ files' = files \cup {FreshId}
  /\ manifest' = [manifest EXCEPT ![FreshId] = job[p].builds]
  /\ Goto(p, "load_index", [job[p] EXCEPT !.op = "add", !.id = FreshId])
  /\ UNCHANGED <<index, store, lock>>

-----------------------------------------------------------------------------
(* sys destroy                                                             *)

\* The binds are destroyed; without a current snapshot there is nothing to do.
Destroy(p) ==
  /\ pc[p] = "idle"
  /\ index.current # {}
  /\ CurrentReadable
  /\ Acquire(p)
  /\ Goto(p, "load_index", [NoJob EXCEPT !.op = "clear"])
  /\ UNCHANGED <<diskVars, store>>

-----------------------------------------------------------------------------
(* sys snapshot delete                                                     *)

\* Mutant: the current snapshot is a candidate like any other.
AllCandidates(ids) == ids

\* The ids asked for, without the one that is current at the time.
Candidates(ids) == ids \ index.current

\* cmd_delete before the lock: candidates and current are read, the user is
\* asked.  The ids come from the list, given by the user or by --older-than
\* (an age longer than the time between the two reads).
ChooseCandidates(p, ids) ==
  /\ pc[p] = "idle"
  /\ Candidates(ids) # {}
  /\ Goto(p, "delete", [NoJob EXCEPT !.ids = Candidates(ids)])
  /\ UNCHANGED <<diskVars, store, lock>>

StartDelete(p) ==
  /\ pc[p] = "delete"
  /\ Acquire(p)
  /\ Goto(p, "delete_file", job[p])
  /\ UNCHANGED <<diskVars, store>>

\* Mutant: any error of removing the file is ignored.
EntryOnly(p, s) ==
  /\ pc[p] = "delete_file"
  /\ s \in job[p].ids
  /\ Goto(p, "load_index", [job[p] EXCEPT !.op = "remove", !.id = s, !.ids = @ \ {s}])
  /\ UNCHANGED <<diskVars, store, lock>>

\* delete_snapshot removes the file first, then the entry of the index.
DeleteFile(p, s) ==
  /\ pc[p] = "delete_file"
  /\ s \in job[p].ids
  /\ files' = files \ {s}
  /\ Goto(p, "load_index", [job[p] EXCEPT !.op = "remove", !.id = s, !.ids = @ \ {s}])
  /\ UNCHANGED <<index, manifest, clock, store, lock>>

-----------------------------------------------------------------------------
(* sys snapshot tag, sys snapshot untag                                    *)

\* The tags list() shows; load_snapshot has found the file, and an id that is
\* not in the index has none.
TagsOf(s) == IF s \in index.listed THEN index.tags[s] ELSE {}

\* cmd_tag reads the tags, then takes the lock.
ReadForTag(p, s, t) ==
  /\ pc[p] = "idle"
  /\ s \in files
  /\ t \notin TagsOf(s)
  /\ Goto(p, "tag", [NoJob EXCEPT !.op = "tags", !.id = s, !.tags = TagsOf(s) \cup {t}])
  /\ UNCHANGED <<diskVars, store, lock>>

\* cmd_untag: one name, or all tags.
ReadForUntag(p, s, gone) ==
  /\ pc[p] = "idle"
  /\ s \in files
  /\ gone \subseteq TagsOf(s) /\ gone # {}
  /\ Cardinality(gone) = 1 \/ gone = TagsOf(s)
  /\ Goto(p, "untag", [NoJob EXCEPT !.op = "tags", !.id = s, !.tags = TagsOf(s) \ gone])
  /\ UNCHANGED <<diskVars, store, lock>>

StartTagging(p) ==
  /\ pc[p] \in {"tag", "untag"}
  /\ Acquire(p)
  /\ Goto(p, "load_index", job[p])
  /\ UNCHANGED <<diskVars, store>>

-----------------------------------------------------------------------------
(* sys gc                                                                  *)

\* Mutant: only the current snapshot keeps its builds.
CurrentBuilds == UNION {manifest[s] : s \in index.current}

\* collect_live_hashes: the listed snapshots whose file can be read.
LiveBuilds == UNION {manifest[s] : s \in index.listed \cap files}

CollectGarbage(p) ==
  /\ pc[p] = "idle"
  /\ Acquire(p)
  /\ Goto(p, "sweep", [NoJob EXCEPT !.live = LiveBuilds,
                                    !.todo = {b \in Build : store[b] # "absent"}])
  /\ UNCHANGED <<diskVars, store>>

\* A directory stays if it is live and has a marker, whatever the contents.
SweepBuild(p, b) ==
  /\ pc[p] = "sweep"
  /\ b \in job[p].todo
  /\ store' = IF b \in job[p].live /\ store[b] \in {"complete", "corrupt"}
              THEN store
              ELSE [store EXCEPT ![b] = "absent"]
  /\ Goto(p, "sweep", [job[p] EXCEPT !.todo = @ \ {b}])
  /\ UNCHANGED <<diskVars, lock>>

SweepDone(p) ==
  /\ pc[p] = "sweep"
  /\ job[p].todo = {}
  /\ Return(p)
  /\ UNCHANGED <<diskVars, store>>

-----------------------------------------------------------------------------

\* The process is killed: the system closes the lock file.
Crash(p) ==
  /\ pc[p] # "idle"
  /\ Return(p)
  /\ UNCHANGED <<diskVars, store>>

\* The contents of a finished build change behind syslua's back.
Corrupt(b) ==
  /\ store[b] = "complete"
  /\ store' = [store EXCEPT ![b] = "corrupt"]
  /\ UNCHANGED <<diskVars, lock, pc, job>>

ApplyStep(p) ==
  \/ \E config \in Configs, rebind \in BOOLEAN : Apply(p, config, rebind)
  \/ \E b \in Build : UseCached(p, b) \/ StartBuild(p, b) \/ FinishBuild(p, b)
  \/ \E op \in {"none", "point", "clear"}, ended \in SUBSET Build :
       ExecutionFails(p, op, ended)
  \/ ExecutionSucceeds(p)
  \/ WriteSnapshot(p)

SnapshotStep(p) ==
  \/ \E ids \in SUBSET index.listed : ChooseCandidates(p, ids)
  \/ StartDelete(p)
  \/ \E s \in Id : DeleteFile(p, s)
  \/ \E s \in Id, t \in Tag : ReadForTag(p, s, t)
  \/ \E s \in Id, gone \in SUBSET Tag : ReadForUntag(p, s, gone)
  \/ StartTagging(p)

GcStep(p) ==
  \/ CollectGarbage(p)
  \/ \E b \in Build : SweepBuild(p, b)
  \/ SweepDone(p)

Next ==
  \/ \E p \in Process :
       \/ ApplyStep(p) \/ Destroy(p) \/ SnapshotStep(p) \/ GcStep(p)
       \/ LoadIndex(p) \/ SaveIndex(p) \/ Contended(p) \/ Crash(p)
  \/ \E b \in Build : Corrupt(b)

Spec == Init /\ [][Next]_vars

-----------------------------------------------------------------------------
(* Properties                                                              *)

\* The current snapshot is listed and its file is there, at every moment at
\* which a reader or a crash may come in, although delete decided what to
\* spare before it had the lock (snapshot.rs:309) and files and index are
\* written one after the other.
CurrentIsLoadable == index.current \subseteq index.listed \cap files

\* No command makes a finished build of a readable listed snapshot anything
\* else, whichever gc, apply and delete overlap (gc/mod.rs:146).
ListedBuildsKept ==
  [][\A s \in index.listed \cap files : \A b \in manifest[s] :
       store[b] = "complete" => store'[b] \in {"complete", "corrupt"}]_vars

\* What an executing apply has realized or found in the store is still there
\* when it writes its snapshot, although no snapshot lists it yet and gc
\* would remove it.
RealizedStay ==
  \A p \in Process :
    pc[p] \in Locked /\ job[p].executed =>
      \A b \in job[p].builds \ (job[p].todo \cup job[p].doing) :
        store[b] \in {"complete", "corrupt"}

Log == INSTANCE SnapshotLog WITH
         SnapshotId <- Id, listed <- index.listed, current <- index.current

\* The read-modify-write cycles on index.json, with crashes between their
\* steps, are atomic operations on a chronological log whose current entry is
\* never removed.
ImplementsSnapshotLog == Log!Spec

=============================================================================
