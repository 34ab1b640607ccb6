--------------------------- MODULE SnapshotProofs ---------------------------
(***************************************************************************)
(* Theorems about SnapshotCommands and SnapshotReaders, for every set of   *)
(* processes, builds, tags and configurations and every number of          *)
(* snapshots: the lock makes the read-modify-write cycles on the index     *)
(* atomic operations of SnapshotLog, and keeps gc and apply out of each    *)
(* other's way; and although a reader takes no lock and the commands that  *)
(* write go on between its reads, what it finds fits together.             *)
(*                                                                         *)
(* What is said of readers rests on what a snapshot id is: it is later     *)
(* than all ids before it, and its file, once gone, is not written again.  *)
(***************************************************************************)
EXTENDS SnapshotReaders, TLAPS

-----------------------------------------------------------------------------
(* The commands that write                                                 *)


\* Only one process is at a step that needs the lock: the one that holds it.
LockHeld(p) == pc[p] \in Locked <=> lock = p

AtMostOneCurrent == \A s, t \in index.current : s = t

ListedAreOld == \A s \in index.listed : s <= clock

\* What delete chose before it had the lock is still not current, and can not
\* become so: only a snapshot made later can.
CandidatesSpared(p) == \A s \in job[p].ids : s <= clock /\ s \notin index.current

RoomForNext(p) == pc[p] \in {"realize", "publish"} => clock < MaxSnapshots

AddIsNew(p) ==
  job[p].op = "add" =>
    /\ job[p].id \in files /\ job[p].id <= clock
    /\ \A s \in index.listed : s < job[p].id
    /\ \A q \in Process : \A s \in job[q].ids : s < job[p].id

\* A change of the index that is under way is one the log allows, and is
\* based on the index as it is.
IndexWork(p) ==
  pc[p] \in {"load_index", "save_index"} =>
    /\ AddIsNew(p)
    /\ job[p].op = "point" => index.current = {job[p].id}
    /\ job[p].op = "remove" => job[p].id \in Id \ index.current
    /\ pc[p] = "save_index" => job[p].seen = index

TagsOnly(p) == pc[p] \in {"tag", "untag"} => job[p].op = "tags"

SweepSpares(p) ==
  pc[p] = "sweep" =>
    \A s \in index.listed \cap files : manifest[s] \subseteq job[p].live

ExecutedInApply(p) ==
  job[p].executed => pc[p] \in {"realize", "publish", "load_index", "save_index"}

RealizedBy(p) ==
  pc[p] \in Locked /\ job[p].executed =>
    \A b \in job[p].builds \ (job[p].todo \cup job[p].doing) :
      store[b] \in {"complete", "corrupt"}

Fits(p) ==
  /\ LockHeld(p) /\ CandidatesSpared(p) /\ RoomForNext(p) /\ IndexWork(p)
  /\ TagsOnly(p) /\ SweepSpares(p) /\ ExecutedInApply(p) /\ RealizedBy(p)

IInv ==
  /\ TypeOK
  /\ CurrentIsLoadable /\ AtMostOneCurrent /\ ListedAreOld
  /\ \A p \in Process : Fits(p)

-----------------------------------------------------------------------------
(* Types                                                                   *)

LEMMA NoJobType == NoJob \in Job
BY DEF NoJob, Job, EmptyIndex, Index, Id

\* A process that goes on with well-typed locals leaves pc and job well typed.
LEMMA GotoType ==
  ASSUME TypeOK, NEW p \in Process, NEW where \in Unlocked \cup Locked,
         NEW locals \in Job, Goto(p, where, locals)
  PROVE  /\ pc' \in [Process -> Unlocked \cup Locked]
         /\ job' \in [Process -> Job]
BY DEF Goto, TypeOK

LEMMA ReturnType ==
  ASSUME TypeOK, NEW p \in Process, Return(p)
  PROVE  /\ pc' \in [Process -> Unlocked \cup Locked]
         /\ job' \in [Process -> Job]
         /\ lock' \in Process \cup {Nobody}
BY NoJobType DEF Return, Goto, TypeOK, Unlocked

LEMMA ChangedType ==
  ASSUME NEW i \in Index, NEW j \in Job, j.op \in {"add", "remove"} => j.id \in Id
  PROVE  Changed(i, j) \in Index
<1>1. CASE j.op = "add"
  BY <1>1 DEF Changed, Index, Job
<1>2. CASE j.op = "point"
  BY <1>2 DEF Changed, Index, Job
<1>3. CASE j.op = "clear"
  BY <1>3 DEF Changed, Index, Job
<1>4. CASE j.op = "remove"
  BY <1>4 DEF Changed, Index, Job
<1>5. CASE j.op = "tags"
  BY <1>5 DEF Changed, Index, Job
<1>6. CASE j.op = "none"
  BY <1>6 DEF Changed, Index, Job
<1> QED
  BY <1>1, <1>2, <1>3, <1>4, <1>5, <1>6 DEF Job

\* What becomes of the two fields the log is made of.
LEMMA ChangedFields ==
  ASSUME NEW i \in Index, NEW j \in Job
  PROVE  LET c == Changed(i, j) IN
         /\ j.op = "add" => c.listed = i.listed \cup {j.id} /\ c.current = {j.id}
         /\ j.op = "point" =>
              /\ c.listed = i.listed
              /\ c.current = IF j.id \in i.listed THEN {j.id} ELSE i.current
         /\ j.op = "clear" => c.listed = i.listed /\ c.current = {}
         /\ j.op = "remove" =>
              c.listed = i.listed \ {j.id} /\ c.current = i.current \ {j.id}
         /\ j.op \in {"tags", "none"} => c.listed = i.listed /\ c.current = i.current
<1>1. CASE j.op = "add"
  BY <1>1 DEF Changed, Index
<1>2. CASE j.op = "point"
  BY <1>2 DEF Changed, Index
<1>3. CASE j.op = "clear"
  BY <1>3 DEF Changed, Index
<1>4. CASE j.op = "remove"
  BY <1>4 DEF Changed, Index
<1>5. CASE j.op = "tags"
  BY <1>5 DEF Changed, Index
<1>6. CASE j.op = "none"
  BY <1>6 DEF Changed, Index
<1> QED
  BY <1>1, <1>2, <1>3, <1>4, <1>5, <1>6 DEF Job

LEMMA InitIInv == Init => IInv
<1> SUFFICES ASSUME Init PROVE IInv
  OBVIOUS
<1>1. EmptyIndex \in Index
  BY DEF EmptyIndex, Index
<1>2. TypeOK
  BY <1>1, NoJobType, CommandsAssumption DEF Init, TypeOK, Contents, Unlocked
<1>3. ASSUME NEW p \in Process PROVE Fits(p)
  BY CommandsAssumption DEF Init, Fits, LockHeld, CandidatesSpared, RoomForNext,
     IndexWork, SweepSpares, TagsOnly, ExecutedInApply, RealizedBy, NoJob, Locked
<1>4. CurrentIsLoadable /\ AtMostOneCurrent /\ ListedAreOld
  BY DEF Init, CurrentIsLoadable, AtMostOneCurrent, ListedAreOld, EmptyIndex
<1> QED
  BY <1>2, <1>3, <1>4 DEF IInv

-----------------------------------------------------------------------------
(* Steps that leave index, files, manifests and clock alone                *)

\* Such a step of p keeps the invariant if p itself still fits.
LEMMA QuietStep ==
  ASSUME IInv, NEW p \in Process, NEW where \in Unlocked \cup Locked,
         NEW locals \in Job, Goto(p, where, locals),
         UNCHANGED diskVars,
         store' \in [Build -> Contents], store' = store \/ pc[p] \in Locked,
         lock' \in Process \cup {Nobody},
         \A q \in Process \ {p} : lock' = q <=> lock = q,
         locals.ids \subseteq job[p].ids \/ locals.ids \subseteq index.listed \ index.current,
         where = "idle" \/ Fits(p)', where = "idle" => locals = NoJob /\ lock' # p
  PROVE  IInv'
<1> USE DEF IInv
<1>1. TypeOK'
  BY GotoType DEF TypeOK, diskVars
<1>2. (CurrentIsLoadable /\ AtMostOneCurrent /\ ListedAreOld)'
  BY DEF diskVars, CurrentIsLoadable, AtMostOneCurrent, ListedAreOld
<1>3. /\ pc'[p] = where /\ job'[p] = locals
      /\ \A q \in Process \ {p} : pc'[q] = pc[q] /\ job'[q] = job[q]
  BY DEF Goto, TypeOK
<1>4. Fits(p)'
  <2>1. CASE where # "idle"
    BY <2>1
  <2>2. CASE where = "idle"
    BY <1>3, <2>2 DEF NoJob, Fits, LockHeld, CandidatesSpared, RoomForNext,
       IndexWork, SweepSpares, TagsOnly, ExecutedInApply, RealizedBy, Locked
  <2> QED
    BY <2>1, <2>2
<1>5. ASSUME NEW q \in Process, q # p PROVE Fits(q)'
  <2>1. AddIsNew(q) /\ pc[q] \in {"load_index", "save_index"} => AddIsNew(q)'
    BY <1>3, <1>5 DEF AddIsNew, diskVars, TypeOK
  <2>2. LockHeld(q)' /\ CandidatesSpared(q)' /\ RoomForNext(q)' /\ SweepSpares(q)' /\ TagsOnly(q)'
        /\ ExecutedInApply(q)'
    BY <1>3, <1>5 DEF Fits, LockHeld, CandidatesSpared, RoomForNext, SweepSpares,
       TagsOnly, ExecutedInApply, diskVars
  <2>3. IndexWork(q)'
    BY <1>3, <1>5, <2>1 DEF Fits, IndexWork, diskVars
  <2>4. RealizedBy(q)'
    BY <1>3, <1>5 DEF Fits, RealizedBy, LockHeld
  <2> QED
    BY <2>2, <2>3, <2>4 DEF Fits
<1> QED
  BY <1>1, <1>2, <1>4, <1>5

\* A command returns, or its process is killed.
LEMMA ReturnKeepsIInv ==
  ASSUME IInv, NEW p \in Process, Return(p), UNCHANGED diskVars,
         store' \in [Build -> Contents], store' = store \/ pc[p] \in Locked
  PROVE  IInv'
<1> USE DEF IInv
<1>1. /\ lock' \in Process \cup {Nobody}
      /\ lock' # p
      /\ \A q \in Process \ {p} : lock' = q <=> lock = q
  BY CommandsAssumption DEF Return, TypeOK
<1>2. NoJob.ids = {}
  BY DEF NoJob
<1>3. Goto(p, "idle", NoJob)
  BY DEF Return
<1> QED
  BY <1>1, <1>2, <1>3, NoJobType, QuietStep DEF Unlocked

LEMMA ApplyKeepsIInv ==
  ASSUME IInv, NEW p \in Process, NEW config \in Configs, NEW rebind \in BOOLEAN,
         Apply(p, config, rebind)
  PROVE  IInv'
<1> USE DEF IInv
<1>1. PICK where \in {"realize", "publish"}, locals \in Job :
        /\ Goto(p, where, locals)
        /\ locals.executed => locals.builds = locals.todo
        /\ locals.ids = {}
  <2> DEFINE unchanged == [NoJob EXCEPT !.builds = config]
             changes == [NoJob EXCEPT !.builds = config, !.todo = config, !.executed = TRUE]
  <2>1. /\ unchanged \in Job /\ unchanged.ids = {} /\ ~unchanged.executed
        /\ changes \in Job /\ changes.ids = {} /\ changes.builds = changes.todo
    BY CommandsAssumption, NoJobType DEF NoJob, Job
  <2>2. Goto(p, "publish", unchanged) \/ Goto(p, "realize", changes)
    BY DEF Apply
  <2> HIDE DEF unchanged, changes
  <2> QED
    BY <2>1, <2>2
<1>2. pc'[p] = where /\ job'[p] = locals
  BY <1>1 DEF Goto, TypeOK
<1>3. Fits(p)'
  BY <1>1, <1>2 DEF Apply, Acquire, diskVars, Fits, LockHeld, CandidatesSpared, RoomForNext,
     IndexWork, SweepSpares, TagsOnly, ExecutedInApply, RealizedBy, Locked
<1> QED
  BY <1>1, <1>3, CommandsAssumption, QuietStep DEF Apply, Acquire, Locked, TypeOK

LEMMA UseCachedKeepsIInv ==
  ASSUME IInv, NEW p \in Process, NEW b \in Build, UseCached(p, b)
  PROVE  IInv'
<1> USE DEF IInv
<1> DEFINE locals == [job[p] EXCEPT !.todo = @ \ {b}]
<1>1. /\ locals \in Job /\ locals.ids = job[p].ids
      /\ locals.todo = job[p].todo \ {b} /\ locals.doing = job[p].doing
      /\ locals.builds = job[p].builds /\ locals.executed = job[p].executed
  BY DEF TypeOK, Job
<1>2. Goto(p, "realize", locals) /\ pc[p] = "realize" /\ lock = p
  BY DEF UseCached, Fits, LockHeld, Locked
<1> HIDE DEF locals
<1>3. pc'[p] = "realize" /\ job'[p] = locals
  BY <1>2 DEF Goto, TypeOK
<1>4. Fits(p)'
  BY <1>1, <1>2, <1>3 DEF UseCached, CacheHit, diskVars, Fits, LockHeld, CandidatesSpared,
     RoomForNext, IndexWork, SweepSpares, TagsOnly, ExecutedInApply, RealizedBy, Locked
<1> QED
  BY <1>1, <1>2, <1>4, QuietStep DEF UseCached, Locked, TypeOK

LEMMA StartBuildKeepsIInv ==
  ASSUME IInv, NEW p \in Process, NEW b \in Build, StartBuild(p, b)
  PROVE  IInv'
<1> USE DEF IInv
<1> DEFINE locals == [job[p] EXCEPT !.todo = @ \ {b}, !.doing = @ \cup {b}]
<1>1. /\ locals \in Job /\ locals.ids = job[p].ids
      /\ locals.todo = job[p].todo \ {b} /\ locals.doing = job[p].doing \cup {b}
      /\ locals.builds = job[p].builds /\ locals.executed = job[p].executed
  BY DEF TypeOK, Job
<1>2. Goto(p, "realize", locals) /\ pc[p] = "realize" /\ lock = p
  BY DEF StartBuild, Fits, LockHeld, Locked
<1> HIDE DEF locals
<1>3. pc'[p] = "realize" /\ job'[p] = locals
  BY <1>2 DEF Goto, TypeOK
<1>4. store' \in [Build -> Contents]
  BY DEF StartBuild, TypeOK, Contents
<1>5. RealizedBy(p)'
  BY <1>1, <1>2, <1>3 DEF StartBuild, Fits, RealizedBy, Locked, TypeOK, Job
<1>6. Fits(p)'
  BY <1>1, <1>2, <1>3, <1>5 DEF StartBuild, diskVars, Fits, LockHeld, CandidatesSpared,
     RoomForNext, IndexWork, SweepSpares, TagsOnly, ExecutedInApply, Locked
<1> QED
  BY <1>1, <1>2, <1>4, <1>6, QuietStep DEF StartBuild, Locked, TypeOK

LEMMA FinishBuildKeepsIInv ==
  ASSUME IInv, NEW p \in Process, NEW b \in Build, FinishBuild(p, b)
  PROVE  IInv'
<1> USE DEF IInv
<1> DEFINE locals == [job[p] EXCEPT !.doing = @ \ {b}]
<1>1. /\ locals \in Job /\ locals.ids = job[p].ids
      /\ locals.todo = job[p].todo /\ locals.doing = job[p].doing \ {b}
      /\ locals.builds = job[p].builds /\ locals.executed = job[p].executed
  BY DEF TypeOK, Job
<1>2. Goto(p, "realize", locals) /\ pc[p] = "realize" /\ lock = p
  BY DEF FinishBuild, Fits, LockHeld, Locked
<1> HIDE DEF locals
<1>3. pc'[p] = "realize" /\ job'[p] = locals
  BY <1>2 DEF Goto, TypeOK
<1>4. store' \in [Build -> Contents]
  BY DEF FinishBuild, TypeOK, Contents
<1>5. RealizedBy(p)'
  BY <1>1, <1>2, <1>3 DEF FinishBuild, Fits, RealizedBy, Locked, TypeOK, Job
<1>6. Fits(p)'
  BY <1>1, <1>2, <1>3, <1>5 DEF FinishBuild, diskVars, Fits, LockHeld, CandidatesSpared,
     RoomForNext, IndexWork, SweepSpares, TagsOnly, ExecutedInApply, Locked
<1> QED
  BY <1>1, <1>2, <1>4, <1>6, QuietStep DEF FinishBuild, Locked, TypeOK

LEMMA ExecutionFailsKeepsIInv ==
  ASSUME IInv, NEW p \in Process, NEW op \in {"none", "point", "clear"},
         NEW ended \in SUBSET Build, ExecutionFails(p, op, ended)
  PROVE  IInv'
<1> USE DEF IInv
<1>1. pc[p] = "realize" /\ lock = p
  BY DEF ExecutionFails, Fits, LockHeld, Locked
<1>2. store' \in [Build -> Contents]
  BY DEF ExecutionFails, TypeOK, Contents
<1>3. CASE Return(p)
  BY <1>1, <1>2, <1>3, ReturnKeepsIInv DEF ExecutionFails, Locked
<1>4. CASE ~Return(p)
  <2>1. PICK s \in index.current :
          Goto(p, "load_index", [NoJob EXCEPT !.op = op, !.id = s])
    BY <1>4 DEF ExecutionFails
  <2> DEFINE locals == [NoJob EXCEPT !.op = op, !.id = s]
  <2>2. s \in Id
    BY DEF TypeOK, Index
  <2>3. /\ locals \in Job /\ locals.ids = {} /\ ~locals.executed
        /\ locals.op \in {"none", "point", "clear"} /\ locals.id = s
    BY <2>2, NoJobType DEF NoJob, Job
  <2>4. Goto(p, "load_index", locals)
    BY <2>1
  <2> HIDE DEF locals
  <2>5. pc'[p] = "load_index" /\ job'[p] = locals
    BY <2>4 DEF Goto, TypeOK
  <2>6. UNCHANGED lock
    BY <1>4 DEF ExecutionFails
  <2>7. index.current = {s}
    BY DEF AtMostOneCurrent
  <2>8. Fits(p)'
    BY <1>1, <2>3, <2>5, <2>6, <2>7 DEF ExecutionFails, diskVars, Fits, LockHeld,
       CandidatesSpared, RoomForNext, IndexWork, AddIsNew, SweepSpares, TagsOnly,
       ExecutedInApply, RealizedBy, Locked
  <2> QED
    BY <1>1, <1>2, <2>3, <2>4, <2>6, <2>8, QuietStep DEF ExecutionFails, Locked, TypeOK
<1> QED
  BY <1>3, <1>4

LEMMA ExecutionSucceedsKeepsIInv ==
  ASSUME IInv, NEW p \in Process, ExecutionSucceeds(p)
  PROVE  IInv'
<1> USE DEF IInv
<1>1. Goto(p, "publish", job[p]) /\ pc[p] = "realize" /\ lock = p /\ job[p] \in Job
  BY DEF ExecutionSucceeds, Fits, LockHeld, Locked, TypeOK
<1>2. pc'[p] = "publish" /\ job'[p] = job[p]
  BY <1>1 DEF Goto, TypeOK
<1>3. Fits(p)'
  BY <1>1, <1>2 DEF ExecutionSucceeds, diskVars, Fits, LockHeld, CandidatesSpared,
     RoomForNext, IndexWork, SweepSpares, TagsOnly, ExecutedInApply, RealizedBy, Locked
<1> QED
  BY <1>1, <1>3, QuietStep DEF ExecutionSucceeds, Locked, TypeOK

LEMMA DestroyKeepsIInv ==
  ASSUME IInv, NEW p \in Process, Destroy(p)
  PROVE  IInv'
<1> USE DEF IInv
<1> DEFINE locals == [NoJob EXCEPT !.op = "clear"]
<1>1. locals \in Job /\ locals.ids = {} /\ ~locals.executed /\ locals.op = "clear"
  BY NoJobType DEF NoJob, Job
<1>2. Goto(p, "load_index", locals)
  BY DEF Destroy
<1> HIDE DEF locals
<1>3. pc'[p] = "load_index" /\ job'[p] = locals
  BY <1>2 DEF Goto, TypeOK
<1>4. Fits(p)'
  BY <1>1, <1>3 DEF Destroy, Acquire, diskVars, Fits, LockHeld, CandidatesSpared,
     RoomForNext, IndexWork, AddIsNew, SweepSpares, TagsOnly, ExecutedInApply, RealizedBy,
     Locked
<1> QED
  BY <1>1, <1>2, <1>4, CommandsAssumption, QuietStep DEF Destroy, Acquire, Locked, TypeOK

LEMMA ChooseCandidatesKeepsIInv ==
  ASSUME IInv, NEW p \in Process, NEW ids \in SUBSET index.listed, ChooseCandidates(p, ids)
  PROVE  IInv'
<1> USE DEF IInv
<1> DEFINE locals == [NoJob EXCEPT !.ids = Candidates(ids)]
<1>1. Candidates(ids) \subseteq Id /\ Candidates(ids) \subseteq index.listed \ index.current
  BY DEF Candidates, TypeOK, Index
<1>2. locals \in Job /\ locals.ids = Candidates(ids) /\ ~locals.executed
  BY <1>1, NoJobType DEF NoJob, Job
<1>3. Goto(p, "delete", locals) /\ pc[p] = "idle" /\ lock # p
  BY DEF ChooseCandidates, Fits, LockHeld, Locked
<1> HIDE DEF locals
<1>4. pc'[p] = "delete" /\ job'[p] = locals
  BY <1>3 DEF Goto, TypeOK
<1>5. Fits(p)'
  BY <1>1, <1>2, <1>3, <1>4 DEF ChooseCandidates, diskVars, Fits, LockHeld,
     CandidatesSpared, RoomForNext, IndexWork, SweepSpares, TagsOnly, ExecutedInApply,
     RealizedBy, Locked, ListedAreOld
<1> QED
  BY <1>1, <1>2, <1>3, <1>5, QuietStep DEF ChooseCandidates, Unlocked, TypeOK

LEMMA StartDeleteKeepsIInv ==
  ASSUME IInv, NEW p \in Process, StartDelete(p)
  PROVE  IInv'
<1> USE DEF IInv
<1>1. Goto(p, "delete_file", job[p]) /\ pc[p] = "delete" /\ job[p] \in Job
  BY DEF StartDelete, TypeOK
<1>2. pc'[p] = "delete_file" /\ job'[p] = job[p]
  BY <1>1 DEF Goto, TypeOK
<1>3. Fits(p)'
  BY <1>1, <1>2 DEF StartDelete, Acquire, diskVars, Fits, LockHeld, CandidatesSpared,
     RoomForNext, IndexWork, SweepSpares, TagsOnly, ExecutedInApply, RealizedBy, Locked
<1> QED
  BY <1>1, <1>3, CommandsAssumption, QuietStep DEF StartDelete, Acquire, Locked, TypeOK

\* tag and untag set out with the tags they have made up.
LEMMA ReadTagsKeepsIInv ==
  ASSUME IInv, NEW p \in Process, NEW where \in {"tag", "untag"}, NEW locals \in Job,
         Goto(p, where, locals), pc[p] = "idle", UNCHANGED <<diskVars, store, lock>>,
         locals.op = "tags", locals.ids = {}, ~locals.executed
  PROVE  IInv'
<1> USE DEF IInv
<1>1. lock # p
  BY DEF Fits, LockHeld, Locked
<1>2. pc'[p] = where /\ job'[p] = locals
  BY DEF Goto, TypeOK
<1>3. Fits(p)'
  BY <1>1, <1>2 DEF diskVars, Fits, LockHeld, CandidatesSpared, RoomForNext, IndexWork,
     SweepSpares, TagsOnly, ExecutedInApply, RealizedBy, Locked
<1> QED
  BY <1>1, <1>3, QuietStep DEF Unlocked, TypeOK

LEMMA ReadForTagKeepsIInv ==
  ASSUME IInv, NEW p \in Process, NEW s \in Id, NEW t \in Tag, ReadForTag(p, s, t)
  PROVE  IInv'
<1> DEFINE locals ==
      [NoJob EXCEPT !.op = "tags", !.id = s, !.tags = TagsOf(s) \cup {t}]
<1>1. TagsOf(s) \cup {t} \in SUBSET Tag
  BY DEF TagsOf, IInv, TypeOK, Index
<1>2. /\ locals \in Job /\ locals.op = "tags" /\ locals.ids = {} /\ ~locals.executed
  BY <1>1, NoJobType DEF NoJob, Job
<1>3. Goto(p, "tag", locals)
  BY DEF ReadForTag
<1> HIDE DEF locals
<1> QED
  BY <1>2, <1>3, ReadTagsKeepsIInv DEF ReadForTag

LEMMA ReadForUntagKeepsIInv ==
  ASSUME IInv, NEW p \in Process, NEW s \in Id, NEW gone \in SUBSET Tag,
         ReadForUntag(p, s, gone)
  PROVE  IInv'
<1> DEFINE locals ==
      [NoJob EXCEPT !.op = "tags", !.id = s, !.tags = TagsOf(s) \ gone]
<1>1. TagsOf(s) \ gone \in SUBSET Tag
  BY DEF TagsOf, IInv, TypeOK, Index
<1>2. /\ locals \in Job /\ locals.op = "tags" /\ locals.ids = {} /\ ~locals.executed
  BY <1>1, NoJobType DEF NoJob, Job
<1>3. Goto(p, "untag", locals)
  BY DEF ReadForUntag
<1> HIDE DEF locals
<1> QED
  BY <1>2, <1>3, ReadTagsKeepsIInv DEF ReadForUntag

LEMMA StartTaggingKeepsIInv ==
  ASSUME IInv, NEW p \in Process, StartTagging(p)
  PROVE  IInv'
<1> USE DEF IInv
<1>1. /\ Goto(p, "load_index", job[p]) /\ pc[p] \in {"tag", "untag"} /\ job[p] \in Job
      /\ job[p].op = "tags"
  BY DEF StartTagging, TypeOK, Fits, TagsOnly
<1>2. pc'[p] = "load_index" /\ job'[p] = job[p]
  BY <1>1 DEF Goto, TypeOK
<1>3. Fits(p)'
  BY <1>1, <1>2 DEF StartTagging, Acquire, diskVars, Fits, LockHeld, CandidatesSpared,
     RoomForNext, IndexWork, AddIsNew, SweepSpares, TagsOnly, ExecutedInApply, RealizedBy,
     Locked
<1> QED
  BY <1>1, <1>3, CommandsAssumption, QuietStep DEF StartTagging, Acquire, Locked, TypeOK

LEMMA CollectGarbageKeepsIInv ==
  ASSUME IInv, NEW p \in Process, CollectGarbage(p)
  PROVE  IInv'
<1> USE DEF IInv
<1> DEFINE present == {b \in Build : store[b] # "absent"}
           locals == [NoJob EXCEPT !.live = LiveBuilds, !.todo = present]
<1>1. LiveBuilds \in SUBSET Build
  BY DEF LiveBuilds, TypeOK, Index
<1>2. /\ locals \in Job /\ locals.ids = {} /\ ~locals.executed /\ locals.live = LiveBuilds
  BY <1>1, NoJobType DEF NoJob, Job
<1>3. Goto(p, "sweep", locals)
  BY DEF CollectGarbage
<1> HIDE DEF locals
<1>4. pc'[p] = "sweep" /\ job'[p] = locals
  BY <1>3 DEF Goto, TypeOK
<1>5. \A s \in index.listed \cap files : manifest[s] \subseteq LiveBuilds
  BY DEF LiveBuilds
<1>6. Fits(p)'
  BY <1>2, <1>4, <1>5 DEF CollectGarbage, Acquire, diskVars, Fits, LockHeld,
     CandidatesSpared, RoomForNext, IndexWork, SweepSpares, TagsOnly, ExecutedInApply,
     RealizedBy, Locked
<1> QED
  BY <1>2, <1>3, <1>6, CommandsAssumption, QuietStep
  DEF CollectGarbage, Acquire, Locked, TypeOK

LEMMA SweepBuildKeepsIInv ==
  ASSUME IInv, NEW p \in Process, NEW b \in Build, SweepBuild(p, b)
  PROVE  IInv'
<1> USE DEF IInv
<1> DEFINE locals == [job[p] EXCEPT !.todo = @ \ {b}]
<1>1. pc[p] = "sweep" /\ lock = p /\ ~job[p].executed /\ job[p] \in Job
  BY DEF SweepBuild, Fits, LockHeld, ExecutedInApply, Locked, TypeOK
<1>2. /\ locals \in Job /\ locals.ids = job[p].ids /\ ~locals.executed
      /\ locals.live = job[p].live
  BY <1>1 DEF Job
<1>3. Goto(p, "sweep", locals)
  BY DEF SweepBuild
<1> HIDE DEF locals
<1>4. pc'[p] = "sweep" /\ job'[p] = locals
  BY <1>3 DEF Goto, TypeOK
<1>5. store' \in [Build -> Contents]
  BY DEF SweepBuild, TypeOK, Contents
<1>6. Fits(p)'
  BY <1>1, <1>2, <1>4 DEF SweepBuild, diskVars, Fits, LockHeld, CandidatesSpared,
     RoomForNext, IndexWork, SweepSpares, TagsOnly, ExecutedInApply, RealizedBy, Locked
<1> QED
  BY <1>1, <1>2, <1>3, <1>5, <1>6, QuietStep DEF SweepBuild, Locked, TypeOK

LEMMA LoadIndexKeepsIInv ==
  ASSUME IInv, NEW p \in Process, LoadIndex(p)
  PROVE  IInv'
<1> USE DEF IInv
<1> DEFINE locals == [job[p] EXCEPT !.seen = index]
<1>1. pc[p] = "load_index" /\ lock = p /\ job[p] \in Job
  BY DEF LoadIndex, Fits, LockHeld, Locked, TypeOK
<1>2. /\ locals \in Job /\ locals.seen = index
      /\ locals.op = job[p].op /\ locals.id = job[p].id /\ locals.ids = job[p].ids
      /\ locals.builds = job[p].builds /\ locals.todo = job[p].todo
      /\ locals.doing = job[p].doing /\ locals.executed = job[p].executed
  BY <1>1 DEF Job, TypeOK
<1>3. Goto(p, "save_index", locals)
  BY DEF LoadIndex
<1> HIDE DEF locals
<1>4. /\ pc'[p] = "save_index" /\ job'[p] = locals
      /\ \A q \in Process \ {p} : job'[q] = job[q]
  BY <1>3 DEF Goto, TypeOK
<1>5. IndexWork(p)'
  BY <1>1, <1>2, <1>4 DEF LoadIndex, diskVars, Fits, IndexWork, AddIsNew
<1>6. Fits(p)'
  BY <1>1, <1>2, <1>4, <1>5 DEF LoadIndex, diskVars, Fits, LockHeld, CandidatesSpared,
     RoomForNext, SweepSpares, TagsOnly, ExecutedInApply, RealizedBy, Locked
<1> QED
  BY <1>1, <1>2, <1>3, <1>6, QuietStep DEF LoadIndex, Locked, TypeOK

-----------------------------------------------------------------------------
(* Steps that change the files or the index                                *)

\* While p has the lock, the other processes are at steps that only rely on
\* their candidates.
LEMMA OthersFit ==
  ASSUME IInv, NEW p \in Process, NEW q \in Process \ {p}, lock = p,
         lock' # q, pc'[q] = pc[q], job'[q] = job[q], CandidatesSpared(q)'
  PROVE  Fits(q)'
<1>1. pc[q] \notin Locked
  BY DEF IInv, Fits, LockHeld
<1> QED
  BY <1>1 DEF IInv, Fits, LockHeld, RoomForNext, IndexWork, SweepSpares, TagsOnly,
     ExecutedInApply, RealizedBy, Locked

LEMMA WriteSnapshotKeepsIInv ==
  ASSUME IInv, NEW p \in Process, WriteSnapshot(p)
  PROVE  IInv'
<1> USE DEF IInv
<1> DEFINE locals == [job[p] EXCEPT !.op = "add", !.id = FreshId]
<1>1. /\ pc[p] = "publish" /\ lock = p /\ lock' = lock /\ job[p] \in Job
      /\ clock < MaxSnapshots
  BY DEF WriteSnapshot, Fits, LockHeld, RoomForNext, Locked, TypeOK
<1>2. clock' = clock + 1 /\ clock \in Nat /\ clock' \in 1 .. MaxSnapshots
  BY <1>1, CommandsAssumption DEF WriteSnapshot, FreshId, TypeOK
<1>3. /\ locals \in Job /\ locals.op = "add" /\ locals.id = clock'
      /\ locals.ids = job[p].ids
      /\ locals.builds = job[p].builds /\ locals.todo = job[p].todo
      /\ locals.doing = job[p].doing /\ locals.executed = job[p].executed
  BY <1>1, <1>2 DEF Job, FreshId, Id
<1>4. Goto(p, "load_index", locals)
  BY DEF WriteSnapshot
<1> HIDE DEF locals
<1>5. /\ pc'[p] = "load_index" /\ job'[p] = locals
      /\ \A q \in Process \ {p} : pc'[q] = pc[q] /\ job'[q] = job[q]
  BY <1>4 DEF Goto, TypeOK
<1>6. TypeOK'
  <2>1. FreshId \in Id /\ job[p].builds \subseteq Build
    BY <1>1, <1>2 DEF FreshId, Id, Job
  <2>2. files' \subseteq Id /\ manifest' \in [Id -> SUBSET Build]
    BY <2>1 DEF WriteSnapshot, TypeOK
  <2>3. clock' \in 0 .. MaxSnapshots
    BY <1>2
  <2> QED
    BY <1>3, <1>4, <2>2, <2>3, GotoType DEF WriteSnapshot, TypeOK, Locked
<1>7. (CurrentIsLoadable /\ AtMostOneCurrent /\ ListedAreOld)'
  BY <1>2 DEF WriteSnapshot, CurrentIsLoadable, AtMostOneCurrent, ListedAreOld, TypeOK,
     Index, Id
<1>8. \A q \in Process : CandidatesSpared(q)' /\ \A s \in job'[q].ids : s < clock'
  <2> SUFFICES ASSUME NEW q \in Process
               PROVE  CandidatesSpared(q)' /\ \A s \in job'[q].ids : s < clock'
    OBVIOUS
  <2>1. job'[q].ids = job[q].ids /\ job[q].ids \subseteq Id
    BY <1>3, <1>5 DEF TypeOK, Job
  <2> QED
    BY <1>2, <2>1 DEF WriteSnapshot, Fits, CandidatesSpared, Id
<1>9. AddIsNew(p)'
  <2>1. \A s \in index.listed : s < clock'
    BY <1>2 DEF ListedAreOld, TypeOK, Index, Id
  <2> QED
    BY <1>2, <1>3, <1>5, <1>8, <2>1 DEF AddIsNew, WriteSnapshot, FreshId
<1>10. Fits(p)'
  BY <1>1, <1>3, <1>5, <1>8, <1>9 DEF WriteSnapshot, Fits, LockHeld, RoomForNext,
     IndexWork, SweepSpares, TagsOnly, ExecutedInApply, RealizedBy, Locked
<1>11. ASSUME NEW q \in Process, q # p PROVE Fits(q)'
  BY <1>1, <1>5, <1>8, <1>11, OthersFit
<1> QED
  BY <1>6, <1>7, <1>10, <1>11

LEMMA DeleteFileKeepsIInv ==
  ASSUME IInv, NEW p \in Process, NEW s \in Id, DeleteFile(p, s)
  PROVE  IInv'
<1> USE DEF IInv
<1> DEFINE locals == [job[p] EXCEPT !.op = "remove", !.id = s, !.ids = @ \ {s}]
<1>1. /\ pc[p] = "delete_file" /\ lock = p /\ lock' = lock /\ job[p] \in Job
      /\ s \in job[p].ids /\ s \notin index.current /\ ~job[p].executed
  BY DEF DeleteFile, Fits, LockHeld, CandidatesSpared, ExecutedInApply, Locked, TypeOK
<1>2. /\ locals \in Job /\ locals.op = "remove" /\ locals.id = s
      /\ locals.ids \subseteq job[p].ids /\ ~locals.executed
  BY <1>1 DEF Job
<1>3. Goto(p, "load_index", locals)
  BY DEF DeleteFile
<1> HIDE DEF locals
<1>4. /\ pc'[p] = "load_index" /\ job'[p] = locals
      /\ \A q \in Process \ {p} : pc'[q] = pc[q] /\ job'[q] = job[q]
  BY <1>3 DEF Goto, TypeOK
<1>5. TypeOK'
  BY <1>2, <1>3, GotoType DEF DeleteFile, TypeOK, Locked
<1>6. (CurrentIsLoadable /\ AtMostOneCurrent /\ ListedAreOld)'
  BY <1>1 DEF DeleteFile, CurrentIsLoadable, AtMostOneCurrent, ListedAreOld
<1>7. \A q \in Process : CandidatesSpared(q)'
  BY <1>2, <1>4 DEF DeleteFile, Fits, CandidatesSpared
<1>8. Fits(p)'
  BY <1>1, <1>2, <1>4, <1>7 DEF DeleteFile, Fits, LockHeld, RoomForNext, IndexWork,
     AddIsNew, SweepSpares, TagsOnly, ExecutedInApply, RealizedBy, Locked
<1>9. ASSUME NEW q \in Process, q # p PROVE Fits(q)'
  BY <1>1, <1>4, <1>7, <1>9, OthersFit
<1> QED
  BY <1>5, <1>6, <1>8, <1>9

LEMMA SaveIndexKeepsIInv ==
  ASSUME IInv, NEW p \in Process, SaveIndex(p)
  PROVE  IInv'
<1> USE DEF IInv
<1> DEFINE j == job[p]
<1>1. pc[p] = "save_index" /\ lock = p /\ j \in Job /\ j.seen = index
  BY DEF SaveIndex, TypeOK, Fits, LockHeld, Locked, IndexWork
<1>2. index' = Changed(index, j)
  BY <1>1 DEF SaveIndex
<1>3. j.op \in {"add", "remove"} => j.id \in Id
  BY <1>1 DEF Fits, IndexWork, AddIsNew, TypeOK
<1>4. index' \in Index
  BY <1>1, <1>2, <1>3, ChangedType DEF TypeOK
<1>5. TypeOK'
  <2> DEFINE rest == [NoJob EXCEPT !.ids = j.ids]
  <2>1. rest \in Job
    BY <1>1, NoJobType DEF NoJob, Job
  <2>2. \/ Goto(p, "delete_file", rest) /\ UNCHANGED lock
        \/ Return(p)
    BY DEF SaveIndex
  <2> HIDE DEF rest
  <2> QED
    BY <1>4, <2>1, <2>2, GotoType, ReturnType DEF SaveIndex, TypeOK, Locked
<1>6. /\ index'.listed \subseteq Id /\ index'.current \subseteq index'.listed
      /\ index'.listed \subseteq index.listed \cup {j.id}
      /\ \/ index'.current \subseteq index.current
         \/ index'.current = {j.id} /\ j.op = "add"
      /\ j.op # "add" => index'.listed \subseteq index.listed
  <2>1. /\ AddIsNew(p)
        /\ j.op = "point" => index.current = {j.id}
    BY <1>1 DEF Fits, IndexWork
  <2>2. index.current \subseteq index.listed /\ index \in Index
    BY DEF CurrentIsLoadable, TypeOK
  <2>3. /\ j.op = "add" => index'.listed = index.listed \cup {j.id} /\ index'.current = {j.id}
        /\ j.op = "point" =>
             /\ index'.listed = index.listed
             /\ index'.current = IF j.id \in index.listed THEN {j.id} ELSE index.current
        /\ j.op = "clear" => index'.listed = index.listed /\ index'.current = {}
        /\ j.op = "remove" =>
             index'.listed = index.listed \ {j.id} /\ index'.current = index.current \ {j.id}
        /\ j.op \in {"tags", "none"} => index'.listed = index.listed /\ index'.current = index.current
    BY <1>1, <1>2, <2>2, ChangedFields
  <2>4. index'.listed \subseteq Id
    BY <1>4 DEF Index
  <2>5. j.op = "remove" => j.id \notin index.current
    BY <1>1 DEF Fits, IndexWork
  <2>6. j.op \in {"add", "point", "clear", "remove", "tags", "none"}
    BY <1>1 DEF Job
  <2> HIDE DEF j
  <2> QED
    BY <2>1, <2>2, <2>3, <2>4, <2>5, <2>6
<1>7. j.op = "add" => j.id \in files /\ j.id <= clock
  BY <1>1 DEF Fits, IndexWork, AddIsNew
<1>8. (CurrentIsLoadable /\ AtMostOneCurrent /\ ListedAreOld)'
  BY <1>6, <1>7 DEF SaveIndex, CurrentIsLoadable, AtMostOneCurrent, ListedAreOld
<1>9. ASSUME NEW q \in Process, q # p PROVE Fits(q)'
  <2>1. pc'[q] = pc[q] /\ job'[q] = job[q] /\ lock' \in {p, Nobody}
    BY <1>1, <1>9 DEF SaveIndex, Goto, Return, TypeOK
  <2>2. CandidatesSpared(q)'
    BY <1>1, <1>6, <2>1 DEF SaveIndex, Fits, CandidatesSpared, IndexWork, AddIsNew, TypeOK,
       Job, Id
  <2> QED
    BY <1>1, <1>9, <2>1, <2>2, CommandsAssumption, OthersFit
<1>10. Fits(p)'
  <2>1. CASE Return(p)
    <3>1. pc'[p] = "idle" /\ job'[p] = NoJob /\ lock' # p
      BY <2>1, CommandsAssumption DEF Return, Goto, TypeOK
    <3> QED
      BY <3>1 DEF NoJob, Fits, LockHeld, CandidatesSpared, RoomForNext, IndexWork,
         SweepSpares, TagsOnly, ExecutedInApply, RealizedBy, Locked
  <2>2. CASE ~Return(p)
    <3> DEFINE rest == [NoJob EXCEPT !.ids = j.ids]
    <3>1. rest.ids = j.ids /\ ~rest.executed
      BY DEF NoJob
    <3>2. Goto(p, "delete_file", rest) /\ lock' = lock
      BY <2>2 DEF SaveIndex
    <3> HIDE DEF rest
    <3>3. pc'[p] = "delete_file" /\ job'[p] = rest
      BY <3>2 DEF Goto, TypeOK
    <3>4. CandidatesSpared(p)'
      BY <1>1, <1>6, <3>1, <3>3 DEF SaveIndex, Fits, CandidatesSpared, IndexWork, AddIsNew,
         TypeOK, Job, Id
    <3> QED
      BY <1>1, <3>1, <3>2, <3>3, <3>4 DEF SaveIndex, Fits, LockHeld, RoomForNext,
         IndexWork, SweepSpares, TagsOnly, ExecutedInApply, RealizedBy, Locked
  <2> QED
    BY <2>1, <2>2
<1> QED
  BY <1>5, <1>8, <1>9, <1>10

LEMMA CorruptKeepsIInv ==
  ASSUME IInv, NEW b \in Build, Corrupt(b)
  PROVE  IInv'
<1> USE DEF IInv
<1>1. TypeOK'
  BY DEF Corrupt, TypeOK, diskVars, Contents
<1>2. ASSUME NEW p \in Process PROVE Fits(p)'
  <2>1. RealizedBy(p)'
    BY DEF Corrupt, Fits, RealizedBy, TypeOK, Job
  <2> QED
    BY <2>1 DEF Corrupt, diskVars, Fits, LockHeld, CandidatesSpared, RoomForNext,
       IndexWork, AddIsNew, SweepSpares, TagsOnly, ExecutedInApply
<1> QED
  BY <1>1, <1>2 DEF Corrupt, diskVars, CurrentIsLoadable, AtMostOneCurrent, ListedAreOld

-----------------------------------------------------------------------------

LEMMA NextIInv == IInv /\ [Next]_vars => IInv'
<1> SUFFICES ASSUME IInv, [Next]_vars PROVE IInv'
  OBVIOUS
<1>1. CASE UNCHANGED vars
  BY <1>1 DEF vars, diskVars, IInv, TypeOK, CurrentIsLoadable, AtMostOneCurrent,
     ListedAreOld, Fits, LockHeld, CandidatesSpared, RoomForNext, IndexWork, AddIsNew,
     TagsOnly, SweepSpares, ExecutedInApply, RealizedBy
<1>2. CASE \E b \in Build : Corrupt(b)
  BY <1>2, CorruptKeepsIInv
<1>3. ASSUME NEW p \in Process, ApplyStep(p) PROVE IInv'
  BY <1>3, ApplyKeepsIInv, UseCachedKeepsIInv, StartBuildKeepsIInv, FinishBuildKeepsIInv,
     ExecutionFailsKeepsIInv, ExecutionSucceedsKeepsIInv, WriteSnapshotKeepsIInv
  DEF ApplyStep
<1>4. ASSUME NEW p \in Process, SnapshotStep(p) PROVE IInv'
  BY <1>4, ChooseCandidatesKeepsIInv, StartDeleteKeepsIInv, DeleteFileKeepsIInv,
     ReadForTagKeepsIInv, ReadForUntagKeepsIInv, StartTaggingKeepsIInv
  DEF SnapshotStep
<1>5. ASSUME NEW p \in Process, SweepDone(p) \/ Contended(p) \/ Crash(p) PROVE IInv'
  <2>1. store' = store /\ store \in [Build -> Contents] /\ UNCHANGED diskVars /\ Return(p)
    BY <1>5 DEF SweepDone, Contended, Crash, IInv, TypeOK
  <2> QED
    BY <2>1, ReturnKeepsIInv
<1>6. ASSUME NEW p \in Process, GcStep(p) PROVE IInv'
  BY <1>5, <1>6, CollectGarbageKeepsIInv, SweepBuildKeepsIInv DEF GcStep
<1> QED
  BY <1>1, <1>2, <1>3, <1>4, <1>5, <1>6, DestroyKeepsIInv, LoadIndexKeepsIInv,
     SaveIndexKeepsIInv DEF Next

\* However commands overlap and are killed, the inductive invariant holds.
THEOREM Invariance == Spec => []IInv
BY InitIInv, NextIInv, PTL DEF Spec

\* Every variable, and every process's locals, keep their type.
THEOREM TypeCorrect == Spec => []TypeOK
<1>1. IInv => TypeOK
  BY DEF IInv
<1> QED
  BY <1>1, Invariance, PTL

\* load_current never finds the current snapshot's file missing, whatever
\* processes overlap or are killed.
THEOREM CurrentStaysLoadable == Spec => []CurrentIsLoadable
<1>1. IInv => CurrentIsLoadable
  BY DEF IInv
<1> QED
  BY <1>1, Invariance, PTL

\* gc never takes away what a running apply has realized.
THEOREM RealizedBuildsStay == Spec => []RealizedStay
<1>1. IInv => RealizedStay
  BY DEF IInv, Fits, RealizedBy, RealizedStay
<1> QED
  BY <1>1, Invariance, PTL

\* The builds of listed snapshots survive every command.
THEOREM GcSparesListedBuilds == Spec => ListedBuildsKept
<1> DEFINE Kept ==
      \A s \in index.listed \cap files : \A b \in manifest[s] :
        store[b] = "complete" => store'[b] \in {"complete", "corrupt"}
<1>1. IInv /\ [Next]_vars => [Kept]_vars
  <2> SUFFICES ASSUME IInv, Next, NEW s \in index.listed \cap files, NEW b \in manifest[s],
                      store[b] = "complete"
               PROVE  store'[b] \in {"complete", "corrupt"}
    OBVIOUS
  <2>1. b \in Build /\ store \in [Build -> Contents]
    BY DEF IInv, TypeOK, Index
  <2>2. ASSUME NEW c \in Build, Corrupt(c) PROVE store'[b] \in {"complete", "corrupt"}
    BY <2>1, <2>2 DEF Corrupt
  <2>3. ASSUME NEW p \in Process, ApplyStep(p) PROVE store'[b] \in {"complete", "corrupt"}
    <3>1. ASSUME NEW c \in Build, StartBuild(p, c) \/ FinishBuild(p, c)
          PROVE  store'[b] \in {"complete", "corrupt"}
      BY <2>1, <3>1 DEF StartBuild, FinishBuild, CacheHit
    <3>2. ASSUME NEW op \in {"none", "point", "clear"}, NEW ended \in SUBSET Build,
                 ExecutionFails(p, op, ended)
          PROVE  store'[b] \in {"complete", "corrupt"}
      BY <2>1, <3>2 DEF ExecutionFails
    <3> QED
      BY <2>1, <2>3, <3>1, <3>2 DEF ApplyStep, Apply, UseCached, ExecutionSucceeds,
         WriteSnapshot
  <2>4. ASSUME NEW p \in Process, NEW c \in Build, SweepBuild(p, c)
        PROVE  store'[b] \in {"complete", "corrupt"}
    <3>1. b \in job[p].live
      BY <2>4 DEF SweepBuild, IInv, Fits, SweepSpares
    <3> QED
      BY <2>1, <2>4, <3>1 DEF SweepBuild
  <2>5. ASSUME NEW p \in Process, SnapshotStep(p) \/ Destroy(p) \/ CollectGarbage(p)
                 \/ SweepDone(p) \/ LoadIndex(p) \/ SaveIndex(p) \/ Contended(p) \/ Crash(p)
        PROVE  store' = store
    BY <2>5 DEF SnapshotStep, ChooseCandidates, StartDelete, DeleteFile, ReadForTag,
       ReadForUntag, StartTagging, Destroy, CollectGarbage, SweepDone, LoadIndex, SaveIndex,
       Contended, Crash
  <2> QED
    BY <2>2, <2>3, <2>4, <2>5 DEF Next, GcStep
<1> QED
  BY <1>1, Invariance, PTL DEF Spec, ListedBuildsKept

\* Seen from outside, the index is the log: saving it is the step of the log
\* that the operation stands for, and nothing else touches it.
THEOREM IndexIsLog == Spec => ImplementsSnapshotLog
<1>1. Init => Log!Init
  BY DEF Init, EmptyIndex, Log!Init
<1>2. IInv /\ [Next]_vars => [Log!Next]_(Log!vars)
  <2> SUFFICES ASSUME IInv, [Next]_vars PROVE [Log!Next]_(Log!vars)
    OBVIOUS
  <2>1. ASSUME NEW p \in Process, SaveIndex(p) PROVE [Log!Next]_(Log!vars)
    <3> DEFINE j == job[p]
    <3>1. /\ pc[p] = "save_index" /\ index \in Index /\ j \in Job
          /\ j.seen = index /\ AddIsNew(p) /\ index.current \subseteq index.listed
          /\ j.op = "point" => index.current = {j.id}
          /\ j.op = "remove" => j.id \in Id \ index.current
      BY <2>1 DEF SaveIndex, IInv, TypeOK, Fits, IndexWork, CurrentIsLoadable
    <3>2. index' = Changed(index, j)
      BY <2>1, <3>1 DEF SaveIndex
    <3>3. CASE j.op = "add"
      <4>1. index'.listed = index.listed \cup {j.id} /\ index'.current = {j.id}
        BY <3>1, <3>2, <3>3, ChangedFields
      <4>2. j.id \in Id /\ \A s \in index.listed : s < j.id
        BY <3>1, <3>3 DEF AddIsNew, IInv, TypeOK
      <4>3. Log!Record(j.id)
        BY <4>1, <4>2 DEF Log!Record
      <4> QED
        BY <4>2, <4>3 DEF Log!Next
    <3>4. CASE j.op = "point"
      <4>1. index'.listed = index.listed /\ index'.current = index.current
        BY <3>1, <3>2, <3>4, ChangedFields
      <4> QED
        BY <4>1 DEF Log!vars
    <3>5. CASE j.op = "clear"
      <4>1. index'.listed = index.listed /\ index'.current = {}
        BY <3>1, <3>2, <3>5, ChangedFields
      <4> QED
        BY <4>1 DEF Log!Next, Log!Forget
    <3>6. CASE j.op = "remove"
      <4>1. index'.listed = index.listed \ {j.id} /\ index'.current = index.current \ {j.id}
        BY <3>1, <3>2, <3>6, ChangedFields
      <4>2. index'.current = index.current
        BY <3>1, <3>6, <4>1
      <4>3. CASE j.id \in index.listed
        BY <3>1, <3>6, <4>1, <4>2, <4>3 DEF Log!Next, Log!Remove
      <4>4. CASE j.id \notin index.listed
        BY <4>1, <4>2, <4>4 DEF Log!vars
      <4> QED
        BY <4>3, <4>4
    <3>7. CASE j.op \in {"tags", "none"}
      <4>1. index'.listed = index.listed /\ index'.current = index.current
        BY <3>1, <3>2, <3>7, ChangedFields
      <4> QED
        BY <4>1 DEF Log!vars
    <3> QED
      BY <3>1, <3>3, <3>4, <3>5, <3>6, <3>7 DEF Job
  <2>2. CASE UNCHANGED index
    BY <2>2 DEF Log!vars
  <2>3. UNCHANGED index \/ \E p \in Process : SaveIndex(p)
    <3>1. CASE UNCHANGED vars
      BY <3>1 DEF vars, diskVars
    <3>2. ASSUME NEW p \in Process, ApplyStep(p) PROVE UNCHANGED index
      BY <3>2 DEF ApplyStep, Apply, UseCached, StartBuild, FinishBuild, ExecutionFails,
         ExecutionSucceeds, WriteSnapshot, diskVars
    <3>3. ASSUME NEW p \in Process, SnapshotStep(p) PROVE UNCHANGED index
      BY <3>3 DEF SnapshotStep, ChooseCandidates, StartDelete, DeleteFile, ReadForTag,
         ReadForUntag, StartTagging, diskVars
    <3>4. ASSUME NEW p \in Process,
                 Destroy(p) \/ GcStep(p) \/ LoadIndex(p) \/ Contended(p) \/ Crash(p)
          PROVE  UNCHANGED index
      BY <3>4 DEF Destroy, GcStep, CollectGarbage, SweepBuild, SweepDone, LoadIndex,
         Contended, Crash, diskVars
    <3> QED
      BY <3>1, <3>2, <3>3, <3>4 DEF Next, Corrupt, diskVars
  <2> QED
    BY <2>1, <2>2, <2>3
<1> QED
  BY <1>1, <1>2, Invariance, PTL DEF Spec, ImplementsSnapshotLog, Log!Spec

-----------------------------------------------------------------------------
(* The commands that read                                                  *)


Reader ==
  [cmd : {"none", "status", "plan", "diff", "list", "show"},
   at : {"idle", "current", "file", "second", "tags", "look", "shown", "refused", "missing"},
   listed : SUBSET Id, current : SUBSET Id, sought : SUBSET Id,
   given : SUBSET Nat, old : SUBSET Nat,
   new : SUBSET Build, left : SUBSET Build, found : SUBSET Build]

ReaderType == reader \in Reader /\ moment \in Index

\* The index is about to gain, or to lose, the id of p's job.
Adding(p) == pc[p] \in {"load_index", "save_index"} /\ job[p].op = "add"
Removing(p) == pc[p] \in {"load_index", "save_index"} /\ job[p].op = "remove"

\* The file goes before the entry.
RemovedFirst ==
  \A p \in Process : Removing(p) => job[p].id \notin files /\ job[p].id <= clock

\* Ids that no command is going to add.
Known(ids) ==
  \A s \in ids : s <= clock /\ \A p \in Process : Adding(p) => s < job[p].id

\* A reader looks for one file at a time, and knows of one current snapshot.
OneAtATime ==
  /\ \A s, t \in reader.sought : s = t
  /\ \A s, t \in reader.current : s = t

\* An index read after reader.listed: what has come is later than all that was
\* there, and what has gone has no file.
After(later) ==
  /\ \A s \in reader.listed, t \in later.listed : t \in reader.listed \/ s < t
  /\ \A s \in reader.listed \ later.listed : s \notin files

\* The ways of a diff without arguments: the list has been read, then what is
\* current, then the files of that and of the one before it in the list.
DiffReadsCurrent == reader.at = "current" /\ reader.cmd = "diff" => After(index)
DiffReadsFiles ==
  reader.at = "file" /\ reader.cmd = "diff" =>
    /\ reader.given = {} /\ After(moment) /\ reader.current = moment.current
    /\ \/ reader.sought = reader.current
       \/ \A c \in reader.current :
            c \in reader.listed /\ reader.sought = Previous(reader.listed, c)
DiffCompares ==
  reader.at \in {"look", "shown"} /\ reader.cmd = "diff" /\ reader.given = {} =>
    /\ moment.current = reader.current
    /\ \A c \in reader.current : reader.old = Previous(moment.listed, c)

Ways ==
  /\ reader.at = "idle" => reader = Idle
  /\ reader.at \in {"current", "file"} => reader.given = {}
  /\ reader.at = "second" => reader.given # {}
  /\ reader.at = "tags" => reader.cmd # "diff"

ReadersInv ==
  /\ IInv /\ RemovedFirst
  /\ ReaderType /\ Ways /\ OneAtATime
  /\ Known(reader.listed \cup reader.sought)
  /\ CurrentIsFound
  /\ DiffReadsCurrent /\ DiffReadsFiles /\ DiffCompares

-----------------------------------------------------------------------------
(* What the steps of the writing commands do to ids and files              *)

\* Of the ids that there have been, none gets its file back; what comes into the
\* index is the id of a job that adds, what goes that of one that removes; and a
\* job that has just begun to do either has an id that is new, or no file.
Progress ==
  /\ clock <= clock'
  /\ \A s \in files' : s <= clock => s \in files
  /\ \A s \in index'.listed \ index.listed : \E p \in Process : Adding(p) /\ s = job[p].id
  /\ \A s \in index'.current \ index.current : \E p \in Process : Adding(p) /\ s = job[p].id
  /\ \A s \in index.listed \ index'.listed : \E p \in Process : Removing(p) /\ s = job[p].id
  /\ \A p \in Process : Adding(p)' =>
       (Adding(p) /\ job'[p].id = job[p].id) \/ job'[p].id > clock
  /\ \A p \in Process : Removing(p)' =>
       (Removing(p) /\ job'[p].id = job[p].id)
         \/ (job'[p].id \notin files' /\ job'[p].id <= clock)

\* A step of p that leaves the index and the files alone, and does not begin to
\* change them.
LEMMA QuietProgress ==
  ASSUME IInv, NEW p \in Process, NEW where, NEW locals, Goto(p, where, locals),
         UNCHANGED diskVars,
         \/ where \notin {"load_index", "save_index"}
         \/ locals.op \notin {"add", "remove"}
         \/ pc[p] = "load_index" /\ locals.op = job[p].op /\ locals.id = job[p].id
  PROVE  Progress
<1>1. /\ pc \in [Process -> Unlocked \cup Locked] /\ job \in [Process -> Job]
      /\ clock \in Nat
  BY CommandsAssumption DEF IInv, TypeOK
<1>2. pc'[p] = where /\ job'[p] = locals
  BY <1>1 DEF Goto
<1>3. \A q \in Process \ {p} : pc'[q] = pc[q] /\ job'[q] = job[q]
  BY <1>1 DEF Goto
<1>4. ASSUME NEW q \in Process, Adding(q)' \/ Removing(q)'
      PROVE  /\ Adding(q)' => Adding(q)
             /\ Removing(q)' => Removing(q)
             /\ job'[q].id = job[q].id
  <2>1. CASE q = p
    BY <1>2, <1>4, <2>1 DEF Adding, Removing
  <2>2. CASE q # p
    BY <1>3, <1>4, <2>2 DEF Adding, Removing
  <2> QED
    BY <2>1, <2>2
<1> QED
  BY <1>1, <1>4 DEF Progress, diskVars

LEMMA WriteSnapshotProgress ==
  ASSUME IInv, NEW p \in Process, WriteSnapshot(p)
  PROVE  Progress
<1>1. /\ pc \in [Process -> Unlocked \cup Locked] /\ job \in [Process -> Job]
      /\ clock \in Nat
  BY CommandsAssumption DEF IInv, TypeOK
<1>2. clock' = clock + 1 /\ files' = files \cup {clock + 1} /\ index' = index
  BY DEF WriteSnapshot, FreshId
<1>3. /\ pc'[p] = "load_index" /\ job'[p].op = "add" /\ job'[p].id = clock + 1
      /\ \A q \in Process \ {p} : pc'[q] = pc[q] /\ job'[q] = job[q]
  BY <1>1 DEF WriteSnapshot, FreshId, Goto, Job
<1>4. ASSUME NEW q \in Process
      PROVE  /\ Adding(q)' => (Adding(q) /\ job'[q].id = job[q].id) \/ job'[q].id > clock
             /\ Removing(q)' => Removing(q) /\ job'[q].id = job[q].id
  BY <1>1, <1>3 DEF Adding, Removing
<1> QED
  BY <1>1, <1>2, <1>4 DEF Progress

LEMMA DeleteFileProgress ==
  ASSUME IInv, NEW p \in Process, NEW s \in Id, DeleteFile(p, s)
  PROVE  Progress
<1>1. /\ pc \in [Process -> Unlocked \cup Locked] /\ job \in [Process -> Job]
      /\ clock \in Nat
  BY CommandsAssumption DEF IInv, TypeOK
<1>2. clock' = clock /\ files' = files \ {s} /\ index' = index
  BY DEF DeleteFile
<1>3. /\ pc'[p] = "load_index" /\ job'[p].op = "remove" /\ job'[p].id = s
      /\ \A q \in Process \ {p} : pc'[q] = pc[q] /\ job'[q] = job[q]
  BY <1>1 DEF DeleteFile, Goto, Job
<1>4. s <= clock
  BY DEF DeleteFile, IInv, Fits, CandidatesSpared
<1>5. ASSUME NEW q \in Process
      PROVE  /\ Adding(q)' => Adding(q) /\ job'[q].id = job[q].id
             /\ Removing(q)' =>
                  (Removing(q) /\ job'[q].id = job[q].id)
                    \/ (job'[q].id \notin files' /\ job'[q].id <= clock)
  BY <1>1, <1>2, <1>3, <1>4 DEF Adding, Removing
<1> QED
  BY <1>1, <1>2, <1>5 DEF Progress

LEMMA SaveIndexProgress ==
  ASSUME IInv, NEW p \in Process, SaveIndex(p)
  PROVE  Progress
<1> DEFINE j == job[p]
<1>1. /\ pc \in [Process -> Unlocked \cup Locked] /\ job \in [Process -> Job]
      /\ clock \in Nat /\ index \in Index
  BY CommandsAssumption DEF IInv, TypeOK
<1>2. /\ pc[p] = "save_index" /\ j \in Job /\ j.seen = index
      /\ j.op = "point" => index.current = {j.id}
  BY <1>1 DEF SaveIndex, IInv, Fits, IndexWork
<1>3. index' = Changed(index, j)
  BY <1>2 DEF SaveIndex
<1>4. clock' = clock /\ files' = files
  BY DEF SaveIndex
<1>5. /\ j.op # "add" => index'.listed \subseteq index.listed
      /\ j.op = "add" => index'.listed \subseteq index.listed \cup {j.id}
      /\ j.op # "remove" => index.listed \subseteq index'.listed
      /\ j.op = "remove" => index.listed \subseteq index'.listed \cup {j.id}
      /\ j.op # "add" => index'.current \subseteq index.current
      /\ j.op = "add" => index'.current = {j.id}
  <2>1. j.op \in {"none", "add", "point", "clear", "remove", "tags"}
    BY <1>2 DEF Job
  <2>2. CASE j.op = "add"
    <3>1. index'.listed = index.listed \cup {j.id} /\ index'.current = {j.id}
      BY <1>1, <1>2, <1>3, <2>2, ChangedFields
    <3> QED
      BY <2>2, <3>1
  <2>3. CASE j.op = "remove"
    <3>1. index'.listed = index.listed \ {j.id} /\ index'.current = index.current \ {j.id}
      BY <1>1, <1>2, <1>3, <2>3, ChangedFields
    <3> QED
      BY <2>3, <3>1
  <2>4. CASE j.op \in {"none", "point", "clear", "tags"}
    <3>1. index'.listed = index.listed /\ index'.current \subseteq index.current
      BY <1>1, <1>2, <1>3, <2>4, ChangedFields
    <3> QED
      BY <2>4, <3>1
  <2> QED
    BY <2>1, <2>2, <2>3, <2>4
<1>6. j.op = "add" => Adding(p)
  BY <1>2 DEF Adding
<1>7. j.op = "remove" => Removing(p)
  BY <1>2 DEF Removing
<1>8. pc'[p] \in {"delete_file", "idle"} /\ \A q \in Process \ {p} : pc'[q] = pc[q] /\ job'[q] = job[q]
  BY <1>1 DEF SaveIndex, Return, Goto
<1>9. ASSUME NEW q \in Process
      PROVE  /\ Adding(q)' => Adding(q) /\ job'[q].id = job[q].id
             /\ Removing(q)' => Removing(q) /\ job'[q].id = job[q].id
  BY <1>8 DEF Adding, Removing
<1> QED
  BY <1>1, <1>4, <1>5, <1>6, <1>7, <1>9 DEF Progress

\* An action that only moves on, or returns.
LEMMA GotoProgress ==
  ASSUME IInv, NEW p \in Process, NEW where, NEW locals, Goto(p, where, locals),
         UNCHANGED diskVars, where \notin {"load_index", "save_index"}
  PROVE  Progress
BY QuietProgress

LEMMA ApplyProgress ==
  ASSUME IInv, NEW p \in Process, ApplyStep(p)
  PROVE  Progress
<1>1. ASSUME NEW config \in Configs, NEW rebind \in BOOLEAN, Apply(p, config, rebind)
      PROVE  Progress
  <2>1. CASE NoBuildChanges(config) /\ ~rebind
    <3>1. Goto(p, "publish", [NoJob EXCEPT !.builds = config]) /\ UNCHANGED diskVars
      BY <1>1, <2>1 DEF Apply
    <3> QED
      BY <3>1, GotoProgress
  <2>2. CASE ~(NoBuildChanges(config) /\ ~rebind)
    <3>1. /\ Goto(p, "realize", [NoJob EXCEPT !.builds = config, !.todo = config,
                                              !.executed = TRUE])
          /\ UNCHANGED diskVars
      BY <1>1, <2>2 DEF Apply
    <3> QED
      BY <3>1, GotoProgress
  <2> QED
    BY <2>1, <2>2
<1>2. ASSUME NEW b \in Build, UseCached(p, b) \/ StartBuild(p, b) \/ FinishBuild(p, b)
      PROVE  Progress
  <2>1. PICK locals : Goto(p, "realize", locals)
    BY <1>2 DEF UseCached, StartBuild, FinishBuild
  <2>2. UNCHANGED diskVars
    BY <1>2 DEF UseCached, StartBuild, FinishBuild
  <2> QED
    BY <2>1, <2>2, GotoProgress
<1>3. ASSUME NEW op \in {"none", "point", "clear"}, NEW ended \in SUBSET Build,
             ExecutionFails(p, op, ended)
      PROVE  Progress
  <2>1. UNCHANGED diskVars
    BY <1>3 DEF ExecutionFails
  <2>2. CASE Return(p)
    BY <2>1, <2>2, GotoProgress DEF Return
  <2>3. ASSUME NEW s, Goto(p, "load_index", [NoJob EXCEPT !.op = op, !.id = s])
        PROVE  Progress
    <3>1. [NoJob EXCEPT !.op = op, !.id = s].op = op
      BY DEF NoJob
    <3> QED
      BY <2>1, <2>3, <3>1, QuietProgress
  <2> QED
    BY <1>3, <2>2, <2>3 DEF ExecutionFails
<1>4. ASSUME ExecutionSucceeds(p) PROVE Progress
  BY <1>4, GotoProgress DEF ExecutionSucceeds
<1> QED
  BY <1>1, <1>2, <1>3, <1>4, WriteSnapshotProgress DEF ApplyStep

LEMMA SnapshotProgress ==
  ASSUME IInv, NEW p \in Process, SnapshotStep(p)
  PROVE  Progress
<1>1. ASSUME NEW ids \in SUBSET index.listed, ChooseCandidates(p, ids) PROVE Progress
  BY <1>1, GotoProgress DEF ChooseCandidates
<1>2. ASSUME StartDelete(p) PROVE Progress
  BY <1>2, GotoProgress DEF StartDelete
<1>3. ASSUME NEW s \in Id, NEW t \in Tag, ReadForTag(p, s, t) PROVE Progress
  BY <1>3, GotoProgress DEF ReadForTag
<1>4. ASSUME NEW s \in Id, NEW gone \in SUBSET Tag, ReadForUntag(p, s, gone) PROVE Progress
  BY <1>4, GotoProgress DEF ReadForUntag
<1>5. ASSUME StartTagging(p) PROVE Progress
  <2>1. job[p].op = "tags"
    BY <1>5 DEF StartTagging, IInv, Fits, TagsOnly
  <2> QED
    BY <1>5, <2>1, QuietProgress DEF StartTagging
<1> QED
  BY <1>1, <1>2, <1>3, <1>4, <1>5, DeleteFileProgress DEF SnapshotStep

LEMMA OtherProgress ==
  ASSUME IInv, NEW p \in Process,
         Destroy(p) \/ GcStep(p) \/ LoadIndex(p) \/ Contended(p) \/ Crash(p)
  PROVE  Progress
<1>1. ASSUME Destroy(p) PROVE Progress
  <2>1. [NoJob EXCEPT !.op = "clear"].op = "clear"
    BY DEF NoJob
  <2> QED
    BY <1>1, <2>1, QuietProgress DEF Destroy
<1>2. ASSUME CollectGarbage(p) PROVE Progress
  BY <1>2, GotoProgress DEF CollectGarbage
<1>3. ASSUME NEW b \in Build, SweepBuild(p, b) PROVE Progress
  BY <1>3, GotoProgress DEF SweepBuild
<1>4. ASSUME SweepDone(p) \/ Contended(p) \/ Crash(p) PROVE Progress
  BY <1>4, GotoProgress DEF SweepDone, Contended, Crash, Return
<1>5. ASSUME LoadIndex(p) PROVE Progress
  <2>1. job[p] \in Job
    BY DEF IInv, TypeOK
  <2>2. /\ [job[p] EXCEPT !.seen = index].op = job[p].op
        /\ [job[p] EXCEPT !.seen = index].id = job[p].id
    BY <2>1 DEF Job
  <2> QED
    BY <1>5, <2>2, QuietProgress DEF LoadIndex
<1> QED
  BY <1>1, <1>2, <1>3, <1>4, <1>5 DEF GcStep

\* Every step of the commands that write is such progress.
LEMMA NextProgress ==
  ASSUME IInv, [Next]_vars
  PROVE  Progress
<1>1. clock \in Nat
  BY CommandsAssumption DEF IInv, TypeOK
<1>2. CASE UNCHANGED vars
  BY <1>1, <1>2 DEF vars, diskVars, Progress, Adding, Removing
<1>3. ASSUME NEW b \in Build, Corrupt(b) PROVE Progress
  BY <1>1, <1>3 DEF Corrupt, diskVars, Progress, Adding, Removing
<1> QED
  BY <1>2, <1>3, ApplyProgress, SnapshotProgress, OtherProgress, SaveIndexProgress DEF Next

-----------------------------------------------------------------------------
(* Steps of the commands that write, between two reads                     *)

LEMMA InitReaders == ReadersInit => ReadersInv
<1> SUFFICES ASSUME ReadersInit PROVE ReadersInv
  OBVIOUS
<1>1. IInv
  BY InitIInv DEF ReadersInit
<1>2. reader = Idle /\ moment = EmptyIndex /\ \A p \in Process : pc[p] = "idle"
  BY DEF ReadersInit, Init
<1>3. RemovedFirst
  BY <1>2 DEF RemovedFirst, Removing
<1>4. ReaderType
  BY <1>2 DEF ReaderType, Reader, Idle, EmptyIndex, Index
<1>5. Ways /\ OneAtATime /\ Known(reader.listed \cup reader.sought)
  BY <1>2 DEF Ways, OneAtATime, Known, Idle
<1>6. CurrentIsFound /\ DiffReadsCurrent /\ DiffReadsFiles /\ DiffCompares
  BY <1>2 DEF CurrentIsFound, DiffReadsCurrent, DiffReadsFiles, DiffCompares, Idle
<1> QED
  BY <1>1, <1>3, <1>4, <1>5, <1>6 DEF ReadersInv

\* What a reader knows stays true while others write.
LEMMA WritersStep ==
  ASSUME ReadersInv, [Next]_vars, UNCHANGED readVars
  PROVE  ReadersInv'
<1>1. IInv /\ IInv' /\ Progress
  BY NextIInv, NextProgress DEF ReadersInv
<1>2. /\ clock \in Nat /\ clock' \in Nat /\ clock <= clock'
      /\ \A p \in Process : job[p].id \in Nat /\ job'[p].id \in Nat
      /\ Id \subseteq Nat /\ index.listed \subseteq Id /\ index'.listed \subseteq Id
      /\ reader' = reader /\ moment' = moment
  BY <1>1, CommandsAssumption DEF IInv, TypeOK, Job, Index, Id, Progress, readVars
<1>3. \A s : s <= clock /\ s \notin files => s \notin files'
  BY <1>1 DEF Progress
<1>4. RemovedFirst'
  <2> SUFFICES ASSUME NEW p \in Process, Removing(p)'
               PROVE  job'[p].id \notin files' /\ job'[p].id <= clock'
    BY DEF RemovedFirst
  <2>1. \/ Removing(p) /\ job'[p].id = job[p].id
        \/ job'[p].id \notin files' /\ job'[p].id <= clock
    BY <1>1 DEF Progress
  <2>2. Removing(p) => job[p].id \notin files /\ job[p].id <= clock
    BY DEF ReadersInv, RemovedFirst
  <2>3. job'[p].id \notin files' /\ job'[p].id <= clock
    BY <1>3, <2>1, <2>2
  <2> QED
    BY <1>2, <2>3
<1>5. ReaderType' /\ Ways' /\ OneAtATime' /\ DiffCompares'
  BY <1>2 DEF ReadersInv, ReaderType, Reader, Ways, OneAtATime, DiffCompares, Previous
<1>6. /\ reader.listed \subseteq Id /\ reader.sought \subseteq Id
      /\ \A s \in reader.listed \cup reader.sought :
           s <= clock /\ \A p \in Process : Adding(p) => s < job[p].id
  BY DEF ReadersInv, ReaderType, Reader, Known
<1>7. Known(reader.listed \cup reader.sought)'
  <2> SUFFICES ASSUME NEW s \in reader.listed \cup reader.sought
               PROVE  s <= clock' /\ \A p \in Process : Adding(p)' => s < job'[p].id
    BY <1>2 DEF Known
  <2>1. s \in Nat /\ s <= clock
    BY <1>2, <1>6
  <2>2. ASSUME NEW p \in Process, Adding(p)' PROVE s < job'[p].id
    <3>1. (Adding(p) /\ job'[p].id = job[p].id) \/ job'[p].id > clock
      BY <1>1, <2>2 DEF Progress
    <3> QED
      BY <1>2, <1>6, <2>1, <3>1
  <2> QED
    BY <1>2, <2>1, <2>2
<1>8. CurrentIsFound'
  <2>1. \A s \in reader.sought : s \in index'.current => s \in index.current
    <3> SUFFICES ASSUME NEW s \in reader.sought, s \in index'.current, s \notin index.current
                 PROVE  FALSE
      OBVIOUS
    <3>1. PICK p \in Process : Adding(p) /\ s = job[p].id
      BY <1>1 DEF Progress
    <3>2. s < job[p].id
      BY <1>6, <3>1
    <3> QED
      BY <1>2, <3>1, <3>2
  <2> QED
    BY <1>2, <2>1 DEF ReadersInv, CurrentIsFound
<1>9. DiffReadsCurrent'
  <2> SUFFICES ASSUME After(index)
               PROVE  After(index)'
    BY <1>2 DEF ReadersInv, DiffReadsCurrent
  <2>1. ASSUME NEW s \in reader.listed, NEW t \in index'.listed, t \notin reader.listed
        PROVE  s < t
    <3>1. CASE t \in index.listed
      BY <2>1, <3>1 DEF After
    <3>2. CASE t \notin index.listed
      <4>1. PICK p \in Process : Adding(p) /\ t = job[p].id
        BY <1>1, <2>1, <3>2 DEF Progress
      <4> QED
        BY <1>6, <4>1
    <3> QED
      BY <3>1, <3>2
  <2>2. ASSUME NEW s \in reader.listed, s \notin index'.listed
        PROVE  s \notin files'
    <3>1. s \notin files
      <4>1. CASE s \notin index.listed
        BY <2>2, <4>1 DEF After
      <4>2. CASE s \in index.listed
        <5>1. PICK p \in Process : Removing(p) /\ s = job[p].id
          BY <1>1, <2>2, <4>2 DEF Progress
        <5> QED
          BY <5>1 DEF ReadersInv, RemovedFirst
      <4> QED
        BY <4>1, <4>2
    <3> QED
      BY <1>3, <1>6, <3>1
  <2> QED
    BY <1>2, <2>1, <2>2 DEF After
<1>10. DiffReadsFiles'
  <2>1. After(moment) => After(moment)'
    BY <1>2, <1>3, <1>6 DEF After
  <2> QED
    BY <1>2, <2>1 DEF ReadersInv, DiffReadsFiles, Previous
<1> QED
  BY <1>1, <1>4, <1>5, <1>7, <1>8, <1>9, <1>10 DEF ReadersInv

-----------------------------------------------------------------------------
(* The reads                                                               *)

\* A read changes nothing that the commands share.
LEMMA ReadOnly ==
  ASSUME ReadersInv, UNCHANGED vars
  PROVE  /\ IInv' /\ RemovedFirst'
         /\ \A ids : (\A s \in ids : s <= clock /\ \A p \in Process : Adding(p) => s < job[p].id)
              => \A s \in ids : s <= clock' /\ \A p \in Process : Adding(p)' => s < job'[p].id
         /\ index' = index /\ files' = files
<1>1. IInv'
  BY NextIInv DEF ReadersInv
<1>2. /\ pc' = pc /\ job' = job /\ files' = files /\ clock' = clock /\ index' = index
      /\ \A p : (Adding(p)' <=> Adding(p)) /\ (Removing(p)' <=> Removing(p))
  BY DEF vars, diskVars, Adding, Removing
<1> QED
  BY <1>1, <1>2 DEF ReadersInv, RemovedFirst

\* What is listed, or current, nobody is about to add.
LEMMA ListedKnown ==
  ASSUME IInv
  PROVE  /\ Known(index.listed) /\ Known(index.current)
         /\ index.current \subseteq index.listed
<1>1. index.current \subseteq index.listed
  BY DEF IInv, CurrentIsLoadable
<1>2. ASSUME NEW s \in index.listed
      PROVE  s <= clock /\ \A p \in Process : Adding(p) => s < job[p].id
  BY DEF IInv, ListedAreOld, Adding, Fits, IndexWork, AddIsNew
<1> QED
  BY <1>1, <1>2 DEF Known

\* There is one entry before another.
LEMMA PreviousFacts ==
  ASSUME NEW ids \in SUBSET Id, NEW s \in Id
  PROVE  /\ Previous(ids, s) \subseteq ids
         /\ \A t \in Previous(ids, s) : t < s
         /\ \A t, u \in Previous(ids, s) : t = u
<1>1. Id \subseteq Nat
  BY DEF Id
<1> QED
  BY <1>1 DEF Previous

\* A command that ends, or goes on to print, without having looked for anything
\* else.
LEMMA EndKeeps ==
  ASSUME ReadersInv, NEW how \in {"second", "tags", "shown", "refused"}, NEW r \in Reader,
         UNCHANGED vars, reader' = [r EXCEPT !.at = how], moment' \in Index,
         Known(r.listed \cup r.sought),
         \A s, t \in r.sought : s = t, \A s, t \in r.current : s = t,
         how = "second" => r.given # {}, how = "tags" => r.cmd # "diff",
         how = "shown" => r.cmd # "diff"
  PROVE  ReadersInv'
<1>1. /\ reader' \in Reader /\ reader'.at = how /\ reader'.cmd = r.cmd
      /\ reader'.listed = r.listed /\ reader'.sought = r.sought
      /\ reader'.current = r.current /\ reader'.given = r.given
  BY DEF Reader
<1>2. IInv' /\ RemovedFirst'
  BY ReadOnly
<1>3. Known(reader.listed \cup reader.sought)'
  BY <1>1, ReadOnly DEF Known
<1>4. ReaderType' /\ Ways' /\ OneAtATime'
  BY <1>1 DEF ReaderType, Ways, OneAtATime, Reader, Index, Id
<1>5. CurrentIsFound' /\ DiffReadsCurrent' /\ DiffReadsFiles' /\ DiffCompares'
  BY <1>1 DEF CurrentIsFound, DiffReadsCurrent, DiffReadsFiles, DiffCompares
<1> QED
  BY <1>2, <1>3, <1>4, <1>5 DEF ReadersInv

\* A command that has read its files, and looks at the store next.
LEMMA LookKeeps ==
  ASSUME ReadersInv, NEW r \in Reader, NEW old \in SUBSET Nat, NEW new \in SUBSET Build,
         UNCHANGED vars, reader' = Look(r, old, new), moment' \in Index,
         Known(r.listed \cup r.sought),
         \A s, t \in r.sought : s = t, \A s, t \in r.current : s = t,
         r.cmd = "diff" /\ r.given = {} =>
           /\ moment'.current = r.current
           /\ \A c \in r.current : old = Previous(moment'.listed, c)
  PROVE  ReadersInv'
<1>1. /\ reader' \in Reader /\ reader'.at = "look" /\ reader'.cmd = r.cmd
      /\ reader'.listed = r.listed /\ reader'.sought = r.sought
      /\ reader'.current = r.current /\ reader'.given = r.given /\ reader'.old = old
  BY DEF Reader, Look
<1>2. IInv' /\ RemovedFirst'
  BY ReadOnly
<1>3. Known(reader.listed \cup reader.sought)'
  BY <1>1, ReadOnly DEF Known
<1>4. ReaderType' /\ Ways' /\ OneAtATime'
  BY <1>1 DEF ReaderType, Ways, OneAtATime, Reader, Index, Id
<1>5. CurrentIsFound' /\ DiffReadsCurrent' /\ DiffReadsFiles'
  BY <1>1 DEF CurrentIsFound, DiffReadsCurrent, DiffReadsFiles
<1>6. DiffCompares'
  BY <1>1 DEF DiffCompares, Previous
<1> QED
  BY <1>2, <1>3, <1>4, <1>5, <1>6 DEF ReadersInv

LEMMA ReadListStep ==
  ASSUME ReadersInv, NEW cmd \in {"diff", "list"}, ReadList(cmd)
  PROVE  ReadersInv'
<1> DEFINE r == [reader EXCEPT !.cmd = cmd, !.listed = index.listed]
<1>1. /\ UNCHANGED vars /\ moment' = moment /\ moment \in Index /\ reader \in Reader
      /\ reader = Idle /\ IInv /\ index.listed \subseteq Id
  BY DEF ReadersInv, ReaderType, Ways, ReadList, End, Continue, IInv, TypeOK, Index
<1>2. /\ r \in Reader /\ r.listed = index.listed /\ r.sought = {} /\ r.current = {}
      /\ r.cmd = cmd /\ r.given = {}
  BY <1>1 DEF Reader, Idle
<1>3. Known(r.listed \cup r.sought)
  BY <1>1, <1>2, ListedKnown
<1> HIDE DEF r
<1>4. CASE reader' = [r EXCEPT !.at = "refused"]
  BY <1>1, <1>2, <1>3, <1>4, EndKeeps
<1>5. CASE reader' = [r EXCEPT !.at = "current"]
  <2>1. /\ reader' \in Reader /\ reader'.at = "current" /\ reader'.cmd = cmd
        /\ reader'.listed = index.listed /\ reader'.sought = {}
        /\ reader'.current = {} /\ reader'.given = {}
    BY <1>2, <1>5 DEF Reader
  <2>2. IInv' /\ RemovedFirst'
    BY <1>1, ReadOnly
  <2>3. Known(reader.listed \cup reader.sought)'
    BY <1>1, <1>2, <1>3, <2>1, ReadOnly DEF Known
  <2>4. ReaderType' /\ Ways' /\ OneAtATime'
    BY <1>1, <2>1 DEF ReaderType, Ways, OneAtATime, Reader, Index, Id
  <2>5. CurrentIsFound' /\ DiffReadsFiles' /\ DiffCompares'
    BY <2>1 DEF CurrentIsFound, DiffReadsFiles, DiffCompares
  <2>6. DiffReadsCurrent'
    BY <1>1, <2>1, ReadOnly DEF DiffReadsCurrent, After
  <2> QED
    BY <2>2, <2>3, <2>4, <2>5, <2>6 DEF ReadersInv
<1> QED
  BY <1>4, <1>5 DEF ReadList, End, Continue, r

LEMMA ReadCurrentStep ==
  ASSUME ReadersInv, NEW cmd \in {"status", "plan", "diff", "list", "show"},
         NEW config \in Configs, ReadCurrent(cmd, config)
  PROVE  ReadersInv'
<1> DEFINE r == [reader EXCEPT !.cmd = cmd, !.current = index.current,
                               !.sought = index.current,
                               !.new = IF cmd = "plan" THEN config ELSE {}]
<1>1. /\ UNCHANGED vars /\ moment' = index /\ index \in Index /\ reader \in Reader
      /\ IInv /\ config \subseteq Build /\ reader.given = {}
  BY CommandsAssumption
  DEF ReadersInv, ReaderType, Ways, Idle, ReadCurrent, End, Continue, IInv, TypeOK
<1>2. \/ reader.at = "idle" /\ cmd \in {"status", "plan"}
      \/ reader.at = "current" /\ cmd = reader.cmd
  BY DEF ReadCurrent
<1>3. /\ r \in Reader /\ r.listed = reader.listed /\ r.sought = index.current
      /\ r.current = index.current /\ r.cmd = cmd /\ r.given = {}
  BY <1>1 DEF Reader, Index
<1>4. Known(r.listed \cup r.sought)
  BY <1>1, <1>3, ListedKnown DEF Known, ReadersInv
<1>5. \A s, t \in index.current : s = t
  BY <1>1 DEF IInv, AtMostOneCurrent
<1> HIDE DEF r
<1>6. ASSUME NEW how \in {"shown", "tags", "refused"}, reader' = [r EXCEPT !.at = how],
             how = "tags" => cmd = "show", how = "shown" => cmd \in {"list", "status"}
      PROVE  ReadersInv'
  BY <1>1, <1>3, <1>4, <1>5, <1>6, EndKeeps
<1>7. CASE reader' = Look(r, {}, config) /\ cmd = "plan"
  BY <1>1, <1>3, <1>4, <1>5, <1>7, LookKeeps
<1>8. CASE reader' = [r EXCEPT !.at = "file"]
  <2>1. /\ reader' \in Reader /\ reader'.at = "file" /\ reader'.cmd = cmd
        /\ reader'.listed = reader.listed /\ reader'.sought = index.current
        /\ reader'.current = index.current /\ reader'.given = {}
    BY <1>3, <1>8 DEF Reader
  <2>2. IInv' /\ RemovedFirst'
    BY <1>1, ReadOnly
  <2>3. Known(reader.listed \cup reader.sought)'
    BY <1>1, <1>3, <1>4, <2>1, ReadOnly DEF Known
  <2>4. ReaderType' /\ Ways' /\ OneAtATime'
    BY <1>1, <1>5, <2>1 DEF ReaderType, Ways, OneAtATime, Reader, Index, Id
  <2>5. CurrentIsFound' /\ DiffReadsCurrent' /\ DiffCompares'
    BY <2>1 DEF CurrentIsFound, DiffReadsCurrent, DiffCompares
  <2>6. cmd = "diff" => After(index)
    BY <1>2 DEF ReadersInv, DiffReadsCurrent
  <2>7. DiffReadsFiles'
    BY <1>1, <2>1, <2>6, ReadOnly DEF DiffReadsFiles, After
  <2> QED
    BY <2>2, <2>3, <2>4, <2>5, <2>7 DEF ReadersInv
<1> QED
  BY <1>6, <1>7, <1>8 DEF ReadCurrent, End, Continue, r

\* The file that is not there is not that of what is current: that has one.
LEMMA MissingStep ==
  ASSUME ReadersInv, NEW s \in reader.sought, s \notin files, reader.at = "file",
         reader' = [reader EXCEPT !.at = "missing"], UNCHANGED <<vars, moment>>
  PROVE  ReadersInv'
<1>1. /\ reader \in Reader /\ moment \in Index /\ reader.given = {}
      /\ \A t \in reader.sought : t = s
      /\ \A t, u \in reader.current : t = u
  BY DEF ReadersInv, ReaderType, Ways, OneAtATime
<1>2. /\ reader' \in Reader /\ reader'.at = "missing"
      /\ reader'.listed = reader.listed /\ reader'.sought = reader.sought
      /\ reader'.current = reader.current
  BY <1>1 DEF Reader
<1>3. s \notin index.current
  BY DEF ReadersInv, IInv, CurrentIsLoadable
<1>4. IInv' /\ RemovedFirst'
  BY ReadOnly
<1>5. Known(reader.listed \cup reader.sought)'
  BY <1>2, ReadOnly DEF ReadersInv, Known
<1>6. ReaderType' /\ Ways' /\ OneAtATime'
  BY <1>1, <1>2 DEF ReaderType, Ways, OneAtATime, Reader, Index, Id
<1>7. CurrentIsFound'
  BY <1>1, <1>2, <1>3, ReadOnly DEF CurrentIsFound
<1>8. DiffReadsCurrent' /\ DiffReadsFiles' /\ DiffCompares'
  BY <1>2 DEF DiffReadsCurrent, DiffReadsFiles, DiffCompares
<1> QED
  BY <1>4, <1>5, <1>6, <1>7, <1>8 DEF ReadersInv

\* The file before the current one is there, so that snapshot was still in the
\* list when the current one was read, and there was nothing between the two.
LEMMA NeighbourThen ==
  ASSUME ReadersInv, reader.at = "file", reader.cmd = "diff",
         NEW s \in reader.sought, s \in files, s \notin reader.current
  PROVE  /\ moment.current = reader.current
         /\ \A c \in reader.current : {s} = Previous(moment.listed, c)
<1>1. /\ After(moment) /\ reader.current = moment.current
      /\ \A c \in reader.current :
           c \in reader.listed /\ reader.sought = Previous(reader.listed, c)
  BY DEF ReadersInv, DiffReadsFiles
<1>2. /\ reader.listed \in SUBSET Id /\ moment.listed \in SUBSET Id /\ Id \subseteq Nat
  BY DEF ReadersInv, ReaderType, Reader, Index, Id
<1>3. ASSUME NEW c \in reader.current
      PROVE  {s} = Previous(moment.listed, c)
  <2>1. c \in reader.listed /\ c \in Id /\ s \in Previous(reader.listed, c)
    BY <1>1, <1>2
  <2>2. s \in reader.listed /\ s < c /\ \A u \in reader.listed : u < c => u <= s
    BY <2>1 DEF Previous
  <2>3. s \in moment.listed
    BY <1>1, <2>2 DEF After
  <2>4. \A u \in moment.listed : u < c => u \in reader.listed
    <3> SUFFICES ASSUME NEW u \in moment.listed, u < c, u \notin reader.listed PROVE FALSE
      OBVIOUS
    <3>1. c < u
      BY <1>1, <2>1 DEF After
    <3>2. u \in Nat /\ c \in Nat
      BY <1>2, <2>1
    <3> QED
      BY <3>1, <3>2
  <2>5. s \in Previous(moment.listed, c)
    BY <2>2, <2>3, <2>4 DEF Previous
  <2> QED
    BY <1>2, <2>1, <2>5, PreviousFacts
<1> QED
  BY <1>1, <1>3

LEMMA CompareStep ==
  ASSUME ReadersInv, NEW s \in reader.sought, s \in files, reader.at = "file",
         reader.cmd = "diff", Compare(s), UNCHANGED moment
  PROVE  ReadersInv'
<1>1. /\ UNCHANGED vars /\ reader \in Reader /\ moment' = moment /\ moment \in Index
      /\ reader.given = {} /\ reader.listed \in SUBSET Id /\ s \in Id
      /\ Known(reader.listed \cup reader.sought)
      /\ \A t, u \in reader.sought : t = u
      /\ \A t, u \in reader.current : t = u
  BY DEF ReadersInv, ReaderType, Reader, Ways, OneAtATime, Compare, Continue, End
<1>2. CASE s \notin reader.current
  <2> DEFINE new == UNION {manifest[c] : c \in reader.current}
  <2>1. reader' = Look(reader, {s}, new)
    BY <1>2 DEF Compare, Continue
  <2>2. {s} \in SUBSET Nat /\ new \in SUBSET Build
    BY <1>1 DEF ReadersInv, IInv, TypeOK, Reader, Id
  <2>3. /\ moment'.current = reader.current
        /\ \A c \in reader.current : {s} = Previous(moment'.listed, c)
    BY <1>1, <1>2, NeighbourThen
  <2> HIDE DEF new
  <2> QED
    BY <1>1, <2>1, <2>2, <2>3, LookKeeps
<1>3. CASE s \in reader.current /\ s \in reader.listed /\ Previous(reader.listed, s) # {}
  <2>1. reader' = [reader EXCEPT !.sought = Previous(reader.listed, s)]
    BY <1>3 DEF Compare, Continue
  <2>2. /\ Previous(reader.listed, s) \subseteq reader.listed
        /\ \A t, u \in Previous(reader.listed, s) : t = u
    BY <1>1, PreviousFacts
  <2>3. /\ reader' \in Reader /\ reader'.at = "file" /\ reader'.cmd = "diff"
        /\ reader'.listed = reader.listed /\ reader'.sought = Previous(reader.listed, s)
        /\ reader'.current = reader.current /\ reader'.given = {}
    BY <1>1, <2>1, <2>2 DEF Reader
  <2>4. IInv' /\ RemovedFirst'
    BY <1>1, ReadOnly
  <2>5. Known(reader.listed \cup reader.sought)'
    <3>1. (reader.listed \cup reader.sought)' \subseteq reader.listed \cup reader.sought
      BY <2>2, <2>3
    <3>2. \A t \in reader.listed \cup reader.sought :
            t <= clock' /\ \A p \in Process : Adding(p)' => t < job'[p].id
      BY <1>1, ReadOnly DEF Known
    <3> QED
      BY <3>1, <3>2 DEF Known
  <2>6. ReaderType' /\ Ways' /\ OneAtATime'
    BY <1>1, <2>2, <2>3 DEF ReaderType, Ways, OneAtATime, Reader, Index, Id
  <2>7. CurrentIsFound' /\ DiffReadsCurrent' /\ DiffCompares'
    BY <2>3 DEF CurrentIsFound, DiffReadsCurrent, DiffCompares
  <2>8. After(moment) /\ reader.current = moment.current
    BY DEF ReadersInv, DiffReadsFiles
  <2>9. After(moment)'
    BY <1>1, <2>3, <2>8, ReadOnly DEF After
  <2>10. \A c \in reader.current :
           c \in reader.listed /\ Previous(reader.listed, s) = Previous(reader.listed, c)
    BY <1>1, <1>3
  <2>11. DiffReadsFiles'
    BY <1>1, <2>3, <2>8, <2>9, <2>10 DEF DiffReadsFiles, Previous
  <2> QED
    BY <2>4, <2>5, <2>6, <2>7, <2>11 DEF ReadersInv
<1>4. CASE reader' = [reader EXCEPT !.at = "refused"]
  BY <1>1, <1>4, EndKeeps
<1> QED
  BY <1>2, <1>3, <1>4 DEF Compare, End, Continue

LEMMA ReadFileStep ==
  ASSUME ReadersInv, ReadFile
  PROVE  ReadersInv'
<1>1. PICK s \in reader.sought :
        \/ s \notin files /\ End(reader, "missing")
        \/ s \in files /\ reader.cmd = "status" /\ Continue(Look(reader, {s}, manifest[s]))
        \/ s \in files /\ reader.cmd = "plan" /\ Continue(Look(reader, {s}, reader.new))
        \/ s \in files /\ reader.cmd = "diff" /\ Compare(s)
  BY DEF ReadFile
<1>2. /\ reader.at = "file" /\ moment' = moment /\ moment \in Index
      /\ reader \in Reader /\ s \in Id /\ reader.new \in SUBSET Build
      /\ manifest[s] \in SUBSET Build /\ {s} \in SUBSET Nat
      /\ Known(reader.listed \cup reader.sought)
      /\ \A t, u \in reader.sought : t = u
      /\ \A t, u \in reader.current : t = u
  BY DEF ReadFile, ReadersInv, ReaderType, Reader, OneAtATime, IInv, TypeOK, Id
<1>3. CASE s \notin files /\ End(reader, "missing")
  BY <1>2, <1>3, MissingStep DEF End, Continue
<1>4. ASSUME NEW new \in SUBSET Build, Continue(Look(reader, {s}, new)), reader.cmd # "diff"
      PROVE  ReadersInv'
  BY <1>2, <1>4, LookKeeps DEF Continue
<1>5. CASE s \in files /\ reader.cmd = "diff" /\ Compare(s)
  BY <1>2, <1>5, CompareStep
<1> QED
  BY <1>1, <1>2, <1>3, <1>4, <1>5

\* The reads for ids that the user gave.
LEMMA GivenIdsStep ==
  ASSUME ReadersInv, NEW pair \in Asked, ReadFirst(pair[1], pair[2]) \/ ReadShown(pair[1])
  PROVE  ReadersInv'
<1>1. /\ UNCHANGED vars /\ moment' = moment /\ moment \in Index /\ reader \in Reader
      /\ reader = Idle /\ pair[1] \in Nat /\ pair[2] \in Nat
  BY AskedAssumption
  DEF ReadersInv, ReaderType, Ways, ReadFirst, ReadShown, End, Continue
<1>2. CASE ReadFirst(pair[1], pair[2])
  <2> DEFINE r == [reader EXCEPT !.cmd = "diff", !.old = {pair[1]}, !.given = {pair[2]}]
  <2>1. /\ r \in Reader /\ r.listed = {} /\ r.sought = {} /\ r.current = {}
        /\ r.given = {pair[2]}
    BY <1>1 DEF Reader, Idle
  <2>2. Known(r.listed \cup r.sought)
    BY <2>1 DEF Known
  <2> HIDE DEF r
  <2>3. PICK how \in {"second", "refused"} : reader' = [r EXCEPT !.at = how]
    BY <1>2 DEF ReadFirst, End, Continue, r
  <2> QED
    BY <1>1, <2>1, <2>2, <2>3, EndKeeps
<1>3. CASE ReadShown(pair[1])
  <2> DEFINE r == [reader EXCEPT !.cmd = "show", !.old = {pair[1]}]
  <2>1. /\ r \in Reader /\ r.listed = {} /\ r.sought = {} /\ r.current = {}
        /\ r.given = {} /\ r.cmd = "show"
    BY <1>1 DEF Reader, Idle
  <2>2. Known(r.listed \cup r.sought)
    BY <2>1 DEF Known
  <2> HIDE DEF r
  <2>3. CASE reader' = [r EXCEPT !.at = "refused"]
    BY <1>1, <2>1, <2>2, <2>3, EndKeeps
  <2>4. CASE reader' = [r EXCEPT !.at = "current"]
    <3>1. /\ reader' \in Reader /\ reader'.at = "current" /\ reader'.cmd = "show"
          /\ reader'.listed = {} /\ reader'.sought = {} /\ reader'.current = {}
          /\ reader'.given = {}
      BY <2>1, <2>4 DEF Reader
    <3>2. IInv' /\ RemovedFirst'
      BY <1>1, ReadOnly
    <3>3. Known(reader.listed \cup reader.sought)'
      BY <3>1 DEF Known
    <3>4. ReaderType' /\ Ways' /\ OneAtATime'
      BY <1>1, <3>1 DEF ReaderType, Ways, OneAtATime, Reader, Index, Id
    <3>5. CurrentIsFound' /\ DiffReadsCurrent' /\ DiffReadsFiles' /\ DiffCompares'
      BY <3>1 DEF CurrentIsFound, DiffReadsCurrent, DiffReadsFiles, DiffCompares
    <3> QED
      BY <3>2, <3>3, <3>4, <3>5 DEF ReadersInv
  <2> QED
    BY <1>3, <2>3, <2>4 DEF ReadShown, End, Continue, r
<1> QED
  BY <1>2, <1>3

LEMMA ReadSecondStep ==
  ASSUME ReadersInv, ReadSecond
  PROVE  ReadersInv'
<1>1. /\ UNCHANGED vars /\ moment' = moment /\ moment \in Index /\ reader \in Reader
      /\ reader.given # {} /\ reader.old \in SUBSET Nat
      /\ Known(reader.listed \cup reader.sought)
      /\ \A t, u \in reader.sought : t = u
      /\ \A t, u \in reader.current : t = u
  BY DEF ReadSecond, ReadersInv, ReaderType, Reader, Ways, OneAtATime, End, Continue
<1>2. CASE reader' = [reader EXCEPT !.at = "refused"]
  BY <1>1, <1>2, EndKeeps
<1>3. ASSUME NEW b \in files, Continue(Look(reader, reader.old, manifest[b]))
      PROVE  ReadersInv'
  <2>1. manifest[b] \in SUBSET Build
    BY DEF ReadersInv, IInv, TypeOK
  <2> QED
    BY <1>1, <1>3, <2>1, LookKeeps DEF Continue
<1> QED
  BY <1>2, <1>3 DEF ReadSecond, End, Continue

LEMMA ReadTagsStep ==
  ASSUME ReadersInv, ReadTags
  PROVE  ReadersInv'
<1> DEFINE r == [reader EXCEPT !.listed = index.listed]
<1>1. /\ UNCHANGED vars /\ moment' = moment /\ moment \in Index /\ reader \in Reader
      /\ reader.cmd # "diff" /\ IInv /\ index.listed \subseteq Id
      /\ \A t, u \in reader.sought : t = u
      /\ \A t, u \in reader.current : t = u
  BY DEF ReadTags, ReadersInv, ReaderType, Ways, OneAtATime, End, Continue, IInv, TypeOK, Index
<1>2. /\ r \in Reader /\ r.listed = index.listed /\ r.sought = reader.sought
      /\ r.current = reader.current /\ r.cmd = reader.cmd
  BY <1>1 DEF Reader
<1>3. Known(r.listed \cup r.sought)
  BY <1>1, <1>2, ListedKnown DEF ReadersInv, Known
<1> HIDE DEF r
<1>4. reader' = [r EXCEPT !.at = "shown"]
  BY DEF ReadTags, End, Continue, r
<1> QED
  BY <1>1, <1>2, <1>3, <1>4, EndKeeps

\* Looking at the store, and printing.
LEMMA LookStep ==
  ASSUME ReadersInv, (\E b \in Build : LookAt(b)) \/ LookedAtAll
  PROVE  ReadersInv'
<1>1. /\ UNCHANGED vars /\ moment' = moment /\ moment \in Index /\ reader \in Reader
      /\ reader.at = "look"
  BY DEF LookAt, LookedAtAll, ReadersInv, ReaderType, End, Continue
<1>2. /\ reader' \in Reader /\ reader'.at \in {"look", "shown"} /\ reader'.cmd = reader.cmd
      /\ reader'.listed = reader.listed /\ reader'.sought = reader.sought
      /\ reader'.current = reader.current /\ reader'.given = reader.given
      /\ reader'.old = reader.old
  <2>1. CASE LookedAtAll
    BY <1>1, <2>1 DEF LookedAtAll, End, Continue, Reader
  <2>2. ASSUME NEW b \in Build, LookAt(b)
        PROVE  /\ reader' \in Reader /\ reader'.at = "look" /\ reader'.cmd = reader.cmd
               /\ reader'.listed = reader.listed /\ reader'.sought = reader.sought
               /\ reader'.current = reader.current /\ reader'.given = reader.given
               /\ reader'.old = reader.old
    <3>1. PICK found \in SUBSET Build :
            reader' = [reader EXCEPT !.left = @ \ {b}, !.found = found]
      BY <1>1, <2>2 DEF LookAt, Continue, Reader
    <3> QED
      BY <1>1, <3>1 DEF Reader
  <2> QED
    BY <2>1, <2>2
<1>3. IInv' /\ RemovedFirst'
  BY <1>1, ReadOnly
<1>4. Known(reader.listed \cup reader.sought)'
  BY <1>1, <1>2, ReadOnly DEF Known, ReadersInv
<1>5. ReaderType' /\ Ways' /\ OneAtATime'
  BY <1>1, <1>2 DEF ReadersInv, ReaderType, Ways, OneAtATime, Reader, Index, Id
<1>6. CurrentIsFound' /\ DiffReadsCurrent' /\ DiffReadsFiles'
  BY <1>2 DEF CurrentIsFound, DiffReadsCurrent, DiffReadsFiles
<1>7. DiffCompares'
  BY <1>1, <1>2 DEF ReadersInv, DiffCompares, Previous
<1> QED
  BY <1>3, <1>4, <1>5, <1>6, <1>7 DEF ReadersInv

LEMMA RestStep ==
  ASSUME ReadersInv, Rest
  PROVE  ReadersInv'
<1>1. UNCHANGED vars /\ reader' = Idle /\ moment' = EmptyIndex
  BY DEF Rest
<1>2. IInv' /\ RemovedFirst'
  BY <1>1, ReadOnly
<1>3. ReaderType'
  BY <1>1 DEF ReaderType, Reader, Idle, EmptyIndex, Index, Id
<1>4. Ways' /\ OneAtATime' /\ Known(reader.listed \cup reader.sought)'
  BY <1>1 DEF Ways, OneAtATime, Known, Idle
<1>5. CurrentIsFound' /\ DiffReadsCurrent' /\ DiffReadsFiles' /\ DiffCompares'
  BY <1>1 DEF CurrentIsFound, DiffReadsCurrent, DiffReadsFiles, DiffCompares, Idle
<1> QED
  BY <1>2, <1>3, <1>4, <1>5 DEF ReadersInv

-----------------------------------------------------------------------------
(* The theorems                                                            *)

LEMMA ReadersNextInv == ReadersInv /\ [ReadersNext]_<<vars, readVars>> => ReadersInv'
<1> SUFFICES ASSUME ReadersInv, [ReadersNext]_<<vars, readVars>> PROVE ReadersInv'
  OBVIOUS
<1>1. CASE UNCHANGED <<vars, readVars>>
  BY <1>1, WritersStep
<1>2. CASE Next /\ UNCHANGED readVars
  BY <1>2, WritersStep
<1>3. CASE ReadStep
  BY <1>3, ReadListStep, ReadCurrentStep, ReadFileStep, GivenIdsStep, ReadSecondStep,
     ReadTagsStep, LookStep, RestStep DEF ReadStep
<1> QED
  BY <1>1, <1>2, <1>3 DEF ReadersNext

\* The invariant holds whatever is read and written, in any order.
THEOREM ReadersInvariance == ReadersSpec => []ReadersInv
BY InitReaders, ReadersNextInv, PTL DEF ReadersSpec

\* status, plan and diff do not miss what is current: a file they do not find is
\* of a snapshot that is not current any more (storage.rs:116).
THEOREM ReadersFindCurrent == ReadersSpec => []CurrentIsFound
<1>1. ReadersInv => CurrentIsFound
  BY DEF ReadersInv
<1> QED
  BY <1>1, ReadersInvariance, PTL

\* A diff without arguments, however long its reads are drawn out, compares two
\* snapshots that were neighbours at one moment (diff.rs:60).
THEOREM DiffComparesNeighbours == ReadersSpec => []DiffOfNeighbours
<1>1. ReadersInv => DiffOfNeighbours
  BY DEF ReadersInv, DiffCompares, DiffOfNeighbours
<1> QED
  BY <1>1, ReadersInvariance, PTL

=============================================================================
