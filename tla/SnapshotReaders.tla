--------------------------- MODULE SnapshotReaders ---------------------------
(***************************************************************************)
(* The commands that only look: status, plan, diff, snapshot list and      *)
(* snapshot show.  They take no lock: the index, the snapshot files and    *)
(* the build directories are read one after the other, and the commands of *)
(* SnapshotCommands go on between any two reads.                           *)
(*                                                                         *)
(* Readers do not see each other (a plan's file is named by its content),  *)
(* so that one is enough.  Of their output this module keeps which         *)
(* snapshots and builds it is about.                                       *)
(***************************************************************************)
EXTENDS SnapshotCommands

CONSTANT Asked   \* bound: the pairs of ids that a user gives to diff, the
                 \* first of them to show

ASSUME AskedAssumption == Asked \subseteq Nat \X Nat

VARIABLES
  reader,   \* the reading command, and what it has read so far
  moment    \* history: the index from which the reader took what is current

readVars == <<reader, moment>>

Idle ==
  [cmd |-> "none", at |-> "idle",
   listed |-> {},     \* the snapshots of the index, for diff and list
   current |-> {},
   sought |-> {},     \* the snapshot whose file is read next
   given |-> {},      \* what the user gave: the second snapshot of a diff
   old |-> {},        \* the snapshot compared with, or shown
   new |-> {},        \* the builds looked for in the store
   left |-> {}, found |-> {}]

ReadersInit == Init /\ reader = Idle /\ moment = EmptyIndex

\* The command goes on with these changes; when there are no builds to look for
\* it is about to print.
Continue(r) == reader' = r /\ UNCHANGED vars
End(r, how) == Continue([r EXCEPT !.at = how])
Look(r, old, new) ==
  [r EXCEPT !.at = "look", !.old = old, !.new = new, !.left = new]

-----------------------------------------------------------------------------
(* The reads                                                               *)

\* The first read of a diff without arguments, and of a list.
ReadList(cmd) ==
  /\ reader.at = "idle" /\ cmd \in {"diff", "list"}
  /\ LET r == [reader EXCEPT !.cmd = cmd, !.listed = index.listed]
     IN  IF cmd = "diff" /\ Cardinality(index.listed) < 2
         THEN End(r, "refused")
         ELSE Continue([r EXCEPT !.at = "current"])
  /\ UNCHANGED moment

\* load_current begins with the index, which current_id reads as well.  For plan
\* the configuration has been evaluated, and its manifest has been written.
ReadCurrent(cmd, config) ==
  /\ \/ reader.at = "idle" /\ cmd \in {"status", "plan"}
     \/ reader.at = "current" /\ cmd = reader.cmd
  /\ moment' = index
  /\ LET r == [reader EXCEPT !.cmd = cmd, !.current = index.current,
                             !.sought = index.current,
                             !.new = IF cmd = "plan" THEN config ELSE {}]
     IN  \/ cmd = "list" /\ End(r, "shown")
         \/ cmd = "show" /\ End(r, "tags")
         \/ cmd \in {"status", "plan", "diff"} /\ index.current # {} /\ End(r, "file")
         \/ cmd = "status" /\ index.current = {} /\ End(r, "shown")
         \/ cmd = "plan" /\ index.current = {} /\ Continue(Look(r, {}, config))
         \/ cmd = "diff" /\ index.current = {} /\ End(r, "refused")

\* The entry of the index before that of s.
Previous(listed, s) == {t \in listed : t < s /\ \A u \in listed : u < s => u <= t}

\* What a diff has to do once it has read the file of s: first the current
\* one's, then that of the one before it.
Compare(s) ==
  IF s \notin reader.current
  THEN Continue(Look(reader, {s}, UNION {manifest[c] : c \in reader.current}))
  ELSE IF s \in reader.listed /\ Previous(reader.listed, s) # {}
  THEN Continue([reader EXCEPT !.sought = Previous(reader.listed, s)])
  ELSE End(reader, "refused")

\* A snapshot's file is read: the current one, or the one before it.
ReadFile ==
  /\ reader.at = "file"
  /\ \E s \in reader.sought :
       \/ s \notin files /\ End(reader, "missing")
       \/ s \in files /\ reader.cmd = "status" /\ Continue(Look(reader, {s}, manifest[s]))
       \/ s \in files /\ reader.cmd = "plan" /\ Continue(Look(reader, {s}, reader.new))
       \/ s \in files /\ reader.cmd = "diff" /\ Compare(s)
  /\ UNCHANGED moment

\* diff with two ids: a file that is not there is the user's mistake.
ReadFirst(a, b) ==
  /\ reader.at = "idle"
  /\ LET r == [reader EXCEPT !.cmd = "diff", !.old = {a}, !.given = {b}]
     IN  End(r, IF a \in files THEN "second" ELSE "refused")
  /\ UNCHANGED moment

ReadSecond ==
  /\ reader.at = "second"
  /\ \E b \in reader.given :
       IF b \in files THEN Continue(Look(reader, reader.old, manifest[b]))
                      ELSE End(reader, "refused")
  /\ UNCHANGED moment

\* show reads the file, what is current, and the list for the tags, of which
\* there are none when the snapshot is not in it.
ReadShown(s) ==
  /\ reader.at = "idle"
  /\ LET r == [reader EXCEPT !.cmd = "show", !.old = {s}]
     IN  End(r, IF s \in files THEN "current" ELSE "refused")
  /\ UNCHANGED moment

ReadTags ==
  /\ reader.at = "tags"
  /\ End([reader EXCEPT !.listed = index.listed], "shown")
  /\ UNCHANGED moment

\* compute_diff and calculate_store_usage go from one directory to the next.
LookAt(b) ==
  /\ reader.at = "look" /\ b \in reader.left
  /\ Continue([reader EXCEPT !.left = @ \ {b},
                 !.found = IF store[b] = "absent" THEN @ ELSE @ \cup {b}])
  /\ UNCHANGED moment

LookedAtAll ==
  /\ reader.at = "look" /\ reader.left = {}
  /\ End(reader, "shown")
  /\ UNCHANGED moment

\* The command has printed, or failed.
Rest ==
  /\ reader.at \in {"shown", "refused", "missing"}
  /\ reader' = Idle /\ moment' = EmptyIndex
  /\ UNCHANGED vars

ReadStep ==
  \/ \E cmd \in {"diff", "list"} : ReadList(cmd)
  \/ \E cmd \in {"status", "plan", "diff", "list", "show"}, config \in Configs :
       ReadCurrent(cmd, config)
  \/ ReadFile \/ ReadSecond \/ ReadTags \/ LookedAtAll \/ Rest
  \/ \E pair \in Asked : ReadFirst(pair[1], pair[2]) \/ ReadShown(pair[1])
  \/ \E b \in Build : LookAt(b)

ReadersNext == (Next /\ UNCHANGED readVars) \/ ReadStep

ReadersSpec == ReadersInit /\ [][ReadersNext]_<<vars, readVars>>

-----------------------------------------------------------------------------
(* Properties                                                              *)

\* status, plan and diff find the snapshot that the index they read names as
\* current, or it is not current any more: apply, destroy and delete between the
\* reads can not make a reader fail while the system stays as it was
\* (storage.rs:116).
CurrentIsFound ==
  reader.at = "missing" => reader.sought \cap index.current = {}

\* A diff without arguments reads the index twice and then two files; when it
\* gets that far it compares the snapshot that was current at the second reading
\* with the one that was next to it in the list at that very moment, although
\* the list is that of the first (diff.rs:60).
DiffOfNeighbours ==
  reader.at = "shown" /\ reader.cmd = "diff" /\ reader.given = {} =>
    /\ moment.current = reader.current
    /\ \A c \in reader.current : reader.old = Previous(moment.listed, c)

=============================================================================
