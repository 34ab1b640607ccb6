------------------------------ MODULE Workspace ------------------------------
(***************************************************************************)
(* The directory of a configuration as sys sets it up and keeps it for the *)
(* editor: `sys init`, and update_luarc_inputs, which every evaluation and *)
(* every `sys update` end their resolution of inputs with.  Nothing locks  *)
(* these files: commands overlap, the user edits them at any time, and a   *)
(* command may stop between any two of its steps.                          *)
(*                                                                         *)
(* Of init.lua it matters whose it is; of .luarc.json the entries of its   *)
(* workspace.library, in order; a file that is Torn does not parse.        *)
(***************************************************************************)
EXTENDS Naturals, Sequences

CONSTANTS
  Process,
  Entry,          \* of a library
  Own,            \* the entries that only users write
  Types,          \* the entry of the directory of type definitions
  Managed,        \* the entries whose text begins like Types or the cache of inputs
  Resolutions,    \* the directories of the inputs that a command may resolve
  Layouts,        \* what users save as .luarc.json
  NoFile, Torn,
  Odd,            \* JSON with no place for a library
  Custom, Stock,  \* what users and init write where it is not looked into
  MaxCommands,    \* bound: commands ever started
  MaxEvents       \* bound: edits by the user, and commands that stop half way

ASSUME WorkspaceAssumption ==
  /\ Types \in Managed /\ Managed \subseteq Entry /\ Own \subseteq Entry \ Managed
  /\ Resolutions \subseteq Seq(Entry \ Own)
  /\ Layouts \subseteq Seq(Entry) \cup {Odd}
  /\ {NoFile, Torn, Odd} \cap Seq(Entry) = {}
  /\ NoFile \notin {Torn, Odd} /\ Custom # NoFile

VARIABLES
  file,           \* what each file of FileOrder contains
  run,            \* the local state of each process
  commands, events,    \* how often each has happened
  saved,          \* history: what the user last saved of each file
  raced           \* history: the files saved while a command was to write them

vars == <<file, run, commands, events, saved, raced>>

\* The files in the order init writes them.
FileOrder == <<"init.lua", ".luarc.json", "globals.d.lua">>
File == {FileOrder[i] : i \in DOMAIN FileOrder}
User == {"init.lua", ".luarc.json"}

Idle == [pc |-> "idle", init |-> FALSE, next |-> 1, inputs |-> << >>, text |-> << >>]

Init ==
  /\ \E lua \in {NoFile, Custom}, luarc \in {NoFile} \cup Layouts :
       file = [f \in File |-> CASE f = "init.lua" -> lua
                               [] f = ".luarc.json" -> luarc
                               [] OTHER -> NoFile]
  /\ run = [p \in Process |-> Idle]
  /\ commands = 0 /\ events = 0
  /\ saved = [f \in User |-> file[f]] /\ raced = {}

IsLibrary(text) == text \notin {NoFile, Torn, Odd}

Command(p) ==
  /\ run[p].pc = "idle" /\ commands < MaxCommands
  /\ commands' = commands + 1 /\ UNCHANGED <<file, events, saved, raced>>

Go(p, pc) == run' = [run EXCEPT ![p].pc = pc]
Ends(p) == run' = [run EXCEPT ![p] = Idle]

-----------------------------------------------------------------------------
(* sys init                                                                *)

StartInit(p) ==
  /\ Command(p)
  /\ run' = [run EXCEPT ![p] = [Idle EXCEPT !.pc = "exists", !.init = TRUE]]

\* A bug for the check to find: an editor's file is no reason not to go on.
OnlyEntry == 1 .. 1

\* The files that keep init from going on.
Guarded == 1 .. 2

\* init looks for one file, and then for the next; both are the user's.
\* Directories are made after that, where they are missing.
Exists(p) ==
  /\ run[p].pc = "exists"
  /\ IF run[p].next \notin Guarded
     THEN run' = [run EXCEPT ![p].pc = "truncate", ![p].next = 1]
     ELSE IF file[FileOrder[run[p].next]] # NoFile THEN Ends(p)
     ELSE run' = [run EXCEPT ![p].next = @ + 1]
  /\ UNCHANGED <<file, commands, events, saved, raced>>

\* The template of the library has the types alone.
Template(f) == IF f = ".luarc.json" THEN <<Types>> ELSE Stock

-----------------------------------------------------------------------------
(* update_luarc_inputs                                                     *)

\* A configuration that is there has been evaluated, and its inputs resolved.
StartUpdate(p) ==
  /\ Command(p)
  /\ file["init.lua"] \notin {NoFile, Torn}
  /\ \E inputs \in Resolutions :
       run' = [run EXCEPT ![p] =
                 [Idle EXCEPT !.pc = "read", !.next = 2, !.inputs = inputs]]

\* The entries of a library that are in a set: SelectSeq, in a form that proofs
\* can unfold.
Only(library, entries) ==
  LET only[i \in 0 .. Len(library)] ==
        IF i = 0 THEN << >>
        ELSE IF library[i] \in entries THEN Append(only[i - 1], library[i])
        ELSE only[i - 1]
  IN  only[Len(library)]

\* A bug for the check to find: the entries of inputs are not recognised.
OnlyTypesManaged(library) == Only(library, Entry \ {Types})

user_entries(library) == Only(library, Entry \ Managed)

\* Types first, then the inputs, then what the file has beside them.
Updated(text, inputs) ==
  IF text = Odd THEN Odd ELSE <<Types>> \o inputs \o user_entries(text)

\* Without a file that can be read and parsed there is nothing to update.
Read(p) ==
  /\ run[p].pc = "read"
  /\ IF file[".luarc.json"] \in {NoFile, Torn} THEN Ends(p)
     ELSE run' = [run EXCEPT ![p].pc = "truncate",
                             ![p].text = Updated(file[".luarc.json"], run[p].inputs)]
  /\ UNCHANGED <<file, commands, events, saved, raced>>

-----------------------------------------------------------------------------
(* fs::write                                                               *)

Target(p) == FileOrder[run[p].next]
Text(p) == IF run[p].init THEN Template(Target(p)) ELSE run[p].text

Truncate(p) ==
  /\ run[p].pc = "truncate"
  /\ file' = [file EXCEPT ![Target(p)] = Torn]
  /\ Go(p, "write")
  /\ UNCHANGED <<commands, events, saved, raced>>

\* Where two write at once the end of the longer text may stay.  init goes on
\* with the next file.
Write(p) ==
  /\ run[p].pc = "write"
  /\ \/ file' = [file EXCEPT ![Target(p)] = Text(p)]
     \/ file[Target(p)] # Torn /\ file' = [file EXCEPT ![Target(p)] = Torn]
  /\ IF run[p].init /\ run[p].next < Len(FileOrder)
     THEN run' = [run EXCEPT ![p].pc = "truncate", ![p].next = @ + 1]
     ELSE Ends(p)
  /\ UNCHANGED <<commands, events, saved, raced>>

\* A process is killed, or a write fails.
Stop(p) ==
  /\ run[p].pc # "idle" /\ events < MaxEvents
  /\ Ends(p)
  /\ events' = events + 1
  /\ UNCHANGED <<file, commands, saved, raced>>

-----------------------------------------------------------------------------
(* The user                                                                *)

\* The commands that will write f over whatever is there.
Writers(f) ==
  {p \in Process :
     \/ f = ".luarc.json" /\ ~run[p].init /\ run[p].pc \in {"truncate", "write"}
     \/ /\ run[p].init
        /\ run[p].pc = "exists" => \E i \in Guarded : FileOrder[i] = f /\ i < run[p].next
        /\ run[p].pc # "exists" => \E i \in DOMAIN FileOrder : FileOrder[i] = f /\ i >= run[p].next}

Save(f, text) ==
  /\ events < MaxEvents /\ events' = events + 1
  /\ file' = [file EXCEPT ![f] = text]
  /\ saved' = [saved EXCEPT ![f] = text]
  /\ raced' = IF Writers(f) = {} THEN raced \ {f} ELSE raced \cup {f}
  /\ UNCHANGED <<run, commands>>

Edit == Save("init.lua", Custom) \/ \E layout \in Layouts : Save(".luarc.json", layout)

Next ==
  \/ \E p \in Process :
       \/ StartInit(p) \/ Exists(p) \/ StartUpdate(p) \/ Read(p)
       \/ Truncate(p) \/ Write(p) \/ Stop(p)
  \/ Edit

Spec == Init /\ [][Next]_vars

-----------------------------------------------------------------------------
(* Properties                                                              *)

OwnOf(text) == Only(text, Own)

\* What users write is theirs.  However inits and updates overlap or stop half
\* way, an init.lua that the user wrote is not replaced by the template, and
\* .luarc.json, as long as it can be read, has the user's entries in the user's
\* order, unless the user saved the file while a command was about to write it
\* (init/mod.rs:99, :219).
UsersWorkStays ==
  /\ "init.lua" \notin raced /\ saved["init.lua"] = Custom => file["init.lua"] = Custom
  /\ ".luarc.json" \notin raced /\ IsLibrary(saved[".luarc.json"]) /\ IsLibrary(file[".luarc.json"])
       => OwnOf(file[".luarc.json"]) = OwnOf(saved[".luarc.json"])
  /\ ".luarc.json" \notin raced /\ saved[".luarc.json"] # NoFile => file[".luarc.json"] # NoFile

\* Of the entries that are sys's own, .luarc.json has those of one resolution,
\* each once: commands that overlap, with inputs that come and go, leave no
\* mixture and nothing of earlier ones, but what the user saved (init/mod.rs:213).
OneResolution ==
  LET managed(text) == Only(text, Managed)
  IN  IsLibrary(file[".luarc.json"]) =>
        managed(file[".luarc.json"]) \in
          {<<Types>> \o managed(inputs) : inputs \in Resolutions}
            \cup {<<Types>>} \cup {managed(layout) : layout \in Layouts \ {Odd}}

=============================================================================
