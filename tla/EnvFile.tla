------------------------------ MODULE EnvFile -------------------------------
(***************************************************************************)
(* The environment file over re-runs of the installer: seed, capture and   *)
(* set-key (bridge/environment.py) as steps 5 to 7 of deploy/install.sh    *)
(* call them, with the operator's edits between two runs. Any step may     *)
(* fail, by a signal or a full disk, which ends the run (set -e). The file *)
(* is written by atomic replacement, except when it is seeded.             *)
(*                                                                         *)
(* systemd gives the service the last line of each name.                   *)
(***************************************************************************)
EXTENDS Integers, Sequences, SequencesExt

CONSTANTS
  CapturedVars,  \* CAPTURED_VARS
  KeyVar,        \* KEY_VAR
  Template,      \* the lines of .env.example
  Values,        \* what the operator exports or writes
  MaxRuns,       \* bound: runs of the installer
  MaxEdits       \* bound: edits of the file

Names == ToSet(CapturedVars) \union {KeyVar}
Assign(name, value) == [name |-> name, value |-> value]

ASSUME NamesAssumption ==
  /\ CapturedVars \in Seq(STRING) /\ KeyVar \in STRING
  /\ KeyVar \notin ToSet(CapturedVars)
  /\ "#" \notin Names   \* stands for the lines that assign nothing
ASSUME TemplateAssumption ==
  Template \in Seq([name : STRING, value : {"template"}])

VARIABLES
  exists,   \* the file exists
  lines,    \* its lines
  step,     \* where the installer stands
  shell,    \* the variables exported in its shell; an empty one is unset
  todo,     \* the names capture_from_shell has still to look at
  wanted,   \* history: the values each name may have, by what was asked for
  runs,     \* runs so far
  edits     \* edits so far

vars == <<exists, lines, step, shell, todo, wanted, runs, edits>>

Comment == Assign("#", "text")
Placeholder == Assign("#", "paste the key here")
Anything == Values \union {"unset", "template", "torn"}

(* The value that a file gives to a name, by so many of its lines. *)
Reading(file, name) ==
  LET value[i \in 0 .. Len(file)] ==
        IF i = 0 THEN "unset"
        ELSE IF file[i].name = name THEN file[i].value ELSE value[i - 1]
  IN value

ValueIn(file, name) == Reading(file, name)[Len(file)]

Init ==
  /\ exists = FALSE
  /\ lines = <<>>
  /\ step = "idle"
  /\ shell = [name \in Names |-> "unset"]
  /\ todo = <<>>
  /\ wanted = [name \in Names |-> Anything]
  /\ runs = 0 /\ edits = 0

----------------------------------------------------------------------------
(* The operator                                                            *)

Exported(name) == shell[name] # "unset"

(* install.sh is started, with any variables exported. *)
Start(environ) ==
  /\ step = "idle" /\ runs < MaxRuns
  /\ step' = "seed"
  /\ shell' = environ
  /\ todo' = CapturedVars
  /\ wanted' = [name \in Names |-> wanted[name] \union
                  IF environ[name] = "unset" THEN {} ELSE {environ[name]}]
  /\ runs' = runs + 1
  /\ UNCHANGED <<exists, lines, edits>>

(* A line is added, changed or removed between two runs. *)
EditsOf(file) ==
  {Append(file, Assign(name, value)) : name \in Names, value \in Values}
    \union {[file EXCEPT ![i].value = value] :
              i \in {j \in DOMAIN file : file[j].name \in Names},
              value \in Values}
    \union {RemoveAt(file, i) : i \in DOMAIN file}

Edit(file) ==
  /\ step = "idle" /\ exists /\ edits < MaxEdits
  /\ lines' = file
  /\ wanted' = [name \in Names |->
                  IF ValueIn(file, name) = ValueIn(lines, name)
                  THEN wanted[name] ELSE {ValueIn(file, name)}]
  /\ edits' = edits + 1
  /\ UNCHANGED <<exists, step, shell, todo, runs>>

----------------------------------------------------------------------------
(* The installer                                                           *)

(* Mutant: an existing file is seeded again. *)
MutSeed ==
  /\ step = "seed"
  /\ step' = "copying" /\ exists' = TRUE /\ lines' = <<>>
  /\ UNCHANGED <<shell, todo, wanted, runs, edits>>

(* seed_env_file: an existing file is left alone, or else created empty... *)
Seed ==
  /\ step = "seed"
  /\ IF exists THEN step' = "capture" /\ UNCHANGED <<exists, lines>>
               ELSE step' = "copying" /\ exists' = TRUE /\ lines' = <<>>
  /\ UNCHANGED <<shell, todo, wanted, runs, edits>>

(* ... and filled in place, with a comment if there is no template. *)
Copy ==
  /\ step = "copying"
  /\ step' = "capture"
  /\ lines' \in {Template, <<Comment>>}
  /\ UNCHANGED <<exists, shell, todo, wanted, runs, edits>>

(* What a copy that fails leaves: whole lines, and perhaps a part of one.  *)
PartialCopies ==
  LET whole(n) == SubSeq(Template, 1, n) IN
  {whole(n) : n \in 0 .. Len(Template)} \union
  {Append(whole(n - 1), [Template[n] EXCEPT !.value = "torn"]) :
     n \in DOMAIN Template}

(* Mutant: the other lines of the name are left in the file. *)
MutUpsert(file, name, value) == Append(file, Assign(name, value))

(* The lines for other names, among the first so many of a file. *)
Others(file, name) ==
  LET kept[i \in 0 .. Len(file)] ==
        IF i = 0 THEN <<>>
        ELSE IF file[i].name = name THEN kept[i - 1]
        ELSE Append(kept[i - 1], file[i])
  IN kept

(* upsert_env_file. *)
Upsert(file, name, value) ==
  Append(Others(file, name)[Len(file)], Assign(name, value))

(* capture_from_shell: one atomic replacement for each exported name. *)
Capture ==
  /\ step = "capture"
  /\ IF todo = <<>>
     THEN step' = "set-key" /\ UNCHANGED <<lines, todo>>
     ELSE /\ lines' = IF Exported(Head(todo))
                      THEN Upsert(lines, Head(todo), shell[Head(todo)])
                      ELSE lines
          /\ todo' = Tail(todo)
          /\ UNCHANGED step
  /\ UNCHANGED <<exists, shell, wanted, runs, edits>>

HasKey == \E i \in DOMAIN lines : lines[i].name = KeyVar

(* set_agent_key: the exported key, or the one in the file, or a hint. *)
SetKey ==
  /\ step = "set-key"
  /\ step' = "restart"
  /\ lines' = CASE Exported(KeyVar) -> Upsert(lines, KeyVar, shell[KeyVar])
                [] ~Exported(KeyVar) /\ HasKey -> lines
                [] ~Exported(KeyVar) /\ ~HasKey ->
                     lines \o <<Comment, Comment, Placeholder>>
  /\ UNCHANGED <<exists, shell, todo, wanted, runs, edits>>

(* The service is restarted with what the file says; the run is complete.  *)
Restart ==
  /\ step = "restart"
  /\ step' = "idle"
  /\ wanted' = [name \in Names |->
                  {IF Exported(name) THEN shell[name]
                                     ELSE ValueIn(lines, name)}]
  /\ UNCHANGED <<exists, lines, shell, todo, runs, edits>>

(* A step fails. The replacement of the file happens or does not; only the *)
(* copy of the template can be left half done.                             *)
Abort ==
  /\ step # "idle"
  /\ step' = "idle"
  /\ lines' \in IF step = "copying" THEN PartialCopies ELSE {lines}
  /\ UNCHANGED <<exists, shell, todo, wanted, runs, edits>>

Next ==
  \/ \E environ \in [Names -> Values \union {"unset"}] : Start(environ)
  \/ \E file \in EditsOf(lines) : Edit(file)
  \/ Seed \/ Copy \/ Capture \/ SetKey \/ Restart \/ Abort

Spec == Init /\ [][Next]_vars

----------------------------------------------------------------------------
(* Correctness                                                             *)

(* Shell values win, and what the file says is kept otherwise: over any    *)
(* number of runs, failed ones included, a name has the value of the last  *)
(* complete run that exported it or of a later edit, or that of a run that *)
(* exported it and failed since (environment.py:77-165).                   *)
KeptOrExported ==
  exists /\ step # "copying" =>
    \A name \in Names : ValueIn(lines, name) \in wanted[name]

(* A name that was exported has one line when the service is restarted,    *)
(* however often it stood in the file (environment.py:116-138).            *)
ExportedHasOneLine ==
  step = "restart" =>
    \A name \in Names :
      Exported(name) =>
        \E n \in DOMAIN lines :
          \A i \in DOMAIN lines : lines[i].name = name <=> i = n
=============================================================================
