------------------------------ MODULE ButeEnv ------------------------------
(***************************************************************************)
(* The environment of bute (struct ButeEnv of bearos_bute/src/bute.c): the *)
(* ring of open editors, the commands that open, switch, save and close    *)
(* them, and the files they come from.                                     *)
(*                                                                         *)
(* An editor is what ButeUndo models, seen from outside: its text, whether *)
(* it is dirty, and the text that undoing everything gives back.           *)
(***************************************************************************)
EXTENDS Naturals, Sequences, FiniteSets, FiniteSetsExt, TLC

CONSTANTS
  Contents, Empty, \* the contents of editors and files; one of them is empty
  Names,           \* the file names the user types
  NoFile, NoName,  \* what a file is that does not exist; the empty name
  Args,            \* the command lines explored: tuples of names
  MaxEds,          \* bound: the editors open at a time
  MaxUntitled      \* bound: the editors called "Untitled-n" made in a session

ASSUME EnvAssumption ==
  /\ Empty \in Contents /\ NoFile \notin Contents /\ NoName \notin Names
  /\ MaxEds \in Nat \ {0, 1} /\ MaxUntitled \in Nat
  /\ \A a \in Args : Len(a) \in 1 .. MaxEds /\ \A i \in 1 .. Len(a) : a[i] \in Names

NULL == 0
Untitled(n) == <<"Untitled", n>>

VARIABLES
  env,      \* current, next and prev of each editor, the editors, and untitled
  loop,     \* the local variable ed of the keyboard loop
  disk,     \* the content of each file, or NoFile
  agreed,   \* the editors the last command asked about, and the user said yes
  phase     \* "editing"; "over" once quit; "undefined" after a read of freed memory

envVars == <<env, loop, disk, agreed, phase>>

Live(e) == DOMAIN e.ed

\* Where malloc puts the next editor: which block it is does not matter.
Block(e) == Min((1 .. MaxEds) \ Live(e))

-----------------------------------------------------------------------------
(* The ring.                                                               *)

\* f with an editor more, or less.
With(f, id, x) == [k \in DOMAIN f \cup {id} |-> IF k = id THEN x ELSE f[k]]
Without(f, id) == [k \in DOMAIN f \ {id} |-> f[k]]

\* Mutant of Create: the editor after the new one is not told.
CreateOneWay(e, id, new) ==
  LET c == e.current
  IN  [e EXCEPT !.current = id,
                !.next = With(IF c = NULL THEN @ ELSE [@ EXCEPT ![c] = id], id,
                              IF c = NULL THEN id ELSE @[c]),
                !.prev = With(@, id, IF c = NULL THEN id ELSE c),
                !.ed = With(@, id, new)]

\* bute_create: the new editor comes after the current one, and is current.
Create(e, id, new) ==
  LET c == e.current
  IN  IF c = NULL
      THEN [e EXCEPT !.current = id, !.next = With(@, id, id), !.prev = With(@, id, id),
                     !.ed = With(@, id, new)]
      ELSE [e EXCEPT !.current = id,
                     !.next = With([@ EXCEPT ![c] = id], id, @[c]),
                     !.prev = With([@ EXCEPT ![e.next[c]] = id], id, c),
                     !.ed = With(@, id, new)]

\* bute_destroy: the one before is current.
Destroy(e, id) ==
  [e EXCEPT !.current = IF e.next[id] = id THEN NULL ELSE e.prev[id],
            !.prev = Without([@ EXCEPT ![e.next[id]] = e.prev[id]], id),
            !.next = Without([@ EXCEPT ![e.prev[id]] = e.next[id]], id),
            !.ed = Without(@, id)]

\* The editor n steps after the current one.
After(e, n) ==
  LET walk[k \in 0 .. n] == IF k = 0 THEN e.current ELSE e.next[walk[k - 1]] IN walk[n]

\* Mutant of Found: the walk stops one editor early.
FoundButLast(e, name) ==
  {n \in 0 .. MaxEds - 1 : /\ e.ed[After(e, n)].name = name
                           /\ \A k \in 0 .. n : e.next[After(e, k)] # e.current}

\* find_editor walks until it is back at the current editor.
Found(e, name) ==
  {n \in 0 .. MaxEds - 1 : /\ e.ed[After(e, n)].name = name
                           /\ \A k \in 1 .. n : After(e, k) # e.current}

-----------------------------------------------------------------------------
(* Editors and their files.                                                *)

Editor(name, newfile, text) ==
  [name |-> name, newfile |-> newfile, dirty |-> FALSE, text |-> text,
   base |-> text, cut |-> FALSE]

\* bute_create and new_file with no name.
CreateUntitled(e, id) ==
  Create([e EXCEPT !.untitled = @ + 1], id, Editor(Untitled(e.untitled + 1), TRUE, Empty))

\* Mutant of Written: the editor is clean whether or not the file was opened.
WrittenAlways(d, opened, written) ==
  [d EXCEPT !.dirty = FALSE, !.base = d.text, !.cut = ~written]

\* save_file: what write_file does to the editor.  When the file was opened it
\* reports success, however much of the text was written; `cut` remembers.
Written(d, opened, written) ==
  IF opened THEN [d EXCEPT !.dirty = FALSE, !.base = d.text, !.cut = ~written]
  ELSE d

-----------------------------------------------------------------------------
(* The specification.                                                      *)

NoEnv == [current |-> NULL, untitled |-> 0, next |-> <<>>, prev |-> <<>>, ed |-> <<>>]

\* buteenv_add_editor and load_file: a file that does not exist is a new, named
\* and clean one.  (One that exists and cannot be read leaves an editor with no
\* name.)
Loaded(files, name, readable) ==
  CASE files[name] = NoFile -> Editor(name, FALSE, Empty)
    [] files[name] # NoFile /\ readable -> Editor(name, FALSE, files[name])
    [] OTHER -> Editor(NoName, FALSE, Empty)

\* An editor for each argument; buteenv_run begins with the one after the last.
Added(files, args, readable) ==
  LET add[i \in 0 .. Len(args)] ==
        IF i = 0 THEN NoEnv ELSE Create(add[i - 1], i, Loaded(files, args[i], readable))
      e == add[Len(args)]
  IN  [e EXCEPT !.current = e.next[@]]

EnvInit ==
  /\ disk \in [Names -> {Empty, NoFile}]
  /\ \/ env = CreateUntitled(NoEnv, 1)
     \/ \E a \in Args, readable \in BOOLEAN : env = Added(disk, a, readable)
  /\ loop = env.current
  /\ agreed = {} /\ phase = "editing"

Current == env.ed[env.current]

\* A command that ends with the loop at the current editor.
Go(e) == env' = e /\ loop' = e.current /\ UNCHANGED phase

\* Any of the editing commands: the text is another, and the editor dirty.
Edit(t) ==
  /\ phase = "editing"
  /\ Go([env EXCEPT !.ed[loop].text = t, !.ed[loop].dirty = TRUE])
  /\ agreed' = {} /\ UNCHANGED disk

\* undo, as far as it goes.
UndoAll ==
  /\ phase = "editing" /\ env.ed[loop].dirty
  /\ Go([env EXCEPT !.ed[loop].text = env.ed[loop].base, !.ed[loop].dirty = FALSE])
  /\ agreed' = {} /\ UNCHANGED disk

NextBuffer ==
  /\ phase = "editing"
  /\ Go([env EXCEPT !.current = env.next[loop]])
  /\ agreed' = {} /\ UNCHANGED disk

NewEditor ==
  /\ phase = "editing" /\ Cardinality(Live(env)) < MaxEds /\ env.untitled < MaxUntitled
  /\ Go(CreateUntitled(env, Block(env)))
  /\ agreed' = {} /\ UNCHANGED disk

\* prompt_open_editor: a file that cannot be loaded leaves no editor behind.
Open(name, readable) ==
  LET failed == Create(env, Block(env), Editor(NoName, FALSE, Empty))
  IN  /\ phase = "editing"
      /\ IF Found(env, name) # {}
         THEN Go([env EXCEPT !.current = After(env, Min(Found(env, name)))])
         ELSE /\ Cardinality(Live(env)) < MaxEds
              /\ Go(IF readable /\ disk[name] # NoFile
                    THEN Create(env, Block(env), Editor(name, FALSE, disk[name]))
                    ELSE Destroy(failed, failed.current))
      /\ agreed' = {} /\ UNCHANGED disk

\* The file `name` now holds text, or a part of it: nothing, as a bound.
WriteFile(name, text, opened, written) ==
  disk' = IF opened THEN [disk EXCEPT ![name] = IF written THEN text ELSE Empty] ELSE disk

\* save_editor on a file that has a name.  (The name of an editor that could
\* not be loaded is empty, and cannot be opened.)
Save(opened, written) ==
  LET d == env.ed[loop]
  IN  /\ phase = "editing" /\ d.dirty /\ ~d.newfile
      /\ opened => d.name \in Names
      /\ Go([env EXCEPT !.ed[loop] = Written(d, opened, written)])
      /\ WriteFile(d.name, d.text, opened, written)
      /\ agreed' = {}

\* save_editor on a new file: the editor takes the name that is typed, which
\* an existing file may have if the user says so, before it is written.
SaveAs(name, yes, opened, written) ==
  LET d == env.ed[loop]
      named == [d EXCEPT !.name = name, !.newfile = FALSE]
  IN  /\ phase = "editing" /\ d.newfile
      /\ disk[name] # NoFile => yes
      /\ Go([env EXCEPT !.ed[loop] = Written(named, opened, written)])
      /\ WriteFile(name, d.text, opened, written)
      /\ agreed' = {}

\* close_editor, and what the loop does next: read current from the editor it
\* has just freed.  Whether that still holds it is the allocator's choice.
Close(yes, intact) ==
  LET gone == Destroy(env, loop)
      e == IF gone.current = NULL THEN CreateUntitled(gone, Min((1 .. MaxEds) \ {loop})) ELSE gone
  IN  /\ phase = "editing"
      /\ env.ed[loop].dirty => yes
      /\ e.untitled <= MaxUntitled
      /\ env' = e
      /\ agreed' = IF env.ed[loop].dirty THEN {loop} ELSE {}
      /\ loop' = IF intact THEN e.current ELSE NULL
      /\ phase' = IF intact THEN phase ELSE "undefined"
      /\ UNCHANGED disk

\* Mutant of Asked: the editor the question began with is not asked about.
AskedButCurrent(e) ==
  {After(e, n) : n \in {k \in 1 .. Cardinality(Live(e)) - 1 : e.ed[After(e, k)].dirty}}

\* The editors quit_editor asks about: the dirty ones, all around the ring.
Asked(e) ==
  {After(e, n) : n \in {k \in 0 .. Cardinality(Live(e)) - 1 : e.ed[After(e, k)].dirty}}

\* quit_editor, when the user says yes to everything, and buteenv_destroy.
\* (At the first no nothing happens.)
Quit ==
  LET gone[n \in 0 .. Cardinality(Live(env))] ==
        IF n = 0 THEN env ELSE Destroy(gone[n - 1], gone[n - 1].current)
  IN  /\ phase = "editing"
      /\ agreed' = Asked(env)
      /\ env' = gone[Cardinality(Live(env))]
      /\ loop' = NULL /\ phase' = "over"
      /\ UNCHANGED disk

EnvNext ==
  \/ \E t \in Contents : Edit(t)
  \/ UndoAll
  \/ NextBuffer
  \/ NewEditor
  \/ \E name \in Names, readable \in BOOLEAN : Open(name, readable)
  \/ \E opened, written \in BOOLEAN : Save(opened, written)
  \/ \E name \in Names, yes, opened, written \in BOOLEAN : SaveAs(name, yes, opened, written)
  \/ \E yes, intact \in BOOLEAN : Close(yes, intact)
  \/ Quit

EnvSpec == EnvInit /\ [][EnvNext]_envVars

-----------------------------------------------------------------------------
(* Properties.                                                             *)

\* next and prev of the live editors are one ring, walked either way, and the
\* current editor and the keyboard loop's are in it, until the program ends.
RingOK ==
  /\ phase = "over" <=> Live(env) = {}
  /\ DOMAIN env.next = Live(env) /\ DOMAIN env.prev = Live(env)
  /\ \A id \in Live(env) :
       env.next[id] \in Live(env) /\ env.prev[env.next[id]] = id
  /\ Live(env) # {} =>
       {After(env, n) : n \in 0 .. Cardinality(Live(env)) - 1} = Live(env)
  /\ phase = "editing" => loop = env.current

\* No edit is lost unless the user agreed: when an editor goes away, its text
\* is the one that was loaded or saved, or the question about it was answered
\* with yes.  (A write that was cut short is taken for a save.)
NothingLostUnasked ==
  [][\A id \in Live(env) \ Live(env') :
       env.ed[id].text = env.ed[id].base \/ id \in agreed']_envVars

\* An editor that becomes clean by saving has its text in its file, unless the
\* write was cut short.
CleanIsOnDisk ==
  [][\A id \in Live(env) \cap Live(env') :
       LET d == env'.ed[id]
       IN  env.ed[id].dirty /\ ~d.dirty /\ d.text = env.ed[id].text
             => d.cut \/ d.text = env.ed[id].base \/ disk'[d.name] = d.text]_envVars

\* From the edit to the file nothing is lost, however closing, quitting and
\* saving under new names alternate, and whichever writes fail.
NothingIsLost == NothingLostUnasked /\ CleanIsOnDisk

\* "If there is already a buffer with the specified name, switch to that
\* buffer": opening makes no second editor of a name.
OpenIsUnique ==
  [][\A id \in Live(env') \ Live(env) :
       ~env'.ed[id].newfile => \A k \in Live(env) : env.ed[k].name # env'.ed[id].name]_envVars
=============================================================================
