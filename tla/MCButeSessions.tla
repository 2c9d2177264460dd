--------------------------- MODULE MCButeSessions ---------------------------
(***************************************************************************)
(* What a session of bute keeps: the texts of one document in its undo     *)
(* list, and the editors of a session in their ring, one part to a         *)
(* behaviour.  The undo list has two characters and a run of two, so that  *)
(* merges and their refusals both happen; the ring has three editors at    *)
(* most, over two names and two contents.                                  *)
(***************************************************************************)
EXTENDS ButeUndo, ButeEnv

CONSTANTS a, b, f, g, Parts

MCChar == {a, b}
MCBufs == {<<>>, <<a>>, <<a, b>>}
MCFiles == {<<>>, <<a, b>>}
MCNames == {f, g}
MCArgs == {<<f>>, <<f, g>>, <<f, f>>}

VARIABLE part
InPart(p) == part = p /\ UNCHANGED part

\* Each part starts with the other at rest: an editor on an empty document.
MCInit ==
  /\ part \in Parts
  /\ IF part = "undo" THEN UndoInit ELSE saved = <<>> /\ doc = NewDoc(saved)
  /\ IF part = "env" THEN EnvInit
     ELSE /\ disk = [n \in Names |-> NoFile] /\ env = CreateUntitled(NoEnv, 1)
          /\ loop = env.current /\ agreed = {} /\ phase = "editing"

UndoPart == InPart("undo") /\ UndoNext /\ UNCHANGED envVars
EnvPart == InPart("env") /\ EnvNext /\ UNCHANGED undoVars

MCSpec == MCInit /\ [][UndoPart \/ EnvPart]_<<part, undoVars, envVars>>
=============================================================================
