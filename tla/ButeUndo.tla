------------------------------ MODULE ButeUndo ------------------------------
(***************************************************************************)
(* One document of bute edited, undone, redone and saved                   *)
(* (bearos_bute/src/bute.c), with the list of ButeUndoList.                *)
(***************************************************************************)
EXTENDS ButeUndoList

CONSTANTS Bufs,       \* the runs of text the commands insert
          Files,      \* the texts a file may hold
          MaxText,    \* bound: the longest text explored
          MaxRecs     \* bound: the longest undo list explored

ASSUME UndoAssumption ==
  /\ Bufs \subseteq Seq(Char) /\ Files \subseteq Seq(Char)
  /\ MaxText \in Nat /\ MaxRecs \in Nat

VARIABLES doc,     \* struct BUTE: text, recs, at, head, dirty, undefined
          saved    \* the text last loaded, or handed to write_file

undoVars == <<doc, saved>>

-----------------------------------------------------------------------------
(* The specification.                                                      *)

UndoInit ==
  /\ saved \in Files
  /\ doc = NewDoc(saved)

\* insert and erase of the editor's commands (pasting nothing inserts <<>>).
EditText(pos, len, buf) ==
  /\ ~doc.undefined
  /\ pos + len <= Len(doc.text)
  /\ doc' = ReplaceIn(doc, pos, len, buf)
  /\ Len(doc'.text) <= MaxText /\ Len(doc'.recs) <= MaxRecs
  /\ UNCHANGED saved

Undo ==
  /\ ~doc.undefined
  /\ doc.at # 0
  /\ doc' = UndoIn(doc)
  /\ UNCHANGED saved

Redo ==
  /\ ~doc.undefined
  /\ CanRedo(doc)
  /\ doc' = RedoIn(doc)
  /\ UNCHANGED saved

\* save_file, when write_file reports success.  (When the file cannot be
\* opened nothing changes.)
SaveText ==
  /\ ~doc.undefined
  /\ saved' = doc.text
  /\ doc' = [FreeUndo(doc) EXCEPT !.dirty = FALSE]

UndoNext ==
  \/ \E pos, len \in 0 .. Len(doc.text), buf \in Bufs : EditText(pos, len, buf)
  \/ Undo
  \/ Redo
  \/ SaveText

UndoSpec == UndoInit /\ [][UndoNext]_undoVars

-----------------------------------------------------------------------------
(* Properties.                                                             *)

Recs == [pos : Nat, erased : Seq(Char), inserted : Seq(Char)]

\* The fields have their types, `undo` lies inside the list, and undohead is
\* NULL exactly when the editor has no record.
TypeOK ==
  /\ saved \in Seq(Char)
  /\ doc \in [text : Seq(Char), recs : Seq(Recs), at : Nat,
              head : {"null", "first", "freed"}, dirty : BOOLEAN, undefined : BOOLEAN]
  /\ doc.at <= Len(doc.recs)
  /\ doc.head = "null" <=> doc.recs = <<>>

\* The flag that decides whether quitting asks and whether saving writes: it
\* is clear exactly when every edit since the last save has been undone, and
\* then the text is the one that was saved.
CleanMeansSaved ==
  ~doc.undefined => /\ doc.dirty <=> doc.at # 0
                    /\ ~doc.dirty => doc.text = saved

UndoListOK == TypeOK /\ CleanMeansSaved

\* The text before or after the records: all of them follow from the text.
TextAt(d, k) ==
  LET back[i \in 0 .. d.at] ==
        IF i = d.at THEN d.text
        ELSE LET r == d.recs[i + 1]
             IN  Texts!Splice(back[i + 1], r.pos, Len(r.inserted), r.erased)
      forth[i \in d.at .. Len(d.recs)] ==
        IF i = d.at THEN d.text
        ELSE LET r == d.recs[i]
             IN  Texts!Splice(forth[i - 1], r.pos, Len(r.erased), r.inserted)
  IN  IF k <= d.at THEN back[k] ELSE forth[k]

\* Undo and redo walk along the texts the editor went through, and merging a
\* character into the newest record loses no text but the one in between.
\* (Where undohead is followed to freed memory the model stops.  This is H!Spec,
\* with the steps that leave the document alone looked at first.)
H == INSTANCE ButeHistory WITH
       texts <- [i \in 1 .. Len(doc.recs) + 1 |-> TextAt(doc, i - 1)],
       now <- doc.at + 1
RefinesHistory == H!Init /\ [][UNCHANGED undoVars \/ H!Next]_(H!vars)

-----------------------------------------------------------------------------
(* What the comments of the source say, and the code does not do.          *)

\* "struct undo *undohead; // Start of undo buffer list": the pointer redo and
\* free_undo start from is the first record, if there is one.
HeadIsStart == doc.head = (IF doc.recs = <<>> THEN "null" ELSE "first")
=============================================================================
