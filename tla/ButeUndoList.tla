---------------------------- MODULE ButeUndoList ----------------------------
(***************************************************************************)
(* The undo list of bute (bearos_bute/src/bute.c).  Every edit goes        *)
(* through replace, which records what it erases and inserts in a doubly   *)
(* linked list; `undo` points at the newest record that is in effect, and  *)
(* the records after it are what redo would bring back.  The text itself   *)
(* is abstract here: ButeBuffer shows that the gap buffer implements it.   *)
(*                                                                         *)
(* A document d is the part of struct BUTE that replace works on.  Its     *)
(* list is the sequence `recs`; `at` is the index of `undo` (0: NULL), and *)
(* `undotail` is always the last record.  `undohead` is what goes wrong:   *)
(* "null", "first", or "freed" when it points at memory reset_undo gave    *)
(* back.  Following it then is undefined; the model stops there, in a      *)
(* document whose `undefined` is set.                                      *)
(***************************************************************************)
EXTENDS Integers, Sequences

CONSTANT Char      \* the characters a text is made of

\* For Splice, the replacement of a run of text.
Texts == INSTANCE ButeText WITH text <- <<>>, Bufs <- {}, MaxText <- 0

\* A document just made or loaded.
NewDoc(t) == [text |-> t, recs |-> <<>>, at |-> 0, head |-> "null",
              dirty |-> FALSE, undefined |-> FALSE]

-----------------------------------------------------------------------------
(* The list.                                                               *)

\* Mutant of FreeUndo: undohead keeps its value.
FreeUndoKeepHead(d) ==
  [d EXCEPT !.recs = <<>>, !.at = 0, !.undefined = @ \/ d.head = "freed"]

\* free_undo: free the list from undohead on.
FreeUndo(d) ==
  [d EXCEPT !.recs = <<>>, !.at = 0, !.head = "null",
            !.undefined = @ \/ d.head = "freed"]

\* reset_undo: free the records that were undone.  When none is in effect the
\* loop frees the whole list and leaves undohead pointing at it.
ResetUndo(d) ==
  IF d.at = Len(d.recs) THEN d
  ELSE [d EXCEPT !.recs = SubSeq(@, 1, d.at),
                 !.head = IF d.at = 0 THEN "freed" ELSE @]

\* Mutant of Merged: a typed character joins the newest run of typed ones
\* wherever it is typed.
MergedAnywhere(d, pos, len, buf, r) ==
  IF len = 0 /\ Len(buf) = 1 /\ r.erased = <<>>
  THEN {[r EXCEPT !.inserted = @ \o buf]}
  ELSE {}

\* The record a merge into the newest record r gives, if it can be merged: a
\* character typed at the end of a run of typed characters, or erased at
\* either side of a run of erased ones.
Merged(d, pos, len, buf, r) ==
  IF len = 0 /\ Len(buf) = 1 /\ r.erased = <<>> /\ pos = r.pos + Len(r.inserted)
  THEN {[r EXCEPT !.inserted = @ \o buf]}
  ELSE IF len # 1 \/ buf # <<>> \/ r.inserted # <<>> THEN {}
  ELSE IF pos = r.pos
  THEN {[r EXCEPT !.erased = Append(@, d.text[pos + 1])]}
  ELSE IF pos = r.pos - 1
  THEN {[r EXCEPT !.pos = pos, !.erased = <<d.text[pos + 1]>> \o @]}
  ELSE {}

\* The first half of replace: the edit is merged into the newest record or
\* gets one of its own.
Record(d, pos, len, buf) ==
  LET n == Len(d.recs)
      merged == IF n = 0 THEN {} ELSE Merged(d, pos, len, buf, d.recs[n])
  IN  IF merged # {}
      THEN [d EXCEPT !.recs[n] = CHOOSE r \in merged : TRUE]
      ELSE [d EXCEPT !.recs = Append(@, [pos |-> pos, inserted |-> buf,
                                         erased |-> SubSeq(d.text, pos + 1, pos + len)]),
                     !.at = n + 1,
                     !.head = IF @ = "null" THEN "first" ELSE @]

-----------------------------------------------------------------------------
(* The commands.                                                           *)

\* The second half of replace, and all of it when do_undo is 0.
ReplaceText(d, pos, len, buf) ==
  [d EXCEPT !.text = Texts!Splice(@, pos, len, buf), !.dirty = TRUE]

\* replace with do_undo, what insert and erase call.
ReplaceIn(d, pos, len, buf) ==
  ReplaceText(Record(ResetUndo(d), pos, len, buf), pos, len, buf)

\* Mutant of UndoIn: the text counts as saved after any undo.
UndoInClean(d) ==
  LET r == d.recs[d.at]
  IN  [ReplaceText(d, r.pos, Len(r.inserted), r.erased) EXCEPT
         !.at = d.at - 1, !.dirty = FALSE]

\* undo, when there is a record in effect.
UndoIn(d) ==
  LET r == d.recs[d.at]
  IN  [ReplaceText(d, r.pos, Len(r.inserted), r.erased) EXCEPT
         !.at = d.at - 1, !.dirty = d.at # 1]

\* redo has a record to bring back: undo->next, or undohead when undo is NULL.
CanRedo(d) == IF d.at = 0 THEN d.head # "null" ELSE d.at < Len(d.recs)

\* redo, when there is one.
RedoIn(d) ==
  IF d.at = 0 /\ d.head = "freed" THEN [d EXCEPT !.undefined = TRUE]
  ELSE LET r == d.recs[d.at + 1]
       IN  [ReplaceText(d, r.pos, Len(r.erased), r.inserted) EXCEPT !.at = d.at + 1]

=============================================================================
