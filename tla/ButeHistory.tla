---------------------------- MODULE ButeHistory ----------------------------
(***************************************************************************)
(* What undo and redo of bute promise: the editor remembers the texts it   *)
(* went through since the file was loaded or saved, undo and redo walk     *)
(* along them, and an edit forgets the texts ahead.  A typed or erased     *)
(* character may extend the newest step instead of starting one.           *)
(***************************************************************************)
EXTENDS Integers, Sequences

CONSTANTS Char, Bufs, MaxText

VARIABLES texts,    \* the texts remembered, oldest first
          now,      \* which of them is the text being edited
          saved     \* the text last loaded from or handed to the file

vars == <<texts, now, saved>>

Text == INSTANCE ButeText WITH text <- texts[now]

Init ==
  /\ saved \in Seq(Char)
  /\ texts = <<saved>>
  /\ now = 1

\* The texts from the first to the n-th, followed by t.
Then(n, t) == Append(SubSeq(texts, 1, n), t)

Edit(pos, len, buf) ==
  LET t == Text!Splice(texts[now], pos, len, buf)
  IN  /\ pos + len <= Len(texts[now])
      /\ \/ texts' = Then(now, t) /\ now' = now + 1
         \/ /\ now > 1 /\ len + Len(buf) = 1
            /\ texts' = Then(now - 1, t) /\ UNCHANGED now
      /\ UNCHANGED saved

Undo == now > 1 /\ now' = now - 1 /\ UNCHANGED <<texts, saved>>

Redo == now < Len(texts) /\ now' = now + 1 /\ UNCHANGED <<texts, saved>>

Save == saved' = texts[now] /\ texts' = <<saved'>> /\ now' = 1

Next ==
  \/ \E pos, len \in 0 .. Len(texts[now]), buf \in Bufs : Edit(pos, len, buf)
  \/ Undo
  \/ Redo
  \/ Save

Spec == Init /\ [][Next]_vars
=============================================================================
