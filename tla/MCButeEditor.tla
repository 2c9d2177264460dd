---------------------------- MODULE MCButeEditor ----------------------------
(* Texts of a letter, a blank, a tab and newlines on a screen of two lines.  *)
EXTENDS ButeEditor

CONSTANTS x, nl, sp, tab, MaxFile

MCChar == {x, nl, sp, tab}
MCFiles == UNION {[1 .. n -> MCChar] : n \in 0 .. MaxFile}
\* Without blanks: the tab is the white space.
MCFewFiles == {t \in MCFiles : \A i \in DOMAIN t : t[i] # sp}
MCSearches == {<<x>>, <<nl, x>>}

Moves == {"up", "down", "left", "right", "wordleft", "home", "end", "top", "bottom",
          "pageup", "pagedown", "select_all", "find_text", "goto_line"}
Edits == {"insert_char", "newline", "backspace", "del", "copy", "cut", "paste"}

MovesAndEdits == Moves \cup Edits
Undoing == {"up", "down", "left", "right", "insert_char", "newline", "backspace", "undo"}

\* The commands that keep the cached lines right: all but wordright, indent,
\* unindent and redo.
Reliable == {[commands |-> MovesAndEdits, recording |-> FALSE],
             [commands |-> Undoing, recording |-> TRUE]}

\* Enough commands to make every selection, over every text.
Selecting ==
  {[commands |-> {"left", "right", "wordright", "insert_char", "backspace",
                  "indent", "unindent", "undo", "redo"}, recording |-> TRUE]}

Everything ==
  {[commands |-> MovesAndEdits \cup {"wordright", "indent", "unindent", "undo", "redo"},
    recording |-> TRUE]}
Checked == Reliable \cup Selecting

\* Blanks only where they indent a line.
Indenting == {t \in MCFiles : \A i \in DOMAIN t : t[i] = sp => i = 1 \/ t[i - 1] \in {nl, sp}}
MCInit == Init /\ ed.text \in (IF session \in Reliable THEN MCFewFiles ELSE Indenting)
MCSpec == MCInit /\ [][Next]_edVars
=============================================================================
