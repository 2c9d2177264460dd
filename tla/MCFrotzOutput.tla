--------------------------- MODULE MCFrotzOutput ---------------------------
(***************************************************************************)
(* A screen of a few short rows, and a few texts, for each group of        *)
(* operations on the output.                                               *)
(***************************************************************************)
EXTENDS FrotzOutput

R == ZC_RETURN
MCVersions == [print |-> {5}, loose |-> {4}, tables |-> {5, 6}, windows |-> {4, 5}, status |-> {3}, v6 |-> {6}]
MCMaxSteps == [print |-> 3, loose |-> 4, tables |-> 4, windows |-> 3, status |-> 3, v6 |-> 3]
\* "word word-word ", a long one at the end of a row, rows of one letter
Abc == <<97, 98, 99>>
MCTexts == [print |-> {Abc \o <<100, 32>> \o Abc \o <<45, 45>> \o Abc, <<101, 102, 103, 104, 105, 106, 107, 32>>, <<104, R, R, 105, R>>},
            loose |-> {Abc \o <<32>> \o Abc \o <<45>> \o Abc, Abc \o Abc \o <<R>>},
            tables |-> {<<120, 32, 121, 121>>, <<122, R>>},
            windows |-> {<<120, 121>>, <<122, R>>, Abc \o <<32>> \o Abc \o Abc \o <<32>> \o Abc \o Abc \o Abc},
            status |-> {<<120>>, <<121, R, 122, R>>},
            v6 |-> {<<120, 121>>, Abc \o <<ZC_GAP, 122>>}]
MCInits == [print |-> {<<>>, <<112, 113>>}, loose |-> {<<>>}, tables |-> {<<>>}, windows |-> {<<>>}, status |-> {<<>>}, v6 |-> {<<>>}]
Key(k, text, says, stop) == [key |-> k, text |-> text, says |-> says, stop |-> stop]
Lines1 == {<<Key(R, <<116, 117>>, <<>>, TRUE)>>,
           <<Key(0, <<>>, <<111>>, FALSE), Key(R, <<118>>, <<>>, TRUE)>>,
           <<Key(0, <<116>>, <<R, 111, R>>, FALSE), Key(R, <<118>>, <<>>, TRUE)>>,
           <<Key(0, <<>>, <<>>, TRUE)>>,
           <<Key(14, <<>>, <<111>>, FALSE), Key(R, <<>>, <<>>, TRUE)>>}
MCLinesOf == [print |-> Lines1, loose |-> {}, tables |-> {}, windows |-> {}, status |-> {<<Key(R, <<116>>, <<>>, TRUE)>>}, v6 |-> {}]
MCTables == {0, 30}
MCWidths == {0, -6}
MCNames == {<<110>>, <<110, 111, 112, 113>>}
MCColours == <<9, 6>>
=============================================================================
