--------------------------- MODULE MCControlChannel ---------------------------
(* A finite instance of ControlChannel for TLC: "q" is QUIT and "us" is USER, *)
(* a verb of two characters, so that it can be cut.                           *)
EXTENDS ControlChannel

MCVerbs    == {<<"q">>, <<"u", "s">>}
MCQuit     == <<"q">>
MCTexts    == {<<>>, <<"q">>, <<"u", "s", " ", "q">>}
MCLineEnds == {<<CR, LF>>, <<LF>>}
=============================================================================
