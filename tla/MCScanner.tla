----------------------------- MODULE MCScanner -----------------------------
(* All texts of up to six characters.                                        *)
EXTENDS Scanner

CONSTANTS x, semicolon, minus       \* x: any other character

MCTexts == SeqOf({x, semicolon, minus, Newline}, 6)

MCCommentMarks == {<<semicolon>>, <<minus, minus>>}
=============================================================================
