--------------------------- MODULE MCSymbolTable ---------------------------
(* Two contexts, one inside the other, and three names, two of which have    *)
(* the same text.                                                            *)
EXTENDS SymbolTable

CONSTANTS x, y, y2         \* names

MCNames == {x, y, y2}
MCKey == [n \in MCNames |-> IF n = x THEN 1 ELSE 0]
MCContexts == 1 .. 2
MCParent == [c \in MCContexts |-> c - 1]
=============================================================================
