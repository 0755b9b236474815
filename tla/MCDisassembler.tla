--------------------------- MODULE MCDisassembler ---------------------------
(* All segments of up to two words of five bits, those of three words that   *)
(* are data, or instructions of every kind, and all indexes qsort() may make.*)
EXTENDS Reassembly

Several == {0, 2, 9, 10, 12, 13, 14, 31}

MCSegments ==
    (UNION {[0 .. n - 1 -> Word] : n \in 0 .. 2}) \cup [0 .. 2 -> Several]

MCIndexes ==
    LET Either(a, b) == {<<a, b>>, <<b, a>>}
    IN  {<<"JMP", "JRP", "LDN", "STO", "SUB">> \o skn \o hlt \o dir :
            skn \in Either("SKN", "CMP"), hlt \in Either("HLT", "STP"),
            dir \in Either("NUM", "EJA")}
=============================================================================
