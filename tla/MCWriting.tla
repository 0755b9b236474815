----------------------------- MODULE MCWriting -----------------------------
(* Three-bit words, sections of up to three of them, and a stream of three   *)
(* pieces, which is no multiple of a line.                                   *)
EXTENDS Writing

MCSections == {<<>>} \cup {<<a>> : a \in 0 .. 7}
                     \cup {<<1, a>> : a \in 0 .. 7}
                     \cup {<<6, 0, a>> : a \in {0, 1, 4}}
MCRooms == 0 .. 16
=============================================================================
