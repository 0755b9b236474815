------------------------------ MODULE LineIndex ----------------------------
(* bas.c: the index of a source file, by which the listing finds the text of *)
(* a line.  It is filled in while statements are parsed; for each statement  *)
(* it is doubled at most once.                                               *)
EXTENDS Integers

CONSTANT IndexSize      \* entries at first  (40)

ASSUME IndexAssumption == IndexSize \in Nat \ {0}

NoEntry == [line |-> 0]

(* parse(): lines is the largest line there was.                             *)
EmptyIndex ==
    [lines |-> 0, size |-> IndexSize, entries |-> [n \in 1 .. IndexSize |-> NoEntry]]

Sized(index, lines, size) ==
    [lines |-> lines, size |-> size,
     entries |-> [n \in 1 .. size |->
                     IF n <= index.size THEN index.entries[n] ELSE NoEntry]]

(* Mutant: the index grows when it is full but for its last line.            *)
ForLineLate(index, line) ==
    LET lines == IF line > index.lines THEN line ELSE index.lines
    IN  Sized(index, lines,
              IF index.lines >= index.size THEN 2 * index.size ELSE index.size)

(* The index made ready for a line.                                          *)
ForLine(index, line) ==
    LET lines == IF line > index.lines THEN line ELSE index.lines
    IN  Sized(index, lines, IF lines >= index.size THEN 2 * index.size ELSE index.size)

(* Whether the line has an entry then; the code goes to it unasked.          *)
InBounds(index, line) == line <= ForLine(index, line).size

(* The entry of the line is set to a place.                                  *)
Noted(index, line, place) == [ForLine(index, line) EXCEPT !.entries[line] = place]

(* seek_to_line(): the place where it leaves the stream, or NoEntry.         *)
Sought(index, line) ==
    IF line \in 1 .. index.lines THEN index.entries[line] ELSE NoEntry

(* What every index satisfies.                                               *)
IndexOK(index) ==
    /\ index = [lines |-> index.lines, size |-> index.size, entries |-> index.entries]
    /\ index.lines \in Nat /\ index.size \in Nat
    /\ IndexSize <= index.size /\ index.lines <= index.size
    /\ DOMAIN index.entries = 1 .. index.size
=============================================================================
